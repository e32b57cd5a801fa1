------------------------------- MODULE MCBook -------------------------------
EXTENDS Book, TLC

(* One cast with two rites and a prompt, one in another project.           *)
InTwoProjects == 1 :> "here" @@ 2 :> "there"
OneRitual == 1 :> "fix" @@ 2 :> "fix"
OfFirst == [x \in Rite \cup Prompt |-> 1]
InOuter == [p \in Prompt |-> "outer"]
HereAndThere == <<"here", "there">>
OnlyFix == <<"fix">>

(* A rite in another, each in the other, and one in a rite that never came.*)
Parents == {"outer" :> None @@ "inner" :> "outer",
            "outer" :> "inner" @@ "inner" :> "outer"}
=============================================================================
