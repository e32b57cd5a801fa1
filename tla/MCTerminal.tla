----------------------------- MODULE MCTerminal -----------------------------
EXTENDS Terminal, TLC

(* A step of the cast itself calls two at once, the first of which calls   *)
(* another; a cast it follows has one.                                     *)
OfRites == "step" :> "own" @@ "a" :> "own" @@ "b" :> "own" @@ "in_a" :> "own" @@ "f" :> "kid"
UnderRites == "step" :> None @@ "a" :> "step" @@ "b" :> "step" @@ "in_a" :> "a" @@ "f" :> None
OneLineEach == [r \in Rite |-> IF r \in {"a", "b", "f"} THEN 1 ELSE 0]

(* The rites of both casts; the prompts of both; and some of each.         *)
RitesOrPrompts == {Rite, Prompt, {"step"} \cup OwnPrompt}
=============================================================================
