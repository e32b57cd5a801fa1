------------------------------ MODULE MCEngine ------------------------------
(* A ritual that runs two gates together, has an agent mend what failed    *)
(* them under a timeout, in two calls, and races a prompt against a last   *)
(* one on the same thread.                                                 *)
EXTENDS Engine

MendsStep == [checked |-> "gates", broken |-> "mend", green |-> "settle"]
MendsRecovery == [checked |-> "broken", broken |-> None, green |-> None]
MendsBody == [checked |-> << <<"lint">>, <<"test">> >>,
              broken |-> << <<"draft", "fix">> >>,
              green |-> << <<"ask">>, <<"polish">> >>]
MendsExit == [checked |-> [yes |-> "green", no |-> "broken"],
              broken |-> [yes |-> "checked", no |-> Raise],
              green |-> [yes |-> Done, no |-> "green"]]
MendsVisits == [gates |-> 2, mend |-> 1, settle |-> 1]

Says == [lint |-> {"yes", "no"}, test |-> {"yes"}, ask |-> {"yes", "no"},
         draft |-> {"yes"}, fix |-> {"yes", "no"}, polish |-> {"yes"}]
Calling == [lint |-> "shell", test |-> "shell", ask |-> "decide",
            draft |-> "coding", fix |-> "coding", polish |-> "coding"]
Threads == [draft |-> "mending", fix |-> None, polish |-> "mending"]

ASSUME MendsRepeats == Repeatable /\ OneAgent
=============================================================================
