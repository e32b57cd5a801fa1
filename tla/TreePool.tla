------------------------------ MODULE TreePool ------------------------------
(***************************************************************************)
(* What a project's pool of worktrees promises of the work that is left in *)
(* them, whatever git commands it takes (the contract of Trees,            *)
(* src/vekna/pacts/circle.py, and docs/cli.md on worktrees and purify).    *)
(***************************************************************************)
CONSTANTS Tree, Piece, None

VARIABLES
    work,       \* what each tree holds and no branch does
    half,       \* trees with an operation of git left open
    parked,     \* trees on their parking branch
    out,        \* trees with a cast, or being made ready for one
    kept,       \* what rescue branches hold
    asked       \* what the pool is asked: "lease", "release", "purify", "save"

poolVars == <<work, half, parked, out, kept, asked>>

Init ==
    /\ work = [t \in Tree |-> {}] /\ half = {} /\ parked = {} /\ out = {}
    /\ kept = {} /\ asked = None

Bare(t) == work[t] = {} /\ t \notin half

Asks ==
    /\ asked = None /\ asked' \in {"lease", "release", "purify", "save"}
    /\ UNCHANGED <<work, half, parked, out, kept>>

(* The daemon may die at any time, and with it what it was asked.          *)
Answers == asked' = None /\ out' \subseteq out /\ UNCHANGED <<work, half, parked, kept>>

(* The cast in a tree does what it likes with it; anybody does with one    *)
(* that is nobody's, while nothing is asked.                               *)
Works(t) ==
    /\ t \in out \/ asked = None
    /\ \E left \in SUBSET Piece : work' = [work EXCEPT ![t] = left]
    /\ half' \ {t} = half \ {t} /\ parked' \ {t} = parked \ {t}
    /\ UNCHANGED <<out, kept, asked>>

Keeps(t) ==
    /\ asked = "save" /\ t \notin out
    /\ kept' = kept \cup work[t]
    /\ UNCHANGED <<work, half, parked, out, asked>>

(* Only a purify throws work away, and one that saves only what it kept;   *)
(* never that of a tree some cast has.                                     *)
Throws(t) ==
    /\ t \notin out /\ asked \in {"purify", "save"}
    /\ work' = [work EXCEPT ![t] = @ \cap work'[t]]
    /\ asked = "save" => work[t] \ work'[t] \subseteq kept
    /\ half' \in {half, half \ {t}}
    /\ UNCHANGED <<parked, out, kept, asked>>

(* Nobody stands in a tree that is switched, and it carries nothing along. *)
Parks(t) ==
    /\ asked = "purify" \/ asked = "save"
    /\ t \notin out /\ Bare(t) /\ parked' = parked \cup {t}
    /\ UNCHANGED <<work, half, out, kept, asked>>

Hands(t) ==
    /\ asked = "lease" /\ t \notin out /\ Bare(t)
    /\ parked' = parked \cup {t} /\ out' = out \cup {t} /\ asked' = None
    /\ UNCHANGED <<work, half, kept>>

TakesBack(t) ==
    /\ asked = "release" /\ t \in out
    /\ \/ UNCHANGED parked
       \/ Bare(t) /\ parked' = parked \cup {t}
    /\ out' = out \ {t} /\ asked' = None
    /\ UNCHANGED <<work, half, kept>>

Next ==
    \/ Asks \/ Answers
    \/ \E t \in Tree : \/ Works(t) \/ Keeps(t) \/ Throws(t)
                       \/ Parks(t) \/ Hands(t) \/ TakesBack(t)

Spec == Init /\ [][Next]_poolVars
=============================================================================
