------------------------------ MODULE GitTrees ------------------------------
(***************************************************************************)
(* The pool of worktrees, one git command at a time                        *)
(* (src/vekna/links/worktrees.py). Each command may fail; one that throws  *)
(* work away may fail half way; and the daemon may die between any two.    *)
(*                                                                         *)
(* The project's lock lets one lease, release or purify at a time in       *)
(* (mills/circle.py); `prepare` runs outside it. The trees in `out` are    *)
(* the `held` it is called with.                                           *)
(***************************************************************************)
EXTENDS Integers, FiniteSets, FiniteSetsExt

CONSTANTS
    Tree,       \* the numbers a tree of the pool may have
    Count,      \* `worktrees`, how many the pool is to have
    Piece,      \* changes a cast makes
    None,
    MaxOpens    \* bound: merges and rebases left open

Asked == {"lease", "release", "purify", "save"}
Command == {"next", "status", "operations", "checkout", "gitdir", "look", "add",
            "commit", "branch", "abort", "reset", "clean"}

ASSUME GitTreesAssumption ==
    /\ IsFiniteSet(Tree) /\ Tree = 1..Cardinality(Tree)
    /\ Count \in 0..Cardinality(Tree) /\ MaxOpens \in Nat
    /\ None \notin Tree /\ None \notin Asked \cup Command

VARIABLES
    listed,     \* what `git worktree list` shows of the pool
    parked,     \* trees on `vekna/wt-<n>`
    loose, staged,      \* changes not committed: out of the index, and in it
    picked,     \* committed on the detached head of a rebase, and on no branch
    open,       \* each tree's operations left open
    built, marked,      \* trees where `prepare` has run well; with its marker
    kept,       \* what is on a rescue branch
    out,        \* trees leased
    preparing,  \* those among them `prepare` runs in
    op,         \* what the pool is doing: None, or one of Asked
    at,         \* the command it comes to
    tree,       \* in this tree
    todo,       \* the trees still to look at
    snapshot,   \* what the commit to be saved holds
    written, opens

changes == <<loose, staged, picked, open>>
prepared == <<built, marked, preparing>>
doing == <<op, at, tree, todo, snapshot>>
bounded == <<written, opens>>
vars == <<listed, parked, changes, prepared, kept, out, doing, bounded>>

Init ==
    /\ listed = {} /\ parked = {} /\ built = {} /\ marked = {}
    /\ loose = [t \in Tree |-> {}] /\ staged = loose /\ picked = loose /\ open = loose
    /\ kept = {} /\ out = {} /\ preparing = {}
    /\ op = None /\ at = None /\ tree = None /\ todo = {} /\ snapshot = {}
    /\ written = {} /\ opens = 0

Dirty(t) == loose[t] \cup staged[t] # {}
Moves(command) == at' = command /\ UNCHANGED <<op, tree, todo, snapshot>>
Idle == op' = None /\ at' = None /\ tree' = None /\ todo' = {} /\ snapshot' = {}

-----------------------------------------------------------------------------
(* Lease and purify: the pool read off git, then each tree nobody holds.   *)

Free == listed \ out

Begins ==
    /\ op = None /\ op' \in {"lease", "purify", "save"}
    /\ at' = "next" /\ tree' = None /\ todo' = Free /\ snapshot' = {}
    /\ UNCHANGED <<listed, parked, changes, prepared, kept, out, bounded>>

NextTree ==
    /\ at = "next" /\ todo # {}
    /\ tree' = Min(todo) /\ todo' = todo \ {tree'}
    /\ at' = IF op = "lease" THEN "status" ELSE "gitdir"
    /\ UNCHANGED <<op, snapshot, listed, parked, changes, prepared, kept, out, bounded>>

(* One tree was come to nothing with: blocked, or failed.                  *)
GivenUp ==
    /\ IF op = "release" THEN out' = out \ {tree} /\ Idle
       ELSE Moves("next") /\ UNCHANGED out
    /\ UNCHANGED <<listed, parked, prepared, kept, bounded>>

(* No tree is left to try: the pool grows, or the lease is refused.        *)
Made ==
    /\ op = "lease" /\ at = "next" /\ todo = {} /\ Cardinality(listed) < Count
    /\ LET number == Min((1..Count) \ listed)
       IN  /\ listed' = listed \cup {number} /\ parked' = parked \cup {number}
           /\ out' = out \cup {number} /\ preparing' = preparing \cup {number}
    /\ Idle
    /\ UNCHANGED <<changes, built, marked, kept, bounded>>

Over ==
    /\ at = "next" /\ todo = {}
    /\ Idle
    /\ UNCHANGED <<listed, parked, changes, prepared, kept, out, bounded>>

-----------------------------------------------------------------------------
(* `release`: a tree is parked only once nothing is left in it.            *)

ReleaseBegins(t) ==
    /\ op = None /\ op' = "release"
    /\ at' = "status" /\ tree' = t /\ UNCHANGED <<todo, snapshot>>
    /\ UNCHANGED <<listed, parked, changes, built, marked, kept, out, bounded>>

Releases(t) == t \in out \ preparing /\ ReleaseBegins(t) /\ UNCHANGED preparing

Runs(command, then) ==
    /\ at = command
    /\ \/ GivenUp /\ UNCHANGED changes
       \/ then

Proceeds(command) ==
    Moves(command) /\ UNCHANGED <<listed, parked, changes, prepared, kept, out, bounded>>

StatusRead == Runs("status", ~Dirty(tree) /\ Proceeds("operations"))

(* Mutant: a clean status is enough.                                       *)
OperationsUnread == Runs("operations", Proceeds("checkout"))

OperationsRead == Runs("operations", open[tree] = {} /\ Proceeds("checkout"))

Parks ==
    /\ parked' = parked \cup {tree}
    /\ \/ op = "lease" /\ out' = out \cup {tree} /\ preparing' = preparing \cup {tree} /\ Idle
       \/ op = "release" /\ out' = out \ {tree} /\ UNCHANGED preparing /\ Idle
       \/ op \in {"purify", "save"} /\ UNCHANGED <<out, preparing>> /\ Moves("next")
    /\ UNCHANGED <<listed, changes, built, marked, kept, bounded>>

CheckedOut == Runs("checkout", Parks)

-----------------------------------------------------------------------------
(* `purify`: what there is to save saved, then thrown away, then released. *)

GitDirRead == Runs("gitdir", Proceeds(IF op = "save" THEN "look" ELSE "abort"))

LookedAt ==
    Runs("look", Proceeds(IF Dirty(tree) \/ open[tree] # {} THEN "add" ELSE "abort"))

Added ==
    Runs("add", /\ loose' = [loose EXCEPT ![tree] = {}]
                /\ staged' = [staged EXCEPT ![tree] = @ \cup loose[tree]]
                /\ Moves("commit")
                /\ UNCHANGED <<listed, parked, picked, open, prepared, kept, out, bounded>>)

(* The index, on top of HEAD: `write-tree` and `commit-tree`.              *)
Committed ==
    Runs("commit", /\ snapshot' = staged[tree] \cup picked[tree]
                   /\ at' = "branch" /\ UNCHANGED <<op, tree, todo>>
                   /\ UNCHANGED <<listed, parked, changes, prepared, kept, out, bounded>>)

Branched ==
    Runs("branch", /\ kept' = kept \cup snapshot
                   /\ snapshot' = {} /\ at' = "abort" /\ UNCHANGED <<op, tree, todo>>
                   /\ UNCHANGED <<listed, parked, changes, prepared, out, bounded>>)

(* A command that throws changes away fails when some are gone, or none.   *)
Throws(command, then) ==
    /\ at = command
    /\ \/ /\ \E l \in SUBSET loose[tree] : loose' = [loose EXCEPT ![tree] = l]
          /\ \E s \in SUBSET staged[tree] : staged' = [staged EXCEPT ![tree] = s]
          /\ GivenUp /\ UNCHANGED <<picked, open>>
       \/ then /\ UNCHANGED <<listed, parked, prepared, kept, out, bounded>>

(* The operations left open, each ended by the command of its own; that of *)
(* a rebase goes back to the branch it began on.                           *)
Aborts(o) ==
    /\ o \in open[tree] /\ (o = "rebase" => open[tree] = {"rebase"})
    /\ open' = [open EXCEPT ![tree] = @ \ {o}]
    /\ picked' = IF o = "rebase" THEN [picked EXCEPT ![tree] = {}] ELSE picked
    /\ staged' = [staged EXCEPT ![tree] = {}]
    /\ \E l \in SUBSET loose[tree] : loose' = [loose EXCEPT ![tree] = l]
    /\ Moves(IF open'[tree] = {} THEN "reset" ELSE "abort")

Aborted ==
    Throws("abort", \/ \E o \in {"merge", "rebase"} : Aborts(o)
                    \/ open[tree] = {} /\ Moves("reset") /\ UNCHANGED changes)

Reset ==
    Throws("reset", /\ staged' = [staged EXCEPT ![tree] = {}]
                    /\ \E l \in SUBSET loose[tree] : loose' = [loose EXCEPT ![tree] = l]
                    /\ Moves("clean") /\ UNCHANGED <<picked, open>>)

Cleaned ==
    Throws("clean", /\ loose' = [loose EXCEPT ![tree] = {}]
                    /\ Moves("status") /\ UNCHANGED <<staged, picked, open>>)

-----------------------------------------------------------------------------
(* `prepare`: once per tree, whatever is asked of the pool meanwhile.      *)

(* The marker, made once it has run; a tree with one is not prepared again. *)
Prepares(t) ==
    /\ t \in preparing
    /\ IF t \in marked \cup built
       THEN marked' = marked \cup {t} /\ preparing' = preparing \ {t} /\ UNCHANGED built
       ELSE built' = built \cup {t} /\ UNCHANGED <<marked, preparing>>
    /\ UNCHANGED <<listed, parked, changes, kept, out, doing, bounded>>

PrepareFails(t) ==
    /\ t \in preparing \ marked
    /\ ReleaseBegins(t) /\ preparing' = preparing \ {t}

-----------------------------------------------------------------------------
(* The cast in a tree: edits, an operation begun, what it committed.       *)

Working(t) == t \in out \ preparing /\ tree # t

Edits(t) ==
    /\ Working(t)
    /\ \E p \in Piece \ written :
        /\ written' = written \cup {p}
        /\ \/ loose' = [loose EXCEPT ![t] = @ \cup {p}] /\ UNCHANGED staged
           \/ staged' = [staged EXCEPT ![t] = @ \cup {p}] /\ UNCHANGED loose
    /\ UNCHANGED <<listed, parked, picked, open, prepared, kept, out, doing, opens>>

Opens(t) ==
    /\ Working(t) /\ opens < MaxOpens /\ opens' = opens + 1
    /\ \E o \in {"merge", "rebase"} \ open[t] : open' = [open EXCEPT ![t] = @ \cup {o}]
    /\ parked' = parked \ {t}
    /\ UNCHANGED <<listed, loose, staged, picked, prepared, kept, out, doing, written>>

Commits(t) ==
    /\ Working(t) /\ staged[t] # {}
    /\ staged' = [staged EXCEPT ![t] = {}]
    /\ picked' = IF "rebase" \in open[t] THEN [picked EXCEPT ![t] = @ \cup staged[t]] ELSE picked
    /\ UNCHANGED <<listed, parked, loose, open, prepared, kept, out, doing, bounded>>

(* A blocked tree somebody cleans by hand, its branch left as it is.       *)
ByHand(t) ==
    /\ t \in listed \ out /\ op = None /\ (Dirty(t) \/ open[t] # {})
    /\ loose' = [loose EXCEPT ![t] = {}] /\ staged' = [staged EXCEPT ![t] = {}]
    /\ picked' = [picked EXCEPT ![t] = {}] /\ open' = [open EXCEPT ![t] = {}]
    /\ UNCHANGED <<listed, parked, prepared, kept, out, doing, bounded>>

(* The daemon dies, between two commands: a cast lives on in its tree.     *)
Dies ==
    /\ op # None \/ preparing # {}
    /\ Idle /\ preparing' = {}
    /\ out' = out \ (preparing \cup (IF op = "release" THEN {tree} ELSE {}))
    /\ UNCHANGED <<listed, parked, changes, built, marked, kept, bounded>>

-----------------------------------------------------------------------------

Commands ==
    \/ StatusRead \/ OperationsRead \/ CheckedOut \/ GitDirRead \/ LookedAt
    \/ Added \/ Committed \/ Branched \/ Aborted \/ Reset \/ Cleaned

Next ==
    \/ Begins \/ NextTree \/ Made \/ Over \/ Commands \/ Dies
    \/ \E t \in Tree : \/ Releases(t) \/ Prepares(t) \/ PrepareFails(t)
                       \/ Edits(t) \/ Opens(t) \/ Commits(t) \/ ByHand(t)

Spec == Init /\ [][Next]_vars

-----------------------------------------------------------------------------

TypeOK ==
    /\ out \subseteq listed /\ preparing \subseteq out /\ listed \subseteq Tree
    /\ marked \subseteq built
    /\ \A t \in Tree : picked[t] # {} => "rebase" \in open[t]
    /\ op = None <=> at = None
    /\ tree # None => tree \in listed

(* Command by command, the pool keeps the promise of Trees: a tree is      *)
(* handed out, or switched, only with nothing in it and no operation open; *)
(* what a cast left is thrown away only by a purify, one that saves only   *)
(* what a branch already keeps, and never in a tree some cast stands in,   *)
(* wherever a command fails and the daemon dies (links/worktrees.py).      *)
Pool == INSTANCE TreePool WITH
    work <- [t \in Tree |-> loose[t] \cup staged[t] \cup picked[t]],
    half <- {t \in Tree : open[t] # {}},
    asked <- op
PromiseKept == Pool!Spec
=============================================================================
