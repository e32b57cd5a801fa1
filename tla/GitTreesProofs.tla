--------------------------- MODULE GitTreesProofs ---------------------------
(***************************************************************************)
(* Command by command, the pool of worktrees keeps the promise of          *)
(* TreePool: for any number of trees and of changes, and wherever a        *)
(* command fails or the daemon dies.                                       *)
(***************************************************************************)
EXTENDS GitTrees, WellFoundedInduction, FiniteSetTheorems, TLAPS

Work(t) == loose[t] \cup staged[t] \cup picked[t]

TreesTypes ==
    /\ loose \in [Tree -> SUBSET Piece] /\ staged \in [Tree -> SUBSET Piece]
    /\ picked \in [Tree -> SUBSET Piece]
    /\ open \in [Tree -> SUBSET {"merge", "rebase"}]
    /\ op \in Asked \cup {None}
    /\ TypeOK

(* What the pool does stands by the command it comes to, and in a tree it  *)
(* may stand in: nobody's, but for a release.                              *)
Stands ==
    /\ op = None => tree = None
    /\ op \in {None, "release"} => todo = {}
    /\ op \in {"lease", "purify", "save"} =>
        todo \subseteq Free /\ (tree = None \/ tree \in Free)
    /\ op = "release" =>
        tree \in out \ preparing /\ at \in {"status", "operations", "checkout"}
    /\ at \notin {None, "next"} => tree # None
    /\ at \in {"gitdir", "abort", "reset", "clean"} => op \in {"purify", "save"}
    /\ at \in {"look", "add", "commit", "branch"} => op = "save"

(* Nothing is in a tree that git does not list.                            *)
UnlistedBare == \A t \in Tree \ listed : Work(t) = {} /\ open[t] = {}

(* What git has answered still holds when the pool acts upon it.           *)
ReadStill ==
    /\ at = "operations" => ~Dirty(tree)
    /\ at = "checkout" => ~Dirty(tree) /\ open[tree] = {}
    /\ at \in {"commit", "branch"} => loose[tree] = {}
    /\ at = "branch" => snapshot = staged[tree] \cup picked[tree]

(* From the time the branch is made, all of the tree being purified is     *)
(* kept by one.                                                            *)
SavedFirst ==
    op = "save" /\ at \in {"abort", "reset", "clean", "status", "operations", "checkout"} =>
        Work(tree) \subseteq kept

(* The inductive invariant of the refinement: the promise rests on what    *)
(* was read of a tree before the command that counts on it.                *)
TreesInv ==
    /\ TreesTypes
    /\ Stands
    /\ UnlistedBare
    /\ ReadStill
    /\ SavedFirst

-----------------------------------------------------------------------------

(* The numbers of the trees are natural.                                   *)
LEMMA TreeNumbers ==
    ASSUME GitTreesAssumption
    PROVE  Cardinality(Tree) \in Nat /\ Tree \subseteq Nat /\ Count \in Nat
<1>1. Cardinality(Tree) \in Nat
  BY FS_CardinalityType DEF GitTreesAssumption
<1>2. Tree = 1..Cardinality(Tree) /\ Count \in 0..Cardinality(Tree)
  BY DEF GitTreesAssumption
<1>3. 1..Cardinality(Tree) \subseteq Nat /\ 0..Cardinality(Tree) \subseteq Nat
  BY <1>1
<1> QED BY <1>1, <1>2, <1>3

(* A set of natural numbers has a least.                                   *)
LEMMA MinIn ==
    ASSUME NEW S \in SUBSET Nat, S # {}
    PROVE  Min(S) \in S
<1>1. PICK x \in S : \A y \in S : <<y, x>> \notin OpToRel(<, Nat)
  BY NatLessThanWellFounded, WFMin
<1>2. ASSUME NEW y \in S PROVE x <= y
  <2>1. x \in Nat /\ y \in Nat OBVIOUS
  <2>2. ~(y < x) BY <2>1, <1>1 DEF OpToRel
  <2> QED BY <2>1, <2>2
<1> QED BY <1>2 DEF Min

(* A tree still to look at is nobody's.                                    *)
LEMMA NextIsFree ==
    ASSUME GitTreesAssumption, TreesInv, todo # {}
    PROVE  Min(todo) \in todo /\ Min(todo) \in Free
<1>1. todo \subseteq Free /\ Free \subseteq Tree
  BY DEF TreesInv, Stands, TreesTypes, TypeOK, Free, Asked
<1>2. todo \in SUBSET Nat
  BY <1>1, TreeNumbers
<1> QED BY <1>1, <1>2, MinIn

(* While git lists fewer than `worktrees`, a number is free.               *)
LEMMA MadeIsNew ==
    ASSUME GitTreesAssumption, listed \subseteq Tree, Cardinality(listed) < Count
    PROVE  Min((1..Count) \ listed) \in Tree \ listed
<1> DEFINE new == (1..Count) \ listed
<1>1. Count \in Nat /\ 1..Count \subseteq Tree
  BY TreeNumbers DEF GitTreesAssumption
<1>2. new # {}
  <2>1. SUFFICES ASSUME 1..Count \subseteq listed PROVE FALSE
    OBVIOUS
  <2>2. IsFiniteSet(listed) /\ Cardinality(listed) \in Nat
    BY FS_Subset, FS_CardinalityType DEF GitTreesAssumption
  <2>3. Cardinality(1..Count) <= Cardinality(listed)
    BY <2>1, <2>2, FS_Subset
  <2>4. Cardinality(1..Count) = Count
    BY <1>1, FS_Interval
  <2> QED BY <2>2, <2>3, <2>4, <1>1
<1>3. new \in SUBSET Nat
  BY <1>1
<1>4. Min(new) \in new
  BY <1>2, <1>3, MinIn
<1> QED BY <1>1, <1>4

(* Each command leaves true what the next ones count on.                   *)
LEMMA StepKeeps ==
    ASSUME GitTreesAssumption, TreesInv, [Next]_vars
    PROVE  TreesInv'
<1> USE DEF GitTreesAssumption, Asked, Command, Moves, Idle, GivenUp
<1>1. ASSUME Made PROVE TreesInv'
  <2> DEFINE number == Min((1..Count) \ listed)
  <2>1. number \in Tree \ listed
    BY <1>1, MadeIsNew DEF Made, TreesInv, TreesTypes, TypeOK
  <2> HIDE DEF number
  <2>2. /\ listed' = listed \cup {number} /\ out' = out \cup {number}
        /\ preparing' = preparing \cup {number}
        /\ Idle /\ UNCHANGED <<changes, built, marked, kept>>
    BY <1>1 DEF Made, number, bounded
  <2> QED BY <2>1, <2>2 DEF TreesInv, TreesTypes, TypeOK, Stands, UnlistedBare,
      ReadStill, SavedFirst, Work, Dirty, Free, changes
<1> USE DEF GitTreesAssumption, Asked, Command, TreesInv, TreesTypes, TypeOK, Stands,
    UnlistedBare, ReadStill, SavedFirst, Work, Dirty, Free, vars, changes, prepared,
    doing, bounded, Moves, Idle, GivenUp, Runs, Proceeds, Parks, Throws, Aborts,
    ReleaseBegins, Working
<1>2. ASSUME Begins PROVE TreesInv'
  BY <1>2 DEF Begins
<1>3. ASSUME NextTree PROVE TreesInv'
  BY <1>3, NextIsFree DEF NextTree
<1>4. ASSUME Over PROVE TreesInv'
  BY <1>4 DEF Over
<1>5. ASSUME StatusRead PROVE TreesInv'
  BY <1>5 DEF StatusRead
<1>6. ASSUME OperationsRead PROVE TreesInv'
  BY <1>6 DEF OperationsRead
<1>7. ASSUME CheckedOut PROVE TreesInv'
  BY <1>7 DEF CheckedOut
<1>8. ASSUME GitDirRead PROVE TreesInv'
  BY <1>8 DEF GitDirRead
<1>9. ASSUME LookedAt PROVE TreesInv'
  BY <1>9 DEF LookedAt
<1>10. ASSUME Added PROVE TreesInv'
  BY <1>10 DEF Added
<1>11. ASSUME Committed PROVE TreesInv'
  BY <1>11 DEF Committed
<1>12. ASSUME Branched PROVE TreesInv'
  BY <1>12 DEF Branched
<1>13. ASSUME Aborted PROVE TreesInv'
  BY <1>13 DEF Aborted
<1>14. ASSUME Reset PROVE TreesInv'
  BY <1>14 DEF Reset
<1>15. ASSUME Cleaned PROVE TreesInv'
  BY <1>15 DEF Cleaned
<1>16. ASSUME Dies PROVE TreesInv'
  BY <1>16 DEF Dies
<1>17. ASSUME NEW t \in Tree, Releases(t) PROVE TreesInv'
  BY <1>17 DEF Releases
<1>18. ASSUME NEW t \in Tree, Prepares(t) PROVE TreesInv'
  BY <1>18 DEF Prepares
<1>19. ASSUME NEW t \in Tree, PrepareFails(t) PROVE TreesInv'
  BY <1>19 DEF PrepareFails
<1>20. ASSUME NEW t \in Tree, Edits(t) PROVE TreesInv'
  BY <1>20 DEF Edits
<1>21. ASSUME NEW t \in Tree, Opens(t) PROVE TreesInv'
  BY <1>21 DEF Opens
<1>22. ASSUME NEW t \in Tree, Commits(t) PROVE TreesInv'
  BY <1>22 DEF Commits
<1>23. ASSUME NEW t \in Tree, ByHand(t) PROVE TreesInv'
  BY <1>23 DEF ByHand
<1>24. ASSUME UNCHANGED vars PROVE TreesInv'
  BY <1>24
<1> QED
  BY <1>1, <1>2, <1>3, <1>4, <1>5, <1>6, <1>7, <1>8, <1>9, <1>10, <1>11, <1>12, <1>13,
    <1>14, <1>15, <1>16, <1>17, <1>18, <1>19, <1>20, <1>21, <1>22, <1>23, <1>24 DEF Next, Commands

(* Its initial states are initial states of the pool.                      *)
LEMMA InitMaps ==
    ASSUME GitTreesAssumption, Init
    PROVE  TreesInv /\ Pool!Init
<1>1. TreesInv
  BY DEF Init, TreesInv, TreesTypes, TypeOK, Stands,
    UnlistedBare, ReadStill, SavedFirst, Work, Dirty, Free, Asked, Command, GitTreesAssumption
<1>2. Pool!Init
  BY DEF Init, Pool!Init
<1> QED BY <1>1, <1>2

(* A step that touches one tree only, of a cast or nobody's, is `Works`.   *)
LEMMA IsWorks ==
    ASSUME TreesInv, TreesInv', NEW t \in Tree,
           t \in out \/ op = None,
           \A u \in Tree \ {t} : Work(u)' = Work(u) /\ open'[u] = open[u],
           parked' \ {t} = parked \ {t}, UNCHANGED <<out, kept, op>>
    PROVE  Pool!Works(t)
<1>1. Work(t)' \in SUBSET Piece
  BY DEF TreesInv, TreesTypes, Work
<1>2. [u \in Tree |-> Work(u)'] = [[u \in Tree |-> Work(u)] EXCEPT ![t] = Work(t)']
  OBVIOUS
<1>3. {u \in Tree : open'[u] # {}} \ {t} = {u \in Tree : open[u] # {}} \ {t}
  OBVIOUS
<1> QED BY <1>1, <1>2, <1>3 DEF Pool!Works, Work

(* One that only takes from a tree, in a purify, is `Throws`.              *)
LEMMA IsThrows ==
    ASSUME TreesInv, TreesInv', NEW t \in Tree,
           t \notin out, op \in {"purify", "save"}, op = "save" => Work(t) \subseteq kept,
           \A u \in Tree \ {t} : Work(u)' = Work(u) /\ open'[u] = open[u],
           Work(t)' \subseteq Work(t), open'[t] \subseteq open[t],
           UNCHANGED <<parked, out, kept, op>>
    PROVE  Pool!Throws(t)
<1>1. [u \in Tree |-> Work(u)'] =
        [[u \in Tree |-> Work(u)] EXCEPT ![t] = Work(t) \cap Work(t)']
  OBVIOUS
<1>2. {u \in Tree : open'[u] # {}} \in
        {{u \in Tree : open[u] # {}}, {u \in Tree : open[u] # {}} \ {t}}
  OBVIOUS
<1> QED BY <1>1, <1>2 DEF Pool!Throws, Work

(* Every command is a step of the pool, or changes nothing it tells of.    *)
LEMMA StepMaps ==
    ASSUME GitTreesAssumption, TreesInv, [Next]_vars
    PROVE  [Pool!Next]_(Pool!poolVars)
<1>0. TreesInv'
  BY StepKeeps
<1> USE DEF GitTreesAssumption, Asked, Command, Moves, Idle, GivenUp
<1>1. ASSUME Aborted PROVE \E t \in Tree : Pool!Throws(t)
  <2>1. PICK t \in Tree : t = tree
    BY <1>1 DEF Aborted, Throws, TreesInv, TreesTypes, TypeOK, Stands, Free
  <2>2. /\ t \notin out /\ op \in {"purify", "save"}
        /\ op = "save" => Work(t) \subseteq kept
        /\ UNCHANGED <<parked, out, kept, op>>
    BY <1>1, <2>1 DEF Aborted, Throws, Aborts, TreesInv, TreesTypes, TypeOK, Stands,
        SavedFirst, Free, prepared, bounded
  <2>3. PICK l \in SUBSET loose[t], s \in SUBSET staged[t],
            p \in {picked[t], {}}, o \in SUBSET open[t] :
          /\ loose' = [loose EXCEPT ![t] = l] /\ staged' = [staged EXCEPT ![t] = s]
          /\ picked' = [picked EXCEPT ![t] = p] /\ open' = [open EXCEPT ![t] = o]
    <3>1. CASE \E o \in {"merge", "rebase"} : Aborts(o)
      <4>1. PICK o \in {"merge", "rebase"} : Aborts(o)
        BY <3>1
      <4>2. PICK l \in SUBSET loose[t] : loose' = [loose EXCEPT ![t] = l]
        BY <4>1, <2>1 DEF Aborts
      <4>3. PICK p \in {picked[t], {}} : picked' = [picked EXCEPT ![t] = p]
        BY <4>1, <2>1 DEF Aborts, TreesInv, TreesTypes
      <4>4. /\ staged' = [staged EXCEPT ![t] = {}]
            /\ open' = [open EXCEPT ![t] = open[t] \ {o}]
        BY <4>1, <2>1 DEF Aborts, TreesInv, TreesTypes
      <4> QED BY <4>2, <4>3, <4>4
    <3>2. CASE /\ UNCHANGED <<picked, open>>
               /\ \E l \in SUBSET loose[t] : loose' = [loose EXCEPT ![t] = l]
               /\ \E s \in SUBSET staged[t] : staged' = [staged EXCEPT ![t] = s]
      <4>1. picked' = [picked EXCEPT ![t] = picked[t]] /\ open' = [open EXCEPT ![t] = open[t]]
        BY <3>2 DEF TreesInv, TreesTypes
      <4>2. PICK l \in SUBSET loose[t] : loose' = [loose EXCEPT ![t] = l]
        BY <3>2
      <4>3. PICK s \in SUBSET staged[t] : staged' = [staged EXCEPT ![t] = s]
        BY <3>2
      <4>4. picked[t] \in {picked[t], {}} /\ open[t] \in SUBSET open[t]
        OBVIOUS
      <4> QED BY <4>1, <4>2, <4>3, <4>4
    <3>3. CASE UNCHANGED changes
      <4>1. /\ loose' = [loose EXCEPT ![t] = loose[t]]
            /\ staged' = [staged EXCEPT ![t] = staged[t]]
            /\ picked' = [picked EXCEPT ![t] = picked[t]]
            /\ open' = [open EXCEPT ![t] = open[t]]
        BY <3>3 DEF TreesInv, TreesTypes, changes
      <4> QED BY <4>1
    <3> QED BY <1>1, <2>1, <3>1, <3>2, <3>3 DEF Aborted, Throws
  <2>4. \A u \in Tree \ {t} : Work(u)' = Work(u) /\ open'[u] = open[u]
    BY <2>3 DEF TreesInv, TreesTypes, Work
  <2>5. Work(t)' \subseteq Work(t) /\ open'[t] \subseteq open[t]
    BY <2>3 DEF TreesInv, TreesTypes, Work
  <2> QED BY <2>2, <2>3, <2>4, <2>5, <1>0, IsThrows
<1>2. ASSUME Reset PROVE \E t \in Tree : Pool!Throws(t)
  <2>1. PICK t \in Tree : t = tree
    BY <1>2 DEF Reset, Throws, TreesInv, TreesTypes, TypeOK, Stands, Free
  <2>2. /\ t \notin out /\ op \in {"purify", "save"}
        /\ op = "save" => Work(t) \subseteq kept
        /\ UNCHANGED <<parked, out, kept, op>>
    BY <1>2, <2>1 DEF Reset, Throws, Aborts, TreesInv, TreesTypes, TypeOK, Stands,
        SavedFirst, Free, prepared, bounded
  <2>3. \A u \in Tree \ {t} : Work(u)' = Work(u) /\ open'[u] = open[u]
    BY <1>2, <2>1 DEF Reset, Throws, TreesInv, TreesTypes, Work
  <2>4. Work(t)' \subseteq Work(t) /\ open'[t] \subseteq open[t]
    BY <1>2, <2>1 DEF Reset, Throws, TreesInv, TreesTypes, Work
  <2> QED BY <2>2, <2>3, <2>4, <1>0, IsThrows
<1>3. ASSUME Cleaned PROVE \E t \in Tree : Pool!Throws(t)
  <2>1. PICK t \in Tree : t = tree
    BY <1>3 DEF Cleaned, Throws, TreesInv, TreesTypes, TypeOK, Stands, Free
  <2>2. /\ t \notin out /\ op \in {"purify", "save"}
        /\ op = "save" => Work(t) \subseteq kept
        /\ UNCHANGED <<parked, out, kept, op>>
    BY <1>3, <2>1 DEF Cleaned, Throws, Aborts, TreesInv, TreesTypes, TypeOK, Stands,
        SavedFirst, Free, prepared, bounded
  <2>3. \A u \in Tree \ {t} : Work(u)' = Work(u) /\ open'[u] = open[u]
    BY <1>3, <2>1 DEF Cleaned, Throws, TreesInv, TreesTypes, Work
  <2>4. Work(t)' \subseteq Work(t) /\ open'[t] \subseteq open[t]
    BY <1>3, <2>1 DEF Cleaned, Throws, TreesInv, TreesTypes, Work
  <2> QED BY <2>2, <2>3, <2>4, <1>0, IsThrows
<1>4. ASSUME Made PROVE \E t \in Tree : Pool!Hands(t)
  <2> DEFINE number == Min((1..Count) \ listed)
  <2>1. number \in Tree \ listed
    BY <1>4, MadeIsNew DEF Made, TreesInv, TreesTypes, TypeOK
  <2> HIDE DEF number
  <2>2. /\ parked' = parked \cup {number} /\ out' = out \cup {number}
        /\ op = "lease" /\ op' = None /\ UNCHANGED <<changes, kept>>
    BY <1>4 DEF Made, number, bounded
  <2>3. number \notin out /\ Work(number) = {} /\ open[number] = {}
    BY <2>1 DEF TreesInv, TreesTypes, TypeOK, UnlistedBare
  <2> QED BY <2>1, <2>2, <2>3 DEF Pool!Hands, Pool!Bare, Work, changes
<1>5. ASSUME NEW t \in Tree, Edits(t) PROVE Pool!Works(t)
  <2>1. \A u \in Tree \ {t} : Work(u)' = Work(u) /\ open'[u] = open[u]
    BY <1>5 DEF Edits, TreesInv, TreesTypes, Work
  <2>2. /\ t \in out \/ op = None
        /\ parked' \ {t} = parked \ {t} /\ UNCHANGED <<out, kept, op>>
    BY <1>5 DEF Edits, Working, doing, prepared, bounded
  <2> QED BY <2>1, <2>2, <1>0, IsWorks
<1>6. ASSUME NEW t \in Tree, Opens(t) PROVE Pool!Works(t)
  <2>1. \A u \in Tree \ {t} : Work(u)' = Work(u) /\ open'[u] = open[u]
    BY <1>6 DEF Opens, TreesInv, TreesTypes, Work
  <2>2. /\ t \in out \/ op = None
        /\ parked' \ {t} = parked \ {t} /\ UNCHANGED <<out, kept, op>>
    BY <1>6 DEF Opens, Working, doing, prepared, bounded
  <2> QED BY <2>1, <2>2, <1>0, IsWorks
<1>7. ASSUME NEW t \in Tree, Commits(t) PROVE Pool!Works(t)
  <2>1. \A u \in Tree \ {t} : Work(u)' = Work(u) /\ open'[u] = open[u]
    BY <1>7 DEF Commits, TreesInv, TreesTypes, Work
  <2>2. /\ t \in out \/ op = None
        /\ parked' \ {t} = parked \ {t} /\ UNCHANGED <<out, kept, op>>
    BY <1>7 DEF Commits, Working, doing, prepared, bounded
  <2> QED BY <2>1, <2>2, <1>0, IsWorks
<1>8. ASSUME NEW t \in Tree, ByHand(t) PROVE Pool!Works(t)
  <2>1. \A u \in Tree \ {t} : Work(u)' = Work(u) /\ open'[u] = open[u]
    BY <1>8 DEF ByHand, TreesInv, TreesTypes, Work
  <2>2. /\ t \in out \/ op = None
        /\ parked' \ {t} = parked \ {t} /\ UNCHANGED <<out, kept, op>>
    BY <1>8 DEF ByHand, Working, doing, prepared, bounded
  <2> QED BY <2>1, <2>2, <1>0, IsWorks
<1> USE DEF TreesInv, TreesTypes, TypeOK, Stands, UnlistedBare, ReadStill, SavedFirst,
    Work, Dirty, Free, vars, changes, prepared, doing, bounded, Runs, Proceeds,
    ReleaseBegins
<1>9. ASSUME Begins PROVE Pool!Asks
  BY <1>9 DEF Begins, Pool!poolVars, Pool!Asks
<1>10. ASSUME NextTree PROVE UNCHANGED Pool!poolVars
  BY <1>10 DEF NextTree, Pool!poolVars
<1>11. ASSUME Over PROVE Pool!Answers
  BY <1>11 DEF Over, Pool!poolVars, Pool!Answers
<1>12. ASSUME StatusRead PROVE Pool!Answers \/ UNCHANGED Pool!poolVars
  BY <1>12 DEF StatusRead, Pool!poolVars, Pool!Answers
<1>13. ASSUME OperationsRead PROVE Pool!Answers \/ UNCHANGED Pool!poolVars
  BY <1>13 DEF OperationsRead, Pool!poolVars, Pool!Answers
<1>14. ASSUME GitDirRead PROVE UNCHANGED Pool!poolVars
  BY <1>14 DEF GitDirRead, Pool!poolVars
<1>15. ASSUME LookedAt PROVE UNCHANGED Pool!poolVars
  BY <1>15 DEF LookedAt, Pool!poolVars
<1>16. ASSUME Added PROVE UNCHANGED Pool!poolVars
  BY <1>16 DEF Added, Pool!poolVars
<1>17. ASSUME Committed PROVE UNCHANGED Pool!poolVars
  BY <1>17 DEF Committed, Pool!poolVars
<1>18. ASSUME Dies PROVE Pool!Answers
  BY <1>18 DEF Dies, Pool!poolVars, Pool!Answers
<1>19. ASSUME Branched PROVE (\E t \in Tree : Pool!Keeps(t)) \/ UNCHANGED Pool!poolVars
  BY <1>19 DEF Branched, Pool!Keeps, Pool!poolVars
<1>20. ASSUME CheckedOut PROVE Pool!Next \/ UNCHANGED Pool!poolVars
  BY <1>20 DEF CheckedOut, Parks, Pool!Next, Pool!Answers, Pool!Parks, Pool!Hands,
      Pool!TakesBack, Pool!Bare, Pool!poolVars
<1>21. ASSUME NEW t \in Tree, Releases(t) PROVE Pool!Asks
  BY <1>21 DEF Releases, Pool!Asks
<1>22. ASSUME NEW t \in Tree, Prepares(t) PROVE UNCHANGED Pool!poolVars
  BY <1>22 DEF Prepares, Pool!poolVars
<1>23. ASSUME NEW t \in Tree, PrepareFails(t) PROVE Pool!Asks
  BY <1>23 DEF PrepareFails, Pool!Asks
<1>24. ASSUME UNCHANGED vars PROVE UNCHANGED Pool!poolVars
  BY <1>24 DEF Pool!poolVars
<1> QED
  BY <1>1, <1>2, <1>3, <1>4, <1>5, <1>6, <1>7, <1>8, <1>9, <1>10, <1>11, <1>12, <1>13,
    <1>14, <1>15, <1>16, <1>17, <1>18, <1>19, <1>20, <1>21, <1>22, <1>23, <1>24 DEF Next, Commands, Pool!Next

(* The inductive invariant holds throughout.                               *)
LEMMA TreesInvHolds == Spec => []TreesInv
<1>1. Init => TreesInv
  BY InitMaps, GitTreesAssumption
<1>2. TreesInv /\ [Next]_vars => TreesInv'
  BY StepKeeps, GitTreesAssumption
<1> QED BY <1>1, <1>2, PTL DEF Spec

(* The pool of worktrees keeps its promise: no tree is handed out or       *)
(* switched with something in it, and no work is thrown away but by a      *)
(* purify, which saves first when asked to (links/worktrees.py).           *)
THEOREM PromiseKeptCorrect == Spec => PromiseKept
<1>1. Init => Pool!Init
  BY InitMaps, GitTreesAssumption
<1>2. TreesInv /\ [Next]_vars => [Pool!Next]_(Pool!poolVars)
  BY StepMaps, GitTreesAssumption
<1> QED BY <1>1, <1>2, TreesInvHolds, PTL DEF Spec, PromiseKept, Pool!Spec
=============================================================================
