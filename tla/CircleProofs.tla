---------------------------- MODULE CircleProofs ----------------------------
(***************************************************************************)
(* Proofs about Circle and CircleRestart, for every project: any number of *)
(* casts, of slots and of trees, whatever drops, withdrawals and purifies  *)
(* happen, and, where stated, however often the daemon is stopped, killed  *)
(* and started again.                                                      *)
(***************************************************************************)
EXTENDS CircleRestart, WellFoundedInduction, FiniteSetTheorems, TLAPS

(* The types of what leasing reads and writes.                             *)
LeaseTypes ==
    /\ task \in [Cast -> Task]
    /\ needs \subseteq Cast
    /\ leased \in [Cast -> Roots]
    /\ lock \in Seq(Cast \cup {Purifier})
    /\ pool \subseteq Trees

(* A tree is leased to a cast known to need one, and is of the pool.       *)
LeasedInPool ==
    \A c \in Cast : leased[c] # Root => c \in needs /\ leased[c] \in pool

(* A cast is known to need a tree from before it asks for the lock.        *)
AskersKnown == \A c \in Cast : task[c] \in {"leasing", "asking"} => c \in needs

(* Who is asking git for a tree holds the lock, and knows of every tree    *)
(* leased by then; a purify at work holds the lock too.                    *)
AskerHoldsLock ==
    \A c \in Cast : task[c] = "asking" =>
        /\ HasLock(c)
        /\ \A d \in needs : leased[d] # Root => leased[d] \in asked

PurifierHoldsLock == purifying => HasLock(Purifier)

(* The inductive invariant.  LeasedOnce alone is not one: that the tree    *)
(* found is nobody's rests on the `held` read before the call on git being *)
(* whole when it returns, which the lock sees to.                          *)
LeaseInv ==
    /\ LeaseTypes
    /\ LeasedOnce
    /\ LeasedInPool
    /\ AskersKnown
    /\ AskerHoldsLock
    /\ PurifierHoldsLock

-----------------------------------------------------------------------------

(* A set of trees has a least.                                             *)
LEMMA LeastIn ==
    ASSUME CircleAssumption, NEW trees \in SUBSET Trees, trees # {}
    PROVE  Least(trees) \in trees
<1>1. trees \subseteq Nat
  BY DEF CircleAssumption, Trees
<1>2. PICK t \in trees : \A u \in trees : <<u, t>> \notin OpToRel(<, Nat)
  BY <1>1, NatLessThanWellFounded, WFMin
<1>3. ASSUME NEW u \in trees PROVE t <= u
  <2>1. t \in Nat /\ u \in Nat BY <1>1
  <2>2. ~(u < t) BY <2>1, <1>2 DEF OpToRel
  <2> QED BY <2>1, <2>2
<1> QED BY <1>3 DEF Least

(* While the pool is not full, the tree found is one of the pool's that    *)
(* nobody held, or one that was not in it yet.                             *)
LEMMA FoundIsFree ==
    ASSUME CircleAssumption, pool \subseteq Trees, ~Full
    PROVE  Found \in Trees /\ (Found \notin asked \/ Found \notin pool)
<1>1. CASE Free # {}
  <2>1. Free \in SUBSET Trees BY DEF Free
  <2>2. Least(Free) \in Free BY <1>1, <2>1, LeastIn
  <2> QED BY <1>1, <2>1, <2>2 DEF Found, Free
<1>2. CASE Free = {}
  <2>1. Trees \ pool \in SUBSET Trees /\ Trees \ pool # {}
    BY <1>2 DEF Full
  <2>2. Least(Trees \ pool) \in Trees \ pool BY <2>1, LeastIn
  <2> QED BY <1>2, <2>2 DEF Found
<1> QED BY <1>1, <1>2

(* Starting what can start turns tasks to "launched", and no other.        *)
LEMMA StartTasks ==
    ASSUME NEW st, NEW rec, NEW oc, NEW ln, NEW tk \in [Cast -> Task], NEW hd,
           Start(st, rec, oc, ln, tk, hd)
    PROVE  /\ task' \in [Cast -> Task]
           /\ \A c \in Cast : task'[c] \in {tk[c], "launched"}
<1>1. PICK starting \in SUBSET Cast :
        task' = [c \in Cast |-> IF c \in starting THEN "launched" ELSE tk[c]]
  BY DEF Start, Launched, Queued, InLine
<1> QED BY <1>1 DEF Task

(* A step that leaves the leases, the lock and the pool alone, and sends   *)
(* no task asking for a tree, preserves the invariant.                     *)
LEMMA QuietStep ==
    ASSUME LeaseInv, UNCHANGED <<leaseVars, pool>>, task' \in [Cast -> Task],
           \A c \in Cast : task'[c] \in {"leasing", "asking"} => task'[c] = task[c]
    PROVE  LeaseInv'
<1>1. UNCHANGED <<needs, leased, lock, asked, purifying, pool>>
  BY DEF leaseVars
<1>2. LeaseTypes' BY <1>1 DEF LeaseInv, LeaseTypes
<1>3. LeasedOnce' /\ LeasedInPool' BY <1>1 DEF LeaseInv, LeasedOnce, LeasedInPool
<1>4. AskersKnown' BY <1>1 DEF LeaseInv, AskersKnown
<1>5. AskerHoldsLock' BY <1>1 DEF LeaseInv, AskerHoldsLock, HasLock
<1>6. PurifierHoldsLock' BY <1>1 DEF LeaseInv, PurifierHoldsLock, HasLock
<1> QED BY <1>2, <1>3, <1>4, <1>5, <1>6 DEF LeaseInv

(* So does one that only starts what can start.                            *)
LEMMA QuietStart ==
    ASSUME LeaseInv, UNCHANGED <<leaseVars, pool>>,
           NEW st, NEW rec, NEW oc, NEW ln, NEW hd,
           Start(st, rec, oc, ln, task, hd)
    PROVE  LeaseInv'
<1>1. task \in [Cast -> Task] BY DEF LeaseInv, LeaseTypes
<1>2. task' \in [Cast -> Task] /\ \A c \in Cast : task'[c] \in {task[c], "launched"}
  BY <1>1, StartTasks
<1> QED BY <1>2, QuietStep

(* One more in the lock's line leaves its holder where it was.             *)
LEMMA HolderStays ==
    ASSUME NEW S, NEW ln \in Seq(S), NEW x \in S
    PROVE  /\ Append(ln, x) \in Seq(S) /\ Append(ln, x) # <<>>
           /\ ln # <<>> => Append(ln, x)[1] = ln[1]
  OBVIOUS

(* A step that queues for the lock, in the name of a cast that may by it   *)
(* become known to need a tree, preserves the invariant.                   *)
LEMMA QueueStep ==
    ASSUME LeaseInv, UNCHANGED <<leased, asked, purifying, pool>>,
           NEW x \in Cast \cup {Purifier}, lock' = Append(lock, x),
           needs \subseteq needs', needs' \subseteq Cast, task' \in [Cast -> Task],
           \A c \in Cast : task'[c] = "asking" => task[c] = "asking",
           \A c \in Cast : task'[c] = "leasing" => task[c] = "leasing" \/ c \in needs'
    PROVE  LeaseInv'
<1> USE DEF LeaseInv, LeaseTypes
<1>1. lock' \in Seq(Cast \cup {Purifier}) /\ lock' # <<>>
      /\ (lock # <<>> => lock'[1] = lock[1])
  BY HolderStays
<1>2. LeaseTypes' BY <1>1
<1>3. LeasedOnce' BY DEF LeasedOnce, LeasedInPool
<1>4. LeasedInPool' BY DEF LeasedInPool
<1>5. AskersKnown' BY DEF AskersKnown
<1>6. AskerHoldsLock' BY <1>1 DEF AskerHoldsLock, LeasedInPool, HasLock
<1>7. PurifierHoldsLock' BY <1>1 DEF PurifierHoldsLock, HasLock
<1> QED BY <1>2, <1>3, <1>4, <1>5, <1>6, <1>7

(* Only one cast asks at a time, and none while a purify is at work.       *)
LEMMA OneAsks ==
    ASSUME CircleAssumption, LeaseInv, NEW c \in Cast, task[c] = "asking"
    PROVE  /\ \A d \in Cast : task[d] = "asking" => d = c
           /\ ~purifying
           /\ lock # <<>>
  BY DEF CircleAssumption, LeaseInv, AskerHoldsLock, PurifierHoldsLock, HasLock

-----------------------------------------------------------------------------

LEMMA LeaseInvInit == ASSUME CircleAssumption, Init PROVE LeaseInv
  BY DEF CircleAssumption, Init, LeaseInv, LeaseTypes, LeasedOnce, LeasedInPool,
         AskersKnown, AskerHoldsLock, PurifierHoldsLock, Task, Roots

(* What a cast's process does touches no lease.                            *)
LEMMA CastStepKeeps ==
    ASSUME LeaseInv, NEW c \in Cast, CastStep(c)
    PROVE  LeaseInv'
<1>0. task \in [Cast -> Task] BY DEF LeaseInv, LeaseTypes
<1>1. CASE Typed(c)
  BY <1>1, <1>0, QuietStep DEF Typed, queueVars
<1>2. CASE SaysHello(c)
  BY <1>2, <1>0, QuietStep DEF SaysHello, queueVars
<1>3. CASE AsksForTree(c)
  BY <1>3, <1>0, QuietStep DEF AsksForTree, queueVars, gitVars
<1>4. CASE Exits(c)
  BY <1>4, <1>0, QuietStep DEF Exits, queueVars, gitVars
<1>5. ASSUME NEW child \in Cast, AwaitsChild(c, child) PROVE LeaseInv'
  BY <1>5, QuietStart DEF AwaitsChild, gitVars
<1>6. ASSUME NEW child \in Cast, Withdraws(c, child) PROVE LeaseInv'
  <2>1. CASE UNCHANGED queueVars
    BY <2>1, <1>6, <1>0, QuietStep DEF Withdraws, queueVars, gitVars
  <2>2. CASE ~UNCHANGED queueVars
    BY <2>2, <1>6, QuietStart DEF Withdraws, gitVars
  <2> QED BY <2>1, <2>2
<1>7. ASSUME NEW child \in Cast, Hears(c, child) PROVE LeaseInv'
  BY <1>7, <1>0, QuietStep DEF Hears, queueVars, gitVars
<1>8. CASE Ends(c)
  BY <1>8, QuietStart DEF Ends, Goodbye
<1>9. CASE Drops(c)
  BY <1>9, <1>0, QuietStep DEF Drops, queueVars, gitVars
<1>10. CASE Reattaches(c)
  <2>1. CASE UNCHANGED queueVars
    BY <2>1, <1>10, <1>0, QuietStep DEF Reattaches, queueVars, gitVars
  <2>2. CASE ~UNCHANGED queueVars
    BY <2>2, <1>10, QuietStart DEF Reattaches, gitVars
  <2> QED BY <2>1, <2>2
<1>11. CASE Noticed(c)
  BY <1>11, QuietStart DEF Noticed, Goodbye, gitVars
<1> QED BY <1>1, <1>2, <1>3, <1>4, <1>5, <1>6, <1>7, <1>8, <1>9, <1>10, <1>11
        DEF CastStep

(* The tree a lease finds is nobody's: the pool's trees that were held are *)
(* in `asked`, and the others were never leased.                           *)
LEMMA LeasesKeeps ==
    ASSUME CircleAssumption, LeaseInv, NEW c \in Cast, Leases(c)
    PROVE  LeaseInv'
<1> USE DEF LeaseInv
<1>1. /\ task[c] = "asking"
      /\ ~Full
      /\ leased' = [leased EXCEPT ![c] = Found]
      /\ pool' = pool \cup {Found}
      /\ lock' = Tail(lock)
      /\ task' = [task EXCEPT ![c] = "preparing"]
      /\ needs' = needs /\ purifying' = purifying
  BY DEF Leases
<1>2. c \in needs /\ ~purifying /\ lock # <<>>
      /\ \A d \in Cast : task[d] = "asking" => d = c
  BY <1>1, OneAsks DEF AskersKnown
<1>3. Found \in Trees /\ (Found \notin asked \/ Found \notin pool)
  BY <1>1, FoundIsFree DEF LeaseTypes
<1>4. Found # Root
  BY <1>3 DEF Trees, Root, CircleAssumption
<1>5. \A d \in needs : leased[d] # Found
  BY <1>1, <1>3, <1>4 DEF AskerHoldsLock, LeasedInPool, LeaseTypes
<1>6. LeaseTypes'
  <2>1. Tail(lock) \in Seq(Cast \cup {Purifier}) BY <1>2 DEF LeaseTypes
  <2> QED BY <1>1, <1>3, <2>1 DEF LeaseTypes, Task, Roots
<1>7. LeasedOnce'
  BY <1>1, <1>5 DEF LeasedOnce, LeaseTypes
<1>8. LeasedInPool'
  BY <1>1, <1>2 DEF LeasedInPool, LeaseTypes
<1>9. AskersKnown' /\ AskerHoldsLock' /\ PurifierHoldsLock'
  BY <1>1, <1>2 DEF AskersKnown, AskerHoldsLock, PurifierHoldsLock, LeaseTypes
<1> QED BY <1>6, <1>7, <1>8, <1>9

(* The asker stops asking, with no tree.                                   *)
LEMMA AskerLeaves ==
    ASSUME CircleAssumption, LeaseInv, NEW c \in Cast, task[c] = "asking",
           UNCHANGED <<needs, leased, purifying, pool>>,
           lock' \in Seq(Cast \cup {Purifier}),
           NEW next \in Task \ {"leasing", "asking"},
           task' = [task EXCEPT ![c] = next]
    PROVE  LeaseInv'
<1> USE DEF LeaseInv
<1>1. ~purifying /\ \A d \in Cast : task[d] = "asking" => d = c
  BY OneAsks
<1>2. LeaseTypes'
  BY DEF LeaseTypes
<1>3. LeasedOnce' /\ LeasedInPool'
  BY DEF LeasedOnce, LeasedInPool
<1>4. AskersKnown' /\ AskerHoldsLock' /\ PurifierHoldsLock'
  BY <1>1 DEF AskersKnown, AskerHoldsLock, PurifierHoldsLock, LeaseTypes
<1> QED BY <1>2, <1>3, <1>4

(* A release lets go of the lock, the tree and the cast's entry at once.   *)
LEMMA ReleasesKeeps ==
    ASSUME CircleAssumption, LeaseInv, NEW c \in Cast, Releases(c)
    PROVE  LeaseInv'
<1> USE DEF LeaseInv
<1>1. /\ task[c] \in {"releasing", "failing"}
      /\ HasLock(c)
      /\ lock' = Tail(lock)
      /\ needs' = needs \ {c}
      /\ leased' = [leased EXCEPT ![c] = Root]
      /\ UNCHANGED <<asked, purifying, pool>>
  BY DEF Releases
<1>2. task' \in [Cast -> Task]
      /\ \A d \in Cast : task'[d] \in {task[d], "launched", "none"}
      /\ task'[c] \in {"none", "launched"}
  <2> DEFINE tk == [task EXCEPT ![c] = "none"]
  <2>1. tk \in [Cast -> Task] BY DEF LeaseTypes, Task
  <2>2. \E st, rec, oc : Start(st, rec, oc, line, tk, heard)
    BY DEF Releases, Finish
  <2> HIDE DEF tk
  <2>3. task' \in [Cast -> Task] /\ \A d \in Cast : task'[d] \in {tk[d], "launched"}
    BY <2>1, <2>2, StartTasks
  <2> QED BY <2>3 DEF tk, LeaseTypes
<1>3. \A d \in Cast : task[d] # "asking"
  BY <1>1 DEF AskerHoldsLock, HasLock
<1>4. LeaseTypes'
  <2>1. Tail(lock) \in Seq(Cast \cup {Purifier}) BY <1>1 DEF LeaseTypes, HasLock
  <2> QED BY <1>1, <1>2, <2>1 DEF LeaseTypes, Roots
<1>5. LeasedOnce' /\ LeasedInPool'
  BY <1>1 DEF LeasedOnce, LeasedInPool, LeaseTypes
<1>6. AskersKnown' /\ AskerHoldsLock' /\ PurifierHoldsLock'
  BY <1>1, <1>2, <1>3
     DEF AskersKnown, AskerHoldsLock, PurifierHoldsLock, HasLock, CircleAssumption
<1> QED BY <1>4, <1>5, <1>6

(* The daemon's tasks, each handler of theirs in turn.                     *)
LEMMA TaskStepKeeps ==
    ASSUME CircleAssumption, LeaseInv, NEW c \in Cast, TaskStep(c)
    PROVE  LeaseInv'
<1>0. LeaseTypes BY DEF LeaseInv
<1>1. CASE Begins(c)
  <2>1. CASE c \in needs \cup Says
    <3>1. needs' = needs \cup {c} /\ lock' = Append(lock, c)
          /\ task' = [task EXCEPT ![c] = "leasing"]
          /\ UNCHANGED <<leased, asked, purifying, pool>>
      BY <2>1, <1>1 DEF Begins, gitVars
    <3> QED BY <3>1, <1>0, QueueStep DEF LeaseTypes, Task
  <2>2. CASE c \notin needs \cup Says
    <3>1. task' = [task EXCEPT ![c] = "probing"] /\ UNCHANGED <<leaseVars, pool>>
      BY <2>2, <1>1 DEF Begins, gitVars, leaseVars
    <3> QED BY <3>1, <1>0, QuietStep DEF LeaseTypes, Task
  <2> QED BY <2>1, <2>2
<1>2. CASE Probed(c)
  <2>1. CASE proc[c] = "wantsTree"
    <3>1. needs' = needs \cup {c} /\ lock' = Append(lock, c)
          /\ task' = [task EXCEPT ![c] = "leasing"]
          /\ UNCHANGED <<leased, asked, purifying, pool>>
      BY <2>1, <1>2 DEF Probed, gitVars
    <3> QED BY <3>1, <1>0, QueueStep DEF LeaseTypes, Task
  <2>2. CASE proc[c] # "wantsTree"
    <3>1. Finish(c, blocked) /\ UNCHANGED <<leaseVars, pool>>
      BY <2>2, <1>2 DEF Probed, gitVars, leaseVars
    <3> DEFINE tk == [task EXCEPT ![c] = "none"]
    <3>2. tk \in [Cast -> Task] BY <1>0 DEF LeaseTypes, Task
    <3>3. \E st, rec, oc : Start(st, rec, oc, line, tk, heard)
      BY <3>1 DEF Finish
    <3> HIDE DEF tk
    <3>4. task' \in [Cast -> Task] /\ \A d \in Cast : task'[d] \in {tk[d], "launched"}
      BY <3>2, <3>3, StartTasks
    <3> QED BY <3>1, <3>4, <1>0, QuietStep DEF tk, LeaseTypes
  <2> QED BY <2>1, <2>2
<1>3. CASE LeaseBegins(c)
  <2>1. /\ task[c] = "leasing"
        /\ HasLock(c)
        /\ asked' = Held
        /\ task' = [task EXCEPT ![c] = "asking"]
        /\ UNCHANGED <<needs, leased, lock, purifying, pool>>
    BY <1>3 DEF LeaseBegins, gitVars
  <2>2. \A d \in needs : leased[d] # Root => leased[d] \in Held
    BY DEF Held
  <2>3. \A d \in Cast : task'[d] = "asking" => d = c
    BY <2>1, <1>0 DEF LeaseInv, AskerHoldsLock, HasLock, LeaseTypes
  <2>4. LeaseTypes' /\ LeasedOnce' /\ LeasedInPool'
    BY <2>1 DEF LeaseInv, LeaseTypes, LeasedOnce, LeasedInPool, Task
  <2>5. AskersKnown'
    BY <2>1, <1>0 DEF LeaseInv, AskersKnown, LeaseTypes
  <2>6. AskerHoldsLock'
    BY <2>1, <2>2, <2>3 DEF AskerHoldsLock, HasLock
  <2>7. PurifierHoldsLock'
    BY <2>1 DEF LeaseInv, PurifierHoldsLock, HasLock
  <2> QED BY <2>4, <2>5, <2>6, <2>7 DEF LeaseInv
<1>4. CASE Leases(c)
  BY <1>4, LeasesKeeps
<1>5. CASE WaitsForTree(c)
  <2>1. lock # <<>> BY <1>5, OneAsks DEF WaitsForTree
  <2>2. Tail(lock) \in Seq(Cast \cup {Purifier}) BY <2>1, <1>0 DEF LeaseTypes
  <2> QED BY <1>5, <2>2, AskerLeaves DEF WaitsForTree, gitVars, Task
<1>6. CASE LeaseFails(c)
  <2>1. lock # <<>> BY <1>6, OneAsks DEF LeaseFails
  <2>2. Tail(lock) \in Seq(Cast \cup {Purifier}) BY <2>1, <1>0 DEF LeaseTypes
  <2>3. Append(Tail(lock), c) \in Seq(Cast \cup {Purifier}) BY <2>2, HolderStays
  <2> QED BY <1>6, <2>3, AskerLeaves DEF LeaseFails, gitVars, Task
<1>7. CASE Prepared(c)
  BY <1>7, <1>0, QuietStep DEF Prepared, gitVars, LeaseTypes, Task
<1>8. CASE PrepareFails(c)
  BY <1>8, <1>0, QueueStep DEF PrepareFails, LeaseTypes, Task
<1>9. CASE Ran(c)
  BY <1>9, <1>0, QueueStep DEF Ran, gitVars, LeaseTypes, Task
<1>10. CASE Releases(c)
  BY <1>10, ReleasesKeeps
<1>11. CASE Marks(c)
  <2>1. UNCHANGED <<leaseVars, pool>> /\ task' = task
    BY <1>11 DEF Marks, queueVars, gitVars
  <2> QED BY <2>1, <1>0, QuietStep DEF LeaseTypes
<1> QED BY <1>1, <1>2, <1>3, <1>4, <1>5, <1>6, <1>7, <1>8, <1>9, <1>10, <1>11
        DEF TaskStep

LEMMA LeaseInvStep ==
    ASSUME CircleAssumption, LeaseInv, [Next]_vars
    PROVE  LeaseInv'
<1>0. LeaseTypes BY DEF LeaseInv
<1>1. ASSUME NEW c \in Cast, Enqueue(c) PROVE LeaseInv'
  BY <1>1, QuietStart DEF Enqueue, gitVars
<1>2. ASSUME NEW c \in Cast, TaskStep(c) PROVE LeaseInv'
  BY <1>2, TaskStepKeeps
<1>3. ASSUME NEW c \in Cast, CastStep(c) PROVE LeaseInv'
  BY <1>3, CastStepKeeps
<1>4. CASE Purify
  BY <1>4, <1>0, QueueStep DEF Purify, gitVars, queueVars, LeaseTypes
<1>5. CASE PurifyBegins
  <2>1. /\ HasLock(Purifier)
        /\ purifying' = TRUE
        /\ UNCHANGED <<task, needs, leased, lock, pool>>
    BY <1>5 DEF PurifyBegins, queueVars, gitVars
  <2>2. \A c \in Cast : task[c] # "asking"
    BY <2>1 DEF LeaseInv, AskerHoldsLock, HasLock, CircleAssumption
  <2> QED BY <2>1, <2>2 DEF LeaseInv, LeaseTypes, LeasedOnce, LeasedInPool,
             AskersKnown, AskerHoldsLock, PurifierHoldsLock, HasLock
<1>6. CASE Purified
  <2>1. /\ purifying
        /\ purifying' = FALSE
        /\ lock' = Tail(lock)
        /\ UNCHANGED <<task, needs, leased, pool>>
    BY <1>6 DEF Purified, queueVars
  <2>2. HasLock(Purifier) /\ \A c \in Cast : task[c] # "asking"
    BY <2>1 DEF LeaseInv, AskerHoldsLock, PurifierHoldsLock, HasLock, CircleAssumption
  <2>3. Tail(lock) \in Seq(Cast \cup {Purifier})
    BY <2>2, <1>0 DEF HasLock, LeaseTypes
  <2> QED BY <2>1, <2>2, <2>3 DEF LeaseInv, LeaseTypes, LeasedOnce, LeasedInPool,
             AskersKnown, AskerHoldsLock, PurifierHoldsLock
<1>7. CASE CleanedByHand
  BY <1>7, <1>0, QuietStep DEF CleanedByHand, queueVars, LeaseTypes
<1>8. CASE UNCHANGED vars
  BY <1>8, <1>0, QuietStep DEF vars, queueVars, gitVars, LeaseTypes
<1> QED BY <1>1, <1>2, <1>3, <1>4, <1>5, <1>6, <1>7, <1>8 DEF Next

(* No two casts are ever leased the same tree: of every number of casts,   *)
(* slots and trees, whatever is lost, purified, blocked or given up.       *)
THEOREM LeasedOnceCorrect == Spec => []LeasedOnce
<1>1. Init => LeaseInv BY LeaseInvInit, CircleAssumption
<1>2. LeaseInv /\ [Next]_vars => LeaseInv' BY LeaseInvStep, CircleAssumption
<1>3. LeaseInv => LeasedOnce BY DEF LeaseInv
<1> QED BY <1>1, <1>2, <1>3, PTL DEF Spec

-----------------------------------------------------------------------------
(* From the leases to the processes.                                       *)

ProcTypes ==
    /\ proc \in [Cast -> Proc]
    /\ cwd \in [Cast -> Roots]
    /\ record \in [Cast -> Status]
    /\ task \in [Cast -> Task]
    /\ DOMAIN line = Cast
    /\ leased \in [Cast -> Roots]
    /\ needs \subseteq Cast

(* A cast in the queue has no task, and only queued casts have either.     *)
InLineIdle ==
    \A c \in Cast : line[c] # 0 =>
        task[c] = "none" /\ c \notin Hand /\ record[c] # "unheard"

TaskOfQueued ==
    \A c \in Cast : task[c] # "none" => c \notin Hand /\ record[c] # "unheard"

(* From asking for a lease to its release, a cast has its entry.           *)
LeasingKnown ==
    \A c \in Cast :
        task[c] \in {"leasing", "asking", "preparing", "spawned"} => c \in needs

(* A process the daemon spawned is alive only while its task waits on it:  *)
(* where it was asked from, or in the tree the task holds.                 *)
SpawnedByTask ==
    \A c \in Cast \ Hand : proc[c] \in Live =>
        \/ task[c] = "probing" /\ cwd[c] = Root
        \/ task[c] = "spawned" /\ cwd[c] = leased[c]

HandAtRoot == \A c \in Hand : cwd[c] = Root

ProcInv ==
    /\ ProcTypes
    /\ InLineIdle
    /\ TaskOfQueued
    /\ LeasingKnown
    /\ SpawnedByTask
    /\ HandAtRoot

(* From this queue and these tasks, what has moved was in the queue, and   *)
(* has left it to be launched.                                             *)
Started(ln, tk) ==
    /\ DOMAIN line' = Cast
    /\ task' \in [Cast -> Task]
    /\ \A c \in Cast : task'[c] # tk[c] =>
           task'[c] = "launched" /\ ln[c] # 0 /\ line'[c] = 0
    /\ \A c \in Cast : line'[c] # 0 => ln[c] # 0 /\ task'[c] = tk[c]

(* What starting what can start does to the queue and the tasks.           *)
LEMMA StartLine ==
    ASSUME NEW st, NEW rec, NEW oc, NEW ln, NEW tk \in [Cast -> Task], NEW hd,
           Start(st, rec, oc, ln, tk, hd)
    PROVE  Started(ln, tk)
<1>1. PICK starting \in SUBSET {c \in Cast : ln[c] > 0}, gone \in SUBSET Cast :
        /\ starting \subseteq gone
        /\ line' = Without(ln, gone)
        /\ task' = [c \in Cast |-> IF c \in starting THEN "launched" ELSE tk[c]]
  <2>1. PICK replies :
          LET answered == Replied(oc, replies)
              free == Processes - Busy(st, answered, tk)
              starting == Launched(st, ln, free)
              gone == starting \cup (InLine(ln) \ Queued(st, ln))
          IN /\ line' = Without(ln, gone)
             /\ task' = [c \in Cast |->
                            IF c \in starting THEN "launched" ELSE tk[c]]
    BY DEF Start
  <2> DEFINE starting == Launched(st, ln, Processes - Busy(st, Replied(oc, replies), tk))
             gone == starting \cup (InLine(ln) \ Queued(st, ln))
  <2>2. starting \in SUBSET {c \in Cast : ln[c] > 0} /\ gone \in SUBSET Cast
    BY DEF Launched, Queued, InLine
  <2>3. line' = Without(ln, gone)
        /\ task' = [c \in Cast |-> IF c \in starting THEN "launched" ELSE tk[c]]
    BY <2>1
  <2>4. starting \subseteq gone OBVIOUS
  <2> HIDE DEF starting, gone
  <2> QED BY <2>2, <2>3, <2>4
<1>2. DOMAIN line' = Cast /\ \A c \in Cast : line'[c] # 0 => c \notin gone /\ ln[c] # 0
  BY <1>1 DEF Without
<1>3. \A c \in starting : ln[c] # 0
  OBVIOUS
<1> QED BY <1>1, <1>2, <1>3 DEF Started, Task

LEMMA ProcInvInit == ASSUME CircleAssumption, Init PROVE ProcInv
  BY DEF CircleAssumption, Init, ProcInv, ProcTypes, InLineIdle, TaskOfQueued,
         LeasingKnown, SpawnedByTask, HandAtRoot, Roots, Proc, Status, Task, Live

LEMMA NoneStarted ==
    ASSUME ProcTypes, UNCHANGED <<line, task>>
    PROVE  Started(line, task)
  BY DEF ProcTypes, Started

(* What a cast does to its own process, and the daemon to the queue when   *)
(* it hears of it: no task but those in the queue moves, and no process    *)
(* begins.                                                                 *)
LEMMA ProcQuiet ==
    ASSUME CircleAssumption, ProcInv, ProcTypes', UNCHANGED <<needs, leased>>,
           Started(line, task),
           \A c \in Cast : record'[c] = "unheard" => record[c] = "unheard",
           \A c \in Cast \ Hand : proc'[c] \in Live =>
               proc[c] \in Live /\ cwd'[c] = cwd[c],
           \A c \in Hand : cwd'[c] = Root
    PROVE  ProcInv'
<1> USE DEF ProcInv, Started
<1>1. InLineIdle' BY DEF InLineIdle
<1>2. TaskOfQueued' BY DEF TaskOfQueued, InLineIdle
<1>3. LeasingKnown' BY DEF LeasingKnown
<1>4. SpawnedByTask' BY DEF SpawnedByTask, InLineIdle
<1>5. HandAtRoot' BY DEF HandAtRoot
<1> QED BY <1>1, <1>2, <1>3, <1>4, <1>5

(* The same when all it does to them is to start what can start.           *)
LEMMA ProcQuietStart ==
    ASSUME CircleAssumption, ProcInv, UNCHANGED <<needs, leased>>,
           NEW st, NEW rec, NEW oc, NEW hd, Start(st, rec, oc, line, task, hd),
           proc' \in [Cast -> Proc], cwd' = cwd, record' \in [Cast -> Status],
           \A c \in Cast : record'[c] = "unheard" => record[c] = "unheard",
           \A c \in Cast \ Hand : proc'[c] \in Live => proc[c] \in Live
    PROVE  ProcInv'
<1>1. task \in [Cast -> Task] BY DEF ProcInv, ProcTypes
<1>2. Started(line, task) BY <1>1, StartLine
<1>3. ProcTypes' BY <1>2 DEF ProcInv, ProcTypes, Started
<1>4. \A c \in Hand : cwd'[c] = Root BY DEF ProcInv, HandAtRoot
<1> QED BY <1>2, <1>3, <1>4, ProcQuiet

LEMMA CastStepProc ==
    ASSUME CircleAssumption, HandRoots = {Root}, ProcInv, NEW c \in Cast, CastStep(c)
    PROVE  ProcInv'
<1> USE DEF Live, Proc, Status
<1>0. ProcTypes /\ \A h \in Hand : cwd[h] = Root
  BY DEF ProcInv, HandAtRoot
<1>1. CASE Typed(c)
  <2>1. /\ c \in Hand
        /\ cwd' = [cwd EXCEPT ![c] = Root]
        /\ proc' = [proc EXCEPT ![c] = "attached"]
        /\ record' = [record EXCEPT ![c] = "running"]
        /\ UNCHANGED <<needs, leased, line, task>>
    BY <1>1 DEF Typed, queueVars, leaseVars
  <2>2. ProcTypes' BY <2>1, <1>0 DEF ProcTypes, Roots
  <2> QED BY <2>1, <2>2, <1>0, NoneStarted, ProcQuiet DEF ProcTypes, CircleAssumption
<1>2. CASE SaysHello(c)
  <2>1. /\ proc[c] = "silent"
        /\ proc' \in {[proc EXCEPT ![c] = "attached"], [proc EXCEPT ![c] = "detached"]}
        /\ record' \in {record, [record EXCEPT ![c] = "running"]}
        /\ UNCHANGED <<cwd, needs, leased, line, task>>
    BY <1>2 DEF SaysHello, queueVars, leaseVars, viewVars
  <2>2. ProcTypes' BY <2>1, <1>0 DEF ProcTypes
  <2> QED BY <2>1, <2>2, <1>0, NoneStarted, ProcQuiet DEF ProcTypes
<1>3. CASE AsksForTree(c)
  <2>1. /\ proc' = [proc EXCEPT ![c] = "wantsTree"]
        /\ UNCHANGED <<cwd, record, needs, leased, line, task>>
    BY <1>3 DEF AsksForTree, queueVars, leaseVars, viewVars
  <2>2. ProcTypes' BY <2>1, <1>0 DEF ProcTypes
  <2> QED BY <2>1, <2>2, <1>0, NoneStarted, ProcQuiet DEF ProcTypes
<1>4. CASE Exits(c)
  <2>1. /\ proc' = [proc EXCEPT ![c] = "exited"]
        /\ UNCHANGED <<cwd, record, needs, leased, line, task>>
    BY <1>4 DEF Exits, queueVars, leaseVars, viewVars
  <2>2. ProcTypes' BY <2>1, <1>0 DEF ProcTypes
  <2> QED BY <2>1, <2>2, <1>0, NoneStarted, ProcQuiet DEF ProcTypes
<1>5. ASSUME NEW child \in Cast, AwaitsChild(c, child) PROVE ProcInv'
  BY <1>5, <1>0, ProcQuietStart DEF AwaitsChild, leaseVars, ProcTypes
<1>6. ASSUME NEW child \in Cast, Withdraws(c, child) PROVE ProcInv'
  <2>1. UNCHANGED <<proc, cwd, record, needs, leased>>
    BY <1>6 DEF Withdraws, leaseVars
  <2>2. CASE UNCHANGED queueVars
    BY <2>1, <2>2, <1>0, NoneStarted, ProcQuiet DEF queueVars, ProcTypes
  <2>3. CASE ~UNCHANGED queueVars
    BY <2>1, <2>3, <1>6, <1>0, ProcQuietStart DEF Withdraws, ProcTypes
  <2> QED BY <2>2, <2>3
<1>7. ASSUME NEW child \in Cast, Hears(c, child) PROVE ProcInv'
  BY <1>7, <1>0, NoneStarted, ProcQuiet DEF Hears, queueVars, leaseVars, viewVars, ProcTypes
<1>8. CASE Ends(c)
  <2>1. /\ proc[c] = "attached"
        /\ proc' = [proc EXCEPT ![c] = "leaving"]
        /\ record' = [record EXCEPT ![c] = "ended"]
        /\ UNCHANGED <<cwd, needs, leased>>
    BY <1>8 DEF Ends, Goodbye, leaseVars
  <2>2. \E st, rec, oc, hd : Start(st, rec, oc, line, task, hd)
    BY <1>8 DEF Ends, Goodbye
  <2> QED BY <2>1, <2>2, <1>0, ProcQuietStart DEF ProcTypes
<1>9. CASE Drops(c)
  <2>1. /\ proc[c] = "attached"
        /\ proc' = [proc EXCEPT ![c] = "detached"]
        /\ UNCHANGED <<cwd, record, needs, leased, line, task>>
    BY <1>9 DEF Drops, queueVars, leaseVars, viewVars
  <2>2. ProcTypes' BY <2>1, <1>0 DEF ProcTypes
  <2> QED BY <2>1, <2>2, <1>0, NoneStarted, ProcQuiet DEF ProcTypes
<1>10. CASE Reattaches(c)
  <2>1. /\ proc[c] = "detached"
        /\ proc' = [proc EXCEPT ![c] = "attached"]
        /\ record' = [record EXCEPT ![c] = "running"]
        /\ UNCHANGED <<cwd, needs, leased>>
    BY <1>10 DEF Reattaches, leaseVars
  <2>2. CASE UNCHANGED queueVars
    BY <2>1, <2>2, <1>0, NoneStarted, ProcQuiet DEF queueVars, ProcTypes
  <2>3. CASE ~UNCHANGED queueVars
    <3>1. \E st, rec, oc, hd : Start(st, rec, oc, line, task, hd)
      BY <2>3, <1>10 DEF Reattaches
    <3> QED BY <2>1, <3>1, <1>0, ProcQuietStart DEF ProcTypes
  <2> QED BY <2>2, <2>3
<1>11. CASE Noticed(c)
  <2>1. /\ record' = [record EXCEPT ![c] = "disconnected"]
        /\ UNCHANGED <<proc, cwd, needs, leased>>
    BY <1>11 DEF Noticed, Goodbye, leaseVars
  <2>2. \E st, rec, oc, hd : Start(st, rec, oc, line, task, hd)
    BY <1>11 DEF Noticed, Goodbye
  <2> QED BY <2>1, <2>2, <1>0, ProcQuietStart DEF ProcTypes
<1> QED BY <1>1, <1>2, <1>3, <1>4, <1>5, <1>6, <1>7, <1>8, <1>9, <1>10, <1>11
        DEF CastStep

(* A task that moves on, alone of its kind, with its own process only.     *)
LEMMA ProcMove ==
    ASSUME CircleAssumption, ProcInv, ProcTypes', NEW c \in Cast, task[c] # "none",
           NEW next, Started(line, [task EXCEPT ![c] = next]),
           \A d \in Cast : record'[d] = "unheard" => record[d] = "unheard",
           \A d \in Cast \ {c} : /\ d \in needs => d \in needs'
                                 /\ leased'[d] = leased[d]
                                 /\ proc'[d] = proc[d]
                                 /\ cwd'[d] = cwd[d],
           next \in {"leasing", "asking", "preparing", "spawned"} => c \in needs',
           proc'[c] \in Live => \/ next = "probing" /\ cwd'[c] = Root
                                \/ next = "spawned" /\ cwd'[c] = leased'[c]
    PROVE  ProcInv'
<1> USE DEF ProcInv
<1>1. c \notin Hand /\ record[c] # "unheard" /\ line[c] = 0
  BY DEF TaskOfQueued, InLineIdle
<1>2. /\ task'[c] = next
      /\ line'[c] = 0
      /\ \A d \in Cast \ {c} : task'[d] # task[d] =>
             task'[d] = "launched" /\ line[d] # 0 /\ line'[d] = 0
      /\ \A d \in Cast \ {c} : line'[d] # 0 => line[d] # 0 /\ task'[d] = task[d]
  BY <1>1 DEF Started, ProcTypes
<1>3. InLineIdle' BY <1>2 DEF InLineIdle
<1>4. TaskOfQueued' BY <1>1, <1>2 DEF TaskOfQueued, InLineIdle
<1>5. LeasingKnown' BY <1>2 DEF LeasingKnown
<1>6. SpawnedByTask'
  <2>1. ASSUME NEW d \in Cast \ Hand, d # c, proc'[d] \in Live
        PROVE  \/ task'[d] = "probing" /\ cwd'[d] = Root
               \/ task'[d] = "spawned" /\ cwd'[d] = leased'[d]
    BY <2>1, <1>2 DEF SpawnedByTask, InLineIdle
  <2> QED BY <2>1, <1>2 DEF SpawnedByTask
<1>7. HandAtRoot' BY <1>1 DEF HandAtRoot, CircleAssumption
<1> QED BY <1>3, <1>4, <1>5, <1>6, <1>7

(* Moving a task on and starting nothing.                                  *)
LEMMA OneMoved ==
    ASSUME ProcTypes, NEW c \in Cast, NEW next \in Task, line' = line,
           task' = [task EXCEPT ![c] = next]
    PROVE  Started(line, [task EXCEPT ![c] = next])
  BY DEF ProcTypes, Started

(* The end of a task: its entry is gone and so is its process.             *)
LEMMA FinishProc ==
    ASSUME CircleAssumption, ProcInv, NEW c \in Cast, NEW bl, Finish(c, bl),
           task[c] # "none", proc' \in [Cast -> Proc], proc'[c] \notin Live,
           \A d \in Cast \ {c} : proc'[d] = proc[d],
           cwd' = cwd, leased' \in [Cast -> Roots], needs' \subseteq Cast,
           \A d \in Cast \ {c} : (d \in needs => d \in needs') /\ leased'[d] = leased[d]
    PROVE  ProcInv'
<1>0. ProcTypes BY DEF ProcInv
<1> DEFINE tk == [task EXCEPT ![c] = "none"]
<1>1. tk \in [Cast -> Task] BY <1>0 DEF ProcTypes, Task
<1>2. \E st, rec, oc : Start(st, rec, oc, line, tk, heard)
  BY DEF Finish
<1>3. Started(line, tk)
  <2> HIDE DEF tk
  <2> QED BY <1>1, <1>2, StartLine
<1>4. record' \in {record, [record EXCEPT ![c] = "ended"]}
  BY DEF Finish
<1>5. ProcTypes'
  BY <1>0, <1>3, <1>4 DEF ProcTypes, Started, Status
<1> QED BY <1>0, <1>3, <1>4, <1>5, ProcMove DEF ProcTypes

LEMMA TaskStepProc ==
    ASSUME CircleAssumption, LeaseInv, ProcInv, NEW c \in Cast, TaskStep(c)
    PROVE  ProcInv'
<1> USE DEF Live, Proc, Task
<1>0. /\ ProcTypes
      /\ c \in needs => needs = needs \cup {c}
      /\ \A d \in {"leasing", "asking", "preparing", "spawned"} :
             task[c] = d => c \in needs
      /\ task[c] \notin {"probing", "spawned"} /\ c \notin Hand => proc[c] \notin Live
      /\ task[c] # "none" => c \notin Hand
  BY DEF ProcInv, LeasingKnown, SpawnedByTask, TaskOfQueued
<1>1. CASE Begins(c)
  <2>1. task[c] = "launched" /\ line' = line /\ record' = record /\ leased' = leased
    BY <1>1 DEF Begins, viewVars
  <2>2. CASE c \in needs \cup Says
    <3>1. /\ needs' = needs \cup {c}
          /\ task' = [task EXCEPT ![c] = "leasing"]
          /\ UNCHANGED <<proc, cwd>>
      BY <1>1, <2>2 DEF Begins
    <3>2. ProcTypes' BY <2>1, <3>1, <1>0 DEF ProcTypes
    <3>3. Started(line, [task EXCEPT ![c] = "leasing"])
      BY <2>1, <3>1, <1>0, OneMoved
    <3> QED BY <2>1, <3>1, <3>2, <3>3, <1>0, ProcMove
  <2>3. CASE c \notin needs \cup Says
    <3>1. /\ needs' = needs
          /\ task' = [task EXCEPT ![c] = "probing"]
          /\ cwd' = [cwd EXCEPT ![c] = Root]
          /\ proc' \in {[proc EXCEPT ![c] = "silent"], [proc EXCEPT ![c] = "exited"]}
      BY <1>1, <2>3 DEF Begins, Spawns
    <3>2. ProcTypes' BY <2>1, <3>1, <1>0 DEF ProcTypes, Roots
    <3>3. Started(line, [task EXCEPT ![c] = "probing"])
      BY <2>1, <3>1, <1>0, OneMoved
    <3>4. cwd'[c] = Root /\ \A d \in Cast \ {c} : cwd'[d] = cwd[d] /\ proc'[d] = proc[d]
      BY <3>1, <1>0 DEF ProcTypes
    <3> QED BY <2>1, <3>1, <3>2, <3>3, <3>4, <1>0, ProcMove
  <2> QED BY <2>2, <2>3
<1>2. CASE Probed(c)
  <2>1. /\ task[c] = "probing"
        /\ proc' = [proc EXCEPT ![c] = "none"]
        /\ cwd' = cwd /\ leased' = leased
    BY <1>2 DEF Probed
  <2>2. proc' \in [Cast -> Proc] /\ proc'[c] = "none"
        /\ \A d \in Cast \ {c} : proc'[d] = proc[d]
    BY <2>1, <1>0 DEF ProcTypes
  <2>3. CASE proc[c] = "wantsTree"
    <3>1. /\ needs' = needs \cup {c}
          /\ task' = [task EXCEPT ![c] = "leasing"]
          /\ UNCHANGED <<line, record>>
      BY <1>2, <2>3 DEF Probed, viewVars
    <3>2. ProcTypes' BY <2>1, <2>2, <3>1, <1>0 DEF ProcTypes
    <3>3. Started(line, [task EXCEPT ![c] = "leasing"])
      BY <3>1, <1>0, OneMoved
    <3> QED BY <2>1, <2>2, <3>1, <3>2, <3>3, <1>0, ProcMove
  <2>4. CASE proc[c] # "wantsTree"
    <3>1. Finish(c, blocked) /\ needs' = needs
      BY <1>2, <2>4 DEF Probed
    <3> QED BY <2>1, <2>2, <3>1, <1>0, FinishProc DEF ProcTypes
  <2> QED BY <2>3, <2>4
<1>3. CASE LeaseBegins(c)
  <2>1. /\ task[c] = "leasing"
        /\ task' = [task EXCEPT ![c] = "asking"]
        /\ UNCHANGED <<proc, cwd, record, line, needs, leased>>
    BY <1>3 DEF LeaseBegins, procVars, viewVars
  <2>2. ProcTypes' BY <2>1, <1>0 DEF ProcTypes
  <2>3. Started(line, [task EXCEPT ![c] = "asking"])
    BY <2>1, <1>0, OneMoved
  <2> QED BY <2>1, <2>2, <2>3, <1>0, ProcMove
<1>4. CASE Leases(c)
  <2>1. /\ task[c] = "asking"
        /\ task' = [task EXCEPT ![c] = "preparing"]
        /\ leased' = [leased EXCEPT ![c] = Found]
        /\ UNCHANGED <<proc, cwd, record, line, needs>>
    BY <1>4 DEF Leases, procVars
  <2>2. Found \in Roots
    BY <1>4, FoundIsFree DEF Leases, LeaseInv, LeaseTypes, Roots
  <2>3. ProcTypes' BY <2>1, <2>2, <1>0 DEF ProcTypes
  <2>4. Started(line, [task EXCEPT ![c] = "preparing"])
    BY <2>1, <1>0, OneMoved
  <2>5. \A d \in Cast \ {c} : leased'[d] = leased[d]
    BY <2>1, <1>0 DEF ProcTypes
  <2> QED BY <2>1, <2>3, <2>4, <2>5, <1>0, ProcMove
<1>5. CASE WaitsForTree(c)
  <2>1. /\ task[c] = "asking"
        /\ task' = [task EXCEPT ![c] = "none"]
        /\ line' = AtTheFront(line, c)
        /\ UNCHANGED <<proc, cwd, record, needs, leased>>
    BY <1>5 DEF WaitsForTree, procVars, viewVars
  <2>2. ProcTypes' BY <2>1, <1>0 DEF ProcTypes, AtTheFront
  <2>3. \A d \in Cast : line'[d] # 0 => d = c \/ line[d] # 0
    BY <2>1 DEF AtTheFront
  <2>4. InLineIdle' /\ TaskOfQueued'
    BY <2>1, <2>3, <1>0 DEF ProcInv, ProcTypes, InLineIdle, TaskOfQueued
  <2>5. LeasingKnown' /\ SpawnedByTask' /\ HandAtRoot'
    BY <2>1, <1>0 DEF ProcInv, ProcTypes, LeasingKnown, SpawnedByTask, HandAtRoot
  <2> QED BY <2>2, <2>4, <2>5 DEF ProcInv
<1>6. CASE LeaseFails(c)
  <2>1. /\ task[c] = "asking"
        /\ task' = [task EXCEPT ![c] = "failing"]
        /\ UNCHANGED <<proc, cwd, record, line, needs, leased>>
    BY <1>6 DEF LeaseFails, procVars, viewVars
  <2>2. ProcTypes' BY <2>1, <1>0 DEF ProcTypes
  <2>3. Started(line, [task EXCEPT ![c] = "failing"])
    BY <2>1, <1>0, OneMoved
  <2> QED BY <2>1, <2>2, <2>3, <1>0, ProcMove
<1>7. CASE Prepared(c)
  <2>1. /\ task[c] = "preparing"
        /\ task' = [task EXCEPT ![c] = "spawned"]
        /\ cwd' = [cwd EXCEPT ![c] = leased[c]]
        /\ proc' \in {[proc EXCEPT ![c] = "silent"], [proc EXCEPT ![c] = "exited"]}
        /\ UNCHANGED <<record, line, needs, leased>>
    BY <1>7 DEF Prepared, Spawns, viewVars, leaseVars
  <2>2. ProcTypes' BY <2>1, <1>0 DEF ProcTypes
  <2>3. Started(line, [task EXCEPT ![c] = "spawned"])
    BY <2>1, <1>0, OneMoved
  <2>4. /\ cwd'[c] = leased'[c]
        /\ \A d \in Cast \ {c} : cwd'[d] = cwd[d] /\ proc'[d] = proc[d]
    BY <2>1, <1>0 DEF ProcTypes
  <2> QED BY <2>1, <2>2, <2>3, <2>4, <1>0, ProcMove
<1>8. CASE PrepareFails(c)
  <2>1. /\ task[c] = "preparing"
        /\ task' = [task EXCEPT ![c] = "failing"]
        /\ UNCHANGED <<proc, cwd, record, line, needs, leased>>
    BY <1>8 DEF PrepareFails, procVars, viewVars
  <2>2. ProcTypes' BY <2>1, <1>0 DEF ProcTypes
  <2>3. Started(line, [task EXCEPT ![c] = "failing"])
    BY <2>1, <1>0, OneMoved
  <2> QED BY <2>1, <2>2, <2>3, <1>0, ProcMove
<1>9. CASE Ran(c)
  <2>1. /\ task[c] = "spawned"
        /\ task' = [task EXCEPT ![c] = "releasing"]
        /\ proc' = [proc EXCEPT ![c] = "none"]
        /\ UNCHANGED <<cwd, record, line, needs, leased>>
    BY <1>9 DEF Ran, viewVars
  <2>2. ProcTypes' BY <2>1, <1>0 DEF ProcTypes
  <2>3. Started(line, [task EXCEPT ![c] = "releasing"])
    BY <2>1, <1>0, OneMoved
  <2>4. /\ proc'[c] = "none"
        /\ \A d \in Cast \ {c} : proc'[d] = proc[d]
    BY <2>1, <1>0 DEF ProcTypes
  <2> QED BY <2>1, <2>2, <2>3, <2>4, <1>0, ProcMove
<1>10. CASE Releases(c)
  <2>1. /\ task[c] \in {"releasing", "failing"}
        /\ needs' = needs \ {c}
        /\ leased' = [leased EXCEPT ![c] = Root]
        /\ UNCHANGED <<proc, cwd>>
        /\ \E bl : Finish(c, bl)
    BY <1>10 DEF Releases
  <2>2. leased' \in [Cast -> Roots] /\ \A d \in Cast \ {c} : leased'[d] = leased[d]
    BY <2>1, <1>0 DEF ProcTypes, Roots
  <2> QED BY <2>1, <2>2, <1>0, FinishProc DEF ProcTypes
<1>11. CASE Marks(c)
  <2>1. /\ proc' \in {proc, [proc EXCEPT ![c] = "exited"]}
        /\ UNCHANGED <<cwd, record, needs, leased, line, task>>
    BY <1>11 DEF Marks, queueVars, leaseVars, viewVars
  <2>2. ProcTypes' BY <2>1, <1>0 DEF ProcTypes
  <2> QED BY <2>1, <2>2, <1>0, NoneStarted, ProcQuiet DEF ProcTypes, ProcInv, HandAtRoot
<1> QED BY <1>1, <1>2, <1>3, <1>4, <1>5, <1>6, <1>7, <1>8, <1>9, <1>10, <1>11
        DEF TaskStep

LEMMA ProcInvStep ==
    ASSUME CircleAssumption, HandRoots = {Root}, LeaseInv, ProcInv, [Next]_vars
    PROVE  ProcInv'
<1>0. ProcTypes BY DEF ProcInv
<1>1. ASSUME NEW c \in Cast, Enqueue(c) PROVE ProcInv'
  <2>1. /\ c \notin Hand
        /\ record[c] = "unheard"
        /\ record' = [record EXCEPT ![c] = "queued"]
        /\ UNCHANGED <<proc, cwd, needs, leased>>
        /\ \E st, rec, oc, hd : Start(st, rec, oc, Appended(line, c), task, hd)
    BY <1>1 DEF Enqueue, leaseVars
  <2>2. Started(Appended(line, c), task)
    BY <2>1, <1>0, StartLine DEF ProcTypes
  <2>3. /\ task[c] = "none"
        /\ \A d \in Cast \ {c} : Appended(line, c)[d] = line[d]
    BY <2>1, <1>0 DEF ProcInv, TaskOfQueued, Appended, ProcTypes
  <2>4. ProcTypes' BY <2>1, <2>2, <1>0 DEF ProcTypes, Started, Status
  <2>5. InLineIdle' /\ TaskOfQueued'
    BY <2>1, <2>2, <2>3, <1>0
       DEF ProcInv, ProcTypes, InLineIdle, TaskOfQueued, Started
  <2>6. LeasingKnown'
    BY <2>1, <2>2 DEF ProcInv, LeasingKnown, Started
  <2>7. SpawnedByTask'
    BY <2>1, <2>2, <2>3 DEF ProcInv, SpawnedByTask, InLineIdle, Started
  <2>8. HandAtRoot' BY <2>1 DEF ProcInv, HandAtRoot
  <2> QED BY <2>4, <2>5, <2>6, <2>7, <2>8 DEF ProcInv
<1>2. ASSUME NEW c \in Cast, TaskStep(c) PROVE ProcInv'
  BY <1>2, TaskStepProc
<1>3. ASSUME NEW c \in Cast, CastStep(c) PROVE ProcInv'
  BY <1>3, CastStepProc
<1>4. CASE Purify \/ PurifyBegins \/ Purified \/ CleanedByHand \/ UNCHANGED vars
  <2>1. UNCHANGED <<proc, cwd, record, line, task, needs, leased>>
    BY <1>4 DEF Purify, PurifyBegins, Purified, CleanedByHand, vars, procVars,
                viewVars, queueVars, leaseVars
  <2>2. ProcTypes' /\ Started(line, task)
    BY <2>1, <1>0, NoneStarted DEF ProcTypes
  <2>3. \A h \in Hand : cwd'[h] = Root BY <2>1 DEF ProcInv, HandAtRoot
  <2> QED BY <2>1, <2>2, <2>3, ProcQuiet
<1> QED BY <1>1, <1>2, <1>3, <1>4 DEF Next

(* While nobody types a cast inside the pool itself, no two living casts   *)
(* ever share a tree of it: a process is alive only under its task, which  *)
(* gives the tree back once the process is gone.                           *)
THEOREM OneCastPerTreeCorrect ==
    ASSUME HandRoots = {Root}
    PROVE  Spec => []OneCastPerTree
<1>1. Init => LeaseInv /\ ProcInv BY LeaseInvInit, ProcInvInit, CircleAssumption
<1>2. LeaseInv /\ ProcInv /\ [Next]_vars => LeaseInv' /\ ProcInv'
  BY LeaseInvStep, ProcInvStep, CircleAssumption
<1>3. LeaseInv /\ ProcInv => OneCastPerTree
  <2>1. SUFFICES ASSUME LeaseInv, ProcInv, NEW c \in Cast, NEW d \in Cast,
                        proc[c] \in Live, proc[d] \in Live, cwd[c] = cwd[d],
                        cwd[c] # Root
                 PROVE  c = d
    BY DEF OneCastPerTree
  <2>2. c \notin Hand /\ d \notin Hand
    BY <2>1 DEF ProcInv, HandAtRoot
  <2>3. /\ task[c] = "spawned" /\ cwd[c] = leased[c]
        /\ task[d] = "spawned" /\ cwd[d] = leased[d]
    BY <2>1, <2>2 DEF ProcInv, SpawnedByTask
  <2>4. c \in needs /\ d \in needs
    BY <2>1, <2>3 DEF ProcInv, LeasingKnown
  <2> QED BY <2>1, <2>3, <2>4 DEF LeaseInv, LeasedOnce
<1> QED BY <1>1, <1>2, <1>3, PTL DEF Spec

-----------------------------------------------------------------------------
(* The queue: its places, that no queued cast is lost or started twice, and *)
(* the order they start in.                                                 *)

(* The casts in line stand at places 1, 2, ... up to how many they are.    *)
Places(ln) ==
    /\ ln \in [Cast -> Nat]
    /\ \A c, d \in InLine(ln) : ln[c] = ln[d] => c = d
    /\ \A c \in InLine(ln) : ln[c] <= Cardinality(InLine(ln))

(* As many as the places they stand at, at most.                           *)
LEMMA Between ==
    ASSUME NEW ln, Places(ln), NEW S \in SUBSET InLine(ln),
           NEW lo \in Nat, NEW hi \in Nat, lo <= hi,
           \A e \in S : lo < ln[e] /\ ln[e] <= hi
    PROVE  /\ IsFiniteSet(S)
           /\ Cardinality(S) \in Nat
           /\ Cardinality(S) <= hi - lo
<1> DEFINE place == [e \in S |-> ln[e]]
           places == (lo + 1)..hi
<1>1. place \in Injection(S, places)
  BY DEF Places, InLine, Injection, IsInjective
<1>2. IsFiniteSet(places) /\ Cardinality(places) = hi - lo
  <2>1. lo + 1 \in Int /\ hi \in Int OBVIOUS
  <2>2. /\ IsFiniteSet((lo + 1)..hi)
        /\ Cardinality((lo + 1)..hi) = IF lo + 1 > hi THEN 0 ELSE hi - (lo + 1) + 1
    BY <2>1, FS_Interval
  <2> QED BY <2>2
<1>3. IsFiniteSet(S) /\ Cardinality(S) <= Cardinality(places)
  <2> HIDE DEF place, places
  <2> QED BY <1>1, <1>2, FS_Injection
<1> QED BY <1>2, <1>3, FS_CardinalityType

(* Those of `gone` ahead of a cast, among those in line.                   *)
GoneAhead(ln, gone, c) == {d \in gone \cap InLine(ln) : ln[d] < ln[c]}

(* Who stays in line keeps a place, and stands as before to who else does. *)
LEMMA WithoutPlaces ==
    ASSUME CircleAssumption, NEW ln, Places(ln), NEW gone \in SUBSET Cast
    PROVE  /\ Places(Without(ln, gone))
           /\ InLine(Without(ln, gone)) = InLine(ln) \ gone
           /\ \A c, d \in InLine(ln) \ gone :
                 ln[c] < ln[d] => Without(ln, gone)[c] < Without(ln, gone)[d]
<1> DEFINE new == Without(ln, gone)
           stay == InLine(ln) \ gone
           went == gone \cap InLine(ln)
<1>1. /\ ln \in [Cast -> Nat]
      /\ \A c, d \in InLine(ln) : ln[c] = ln[d] => c = d
      /\ \A c \in InLine(ln) : ln[c] <= Cardinality(InLine(ln))
  BY DEF Places
<1>2. /\ IsFiniteSet(InLine(ln)) /\ IsFiniteSet(went) /\ IsFiniteSet(stay)
      /\ Cardinality(InLine(ln)) \in Nat /\ Cardinality(went) \in Nat
      /\ Cardinality(stay) = Cardinality(InLine(ln)) - Cardinality(went)
  <2>1. IsFiniteSet(InLine(ln)) BY FS_Subset DEF InLine, CircleAssumption
  <2>2. InLine(ln) \cap gone = went OBVIOUS
  <2> QED BY <2>1, <2>2, FS_Difference, FS_Intersection, FS_CardinalityType
<1>3. ASSUME NEW c \in stay
      PROVE  /\ new[c] = ln[c] - Cardinality(GoneAhead(ln, gone, c))
             /\ Cardinality(GoneAhead(ln, gone, c)) \in Nat
             /\ Cardinality(GoneAhead(ln, gone, c)) < ln[c]
             /\ new[c] \in Nat /\ new[c] > 0
  <2> DEFINE ahead == GoneAhead(ln, gone, c)
  <2>1. c \in Cast /\ ln[c] \in Nat /\ ln[c] > 0 /\ c \notin gone
    BY <1>1 DEF InLine
  <2>2. new[c] = ln[c] - Cardinality(ahead)
    BY <2>1 DEF Without, GoneAhead
  <2>3. ahead \in SUBSET InLine(ln) /\ \A e \in ahead : 0 < ln[e] /\ ln[e] <= ln[c] - 1
    BY <1>1, <2>1 DEF GoneAhead, InLine
  <2>4. Cardinality(ahead) \in Nat /\ Cardinality(ahead) <= (ln[c] - 1) - 0
    <3> HIDE DEF ahead
    <3>1. ln[c] - 1 \in Nat BY <2>1
    <3> QED BY <2>3, <3>1, Between
  <2> HIDE DEF ahead, new
  <2>5. new[c] \in Nat /\ new[c] > 0 /\ Cardinality(ahead) < ln[c]
    BY <2>1, <2>2, <2>4
  <2> QED BY <2>2, <2>4, <2>5 DEF ahead
<1>4. ASSUME NEW c \in Cast, c \notin stay PROVE new[c] = 0
  BY <1>1, <1>4 DEF Without, InLine
<1>5. new \in [Cast -> Nat]
  <2>1. DOMAIN new = Cast /\ new = [c \in Cast |-> new[c]] BY DEF Without
  <2> HIDE DEF new, stay
  <2> QED BY <2>1, <1>3, <1>4
<1>6. InLine(new) = stay
  <2> HIDE DEF new
  <2>1. stay \subseteq Cast BY DEF InLine
  <2> QED BY <2>1, <1>3, <1>4, <1>5 DEF InLine
<1>7. ASSUME NEW c \in stay, NEW d \in stay, ln[c] < ln[d] PROVE new[c] < new[d]
  <2> DEFINE ac == GoneAhead(ln, gone, c)
             ad == GoneAhead(ln, gone, d)
  <2>1. c \in InLine(ln) /\ d \in InLine(ln) /\ c \notin gone /\ d \notin gone
        /\ ln[c] \in Nat /\ ln[d] \in Nat
    BY <1>1 DEF InLine
  <2>2. ac \subseteq ad /\ ad \ ac \in SUBSET InLine(ln)
    BY <1>1, <1>7, <2>1 DEF GoneAhead, InLine
  <2>3. \A e \in ad \ ac : ln[c] < ln[e] /\ ln[e] <= ln[d] - 1
    BY <1>1, <2>1 DEF GoneAhead, InLine
  <2>4. Cardinality(ad \ ac) \in Nat /\ Cardinality(ad \ ac) <= (ln[d] - 1) - ln[c]
    <3> HIDE DEF ac, ad
    <3>1. ln[d] - 1 \in Nat /\ ln[c] <= ln[d] - 1 BY <1>7, <2>1
    <3> QED BY <2>1, <2>2, <2>3, <3>1, Between
  <2>5. Cardinality(ad \ ac) = Cardinality(ad) - Cardinality(ac)
    <3>1. IsFiniteSet(ad) BY <1>2, FS_Subset DEF GoneAhead
    <3> HIDE DEF ac, ad
    <3>2. ad \cap ac = ac BY <2>2
    <3> QED BY <3>1, <3>2, FS_Difference
  <2>6. /\ new[c] = ln[c] - Cardinality(ac) /\ new[d] = ln[d] - Cardinality(ad)
        /\ Cardinality(ac) \in Nat /\ Cardinality(ad) \in Nat
    BY <1>3
  <2> HIDE DEF ac, ad, new
  <2> QED BY <2>1, <2>4, <2>5, <2>6
<1>8. ASSUME NEW c \in stay, NEW d \in stay, new[c] = new[d] PROVE c = d
  <2>1. ln[c] \in Nat /\ ln[d] \in Nat /\ c \in InLine(ln) /\ d \in InLine(ln)
    BY <1>1 DEF InLine
  <2>2. new[c] \in Nat BY <1>3
  <2> HIDE DEF new, stay
  <2>3. ~(ln[c] < ln[d]) /\ ~(ln[d] < ln[c])
    BY <1>7, <1>8, <2>2
  <2> QED BY <1>1, <2>1, <2>3
<1>9. ASSUME NEW c \in stay PROVE new[c] <= Cardinality(stay)
  <2> DEFINE ahead == GoneAhead(ln, gone, c)
             n == Cardinality(InLine(ln))
  <2>1. c \in InLine(ln) /\ ln[c] \in Nat /\ ln[c] <= n /\ n \in Nat
    BY <1>1, <1>2 DEF InLine
  <2>2. \A e \in went \ ahead : ln[c] < ln[e] /\ ln[e] <= n
    BY <1>1, <2>1 DEF GoneAhead, InLine
  <2>3. Cardinality(went \ ahead) \in Nat /\ Cardinality(went \ ahead) <= n - ln[c]
    <3>1. went \ ahead \in SUBSET InLine(ln) OBVIOUS
    <3> HIDE DEF went, ahead, n
    <3> QED BY <2>1, <2>2, <3>1, Between
  <2>4. Cardinality(went \ ahead) = Cardinality(went) - Cardinality(ahead)
    <3>1. went \cap ahead = ahead BY DEF GoneAhead
    <3> HIDE DEF went, ahead
    <3> QED BY <1>2, <3>1, FS_Difference
  <2>5. new[c] = ln[c] - Cardinality(ahead) /\ Cardinality(ahead) \in Nat
    BY <1>3
  <2>6. Cardinality(stay) = n - Cardinality(went) /\ Cardinality(went) \in Nat
    BY <1>2
  <2> HIDE DEF ahead, new, stay, went, n
  <2> QED BY <2>1, <2>3, <2>4, <2>5, <2>6
<1>10. Places(new)
  <2> HIDE DEF new, stay
  <2> QED BY <1>5, <1>6, <1>8, <1>9 DEF Places
<1> QED BY <1>6, <1>7, <1>10

LEMMA AppendedPlaces ==
    ASSUME CircleAssumption, NEW ln, Places(ln), NEW c \in Cast, ln[c] = 0
    PROVE  /\ Places(Appended(ln, c))
           /\ \A d \in Cast : d # c => Appended(ln, c)[d] = ln[d]
           /\ \A d \in InLine(ln) : ln[d] < Appended(ln, c)[c]
<1> DEFINE new == Appended(ln, c)
           n == Cardinality(InLine(ln))
<1>1. IsFiniteSet(InLine(ln)) /\ n \in Nat
  BY FS_Subset, FS_CardinalityType DEF InLine, CircleAssumption
<1>2. new = [ln EXCEPT ![c] = n + 1] /\ ln \in [Cast -> Nat]
  BY DEF Appended, Places
<1>3. InLine(new) = InLine(ln) \cup {c} /\ c \notin InLine(ln)
  <2> HIDE DEF n, new
  <2>1. new[c] = n + 1 /\ n + 1 > 0 /\ \A d \in Cast \ {c} : new[d] = ln[d]
    BY <1>1, <1>2
  <2>2. \A d \in Cast : d \in InLine(new) <=> d = c \/ d \in InLine(ln)
    BY <2>1 DEF InLine
  <2>3. InLine(new) \subseteq Cast /\ InLine(ln) \subseteq Cast /\ c \notin InLine(ln)
    BY DEF InLine
  <2> QED BY <2>2, <2>3
<1>4. Cardinality(InLine(new)) = n + 1
  <2> HIDE DEF new
  <2> QED BY <1>1, <1>3, FS_AddElement
<1>5. \A d \in InLine(ln) : ln[d] \in Nat /\ ln[d] <= n
  BY DEF Places, InLine
<1> HIDE DEF n, new
<1>6. /\ new \in [Cast -> Nat]
      /\ new[c] = n + 1
      /\ \A d \in Cast : d # c => new[d] = ln[d]
  BY <1>1, <1>2
<1>7. \A d \in InLine(ln) : d \in Cast /\ d # c /\ new[d] = ln[d]
  BY <1>3, <1>6 DEF InLine
<1>8. \A d \in InLine(ln) : ln[d] < new[c]
  BY <1>1, <1>5, <1>6
<1>9. \A d \in InLine(new) : new[d] <= n + 1
  BY <1>1, <1>3, <1>5, <1>6, <1>7
<1>10. ASSUME NEW d \in InLine(new), NEW e \in InLine(new), new[d] = new[e]
       PROVE  d = e
  <2>1. CASE d = c \/ e = c BY <2>1, <1>1, <1>3, <1>5, <1>6, <1>7, <1>10
  <2>2. CASE d # c /\ e # c
    <3>1. d \in InLine(ln) /\ e \in InLine(ln) BY <2>2, <1>3
    <3>2. ln[d] = ln[e] BY <3>1, <1>7, <1>10
    <3> QED BY <3>1, <3>2 DEF Places
  <2> QED BY <2>1, <2>2
<1>11. Places(new) BY <1>4, <1>6, <1>9, <1>10 DEF Places
<1> QED BY <1>6, <1>8, <1>11 DEF new

LEMMA AtTheFrontPlaces ==
    ASSUME CircleAssumption, NEW ln, Places(ln), NEW c \in Cast, ln[c] = 0
    PROVE  /\ Places(AtTheFront(ln, c))
           /\ InLine(AtTheFront(ln, c)) = InLine(ln) \cup {c}
<1> DEFINE new == AtTheFront(ln, c)
           n == Cardinality(InLine(ln))
<1>1. IsFiniteSet(InLine(ln)) /\ n \in Nat
  BY FS_Subset, FS_CardinalityType DEF InLine, CircleAssumption
<1>2. /\ ln \in [Cast -> Nat]
      /\ new \in [Cast -> Nat]
      /\ new[c] = 1
      /\ \A d \in Cast \ {c} : new[d] = IF ln[d] > 0 THEN ln[d] + 1 ELSE 0
  BY DEF AtTheFront, Places
<1>3. InLine(new) = InLine(ln) \cup {c} /\ c \notin InLine(ln)
  <2> HIDE DEF n, new
  <2> QED BY <1>2 DEF InLine
<1>4. Cardinality(InLine(new)) = n + 1
  <2> HIDE DEF new
  <2> QED BY <1>1, <1>3, FS_AddElement
<1>5. \A d \in InLine(ln) : ln[d] \in Nat /\ ln[d] > 0 /\ ln[d] <= n
  BY DEF Places, InLine
<1>6. \A d \in InLine(ln) : d \in Cast \ {c} /\ new[d] = ln[d] + 1
  <2> HIDE DEF new
  <2> QED BY <1>2 DEF InLine
<1> HIDE DEF n, new
<1>7. \A d \in InLine(new) : new[d] <= n + 1
  BY <1>1, <1>2, <1>3, <1>5, <1>6
<1>8. ASSUME NEW d \in InLine(new), NEW e \in InLine(new), new[d] = new[e]
      PROVE  d = e
  <2>1. CASE d = c \/ e = c BY <2>1, <1>2, <1>3, <1>5, <1>6, <1>8
  <2>2. CASE d # c /\ e # c
    <3>1. d \in InLine(ln) /\ e \in InLine(ln) BY <2>2, <1>3
    <3>2. ln[d] = ln[e] BY <3>1, <1>5, <1>6, <1>8
    <3> QED BY <3>1, <3>2 DEF Places
  <2> QED BY <2>1, <2>2
<1>9. Places(new) BY <1>2, <1>4, <1>7, <1>8 DEF Places
<1> QED BY <1>3, <1>9 DEF new

-----------------------------------------------------------------------------
(* What starting what can start leaves of the queue.                       *)

(* Who may run is a number.                                                *)
LEMMA BusyNumber ==
    ASSUME CircleAssumption, left \subseteq Cast, NEW st, NEW oc, NEW tk
    PROVE  Busy(st, oc, tk) \in Nat
<1> DEFINE counted == {c \in Cast : /\ st[c] # "unheard"
                                    /\ oc[c] = {}
                                    /\ st[c] = "running" \/ tk[c] # "none"}
<1>1. counted \in SUBSET Cast /\ LeftLive(st) \in SUBSET Cast
  BY DEF LeftLive
<1>2. Cardinality(counted) \in Nat /\ Cardinality(LeftLive(st)) \in Nat
  <2> HIDE DEF counted
  <2> QED BY <1>1, FS_Subset, FS_CardinalityType DEF CircleAssumption
<1>3. Busy(st, oc, tk) = Cardinality(counted) + Cardinality(LeftLive(st))
  BY DEF Busy
<1> HIDE DEF counted
<1> QED BY <1>2, <1>3

(* Nobody is launched over a cast that stood before it and stays queued.   *)
LEMMA LaunchedInOrder ==
    ASSUME CircleAssumption, NEW st, NEW ln, Places(ln), NEW free \in Int,
           NEW c \in Launched(st, ln, free),
           NEW d \in Queued(st, ln), d \notin Launched(st, ln, free)
    PROVE  ln[c] < ln[d]
<1> DEFINE before(e) == {f \in Queued(st, ln) : ln[f] < ln[e]}
<1>1. c \in Cast /\ d \in Cast /\ ln[c] \in Nat /\ ln[d] \in Nat
      /\ \A e \in Queued(st, ln) : ln[e] \in Nat
  BY DEF Launched, Queued, InLine, Places
<1>2. Cardinality(before(c)) < free /\ ~(Cardinality(before(d)) < free)
  BY DEF Launched
<1>3. before(d) \in SUBSET Cast /\ before(c) \in SUBSET Cast
  BY DEF Queued, InLine
<1>4. SUFFICES ASSUME ln[d] <= ln[c] PROVE FALSE
  BY <1>1
<1>5. before(d) \in SUBSET before(c)
  BY <1>1, <1>4
<1>6. /\ Cardinality(before(d)) <= Cardinality(before(c))
      /\ Cardinality(before(d)) \in Nat /\ Cardinality(before(c)) \in Nat
  <2> HIDE DEF before
  <2>1. IsFiniteSet(before(c)) /\ IsFiniteSet(before(d))
    BY <1>3, FS_Subset DEF CircleAssumption
  <2> QED BY <1>5, <2>1, FS_Subset, FS_CardinalityType
<1> HIDE DEF before
<1> QED BY <1>2, <1>6

(* Everyone still queued keeps a place, or is launched; and is launched    *)
(* from one ahead of everyone who keeps theirs.                            *)
Kept(ln, st, tk) ==
    /\ Places(line')
    /\ \A c \in Cast : st[c] = "queued" /\ ln[c] > 0 =>
           line'[c] > 0 \/ task'[c] = "launched"
    /\ \A c, d \in Cast : task'[c] # tk[c] /\ line'[d] > 0 =>
           ln[c] > 0 /\ ln[d] > 0 /\ ln[c] < ln[d]

LEMMA StartKeeps ==
    ASSUME CircleAssumption, left \subseteq Cast,
           NEW st, NEW rec, NEW oc, NEW ln, NEW tk \in [Cast -> Task], NEW hd,
           Places(ln), Start(st, rec, oc, ln, tk, hd)
    PROVE  Kept(ln, st, tk)
<1>1. PICK replies :
        LET answered == Replied(oc, replies)
            free == Processes - Busy(st, answered, tk)
            starting == Launched(st, ln, free)
            gone == starting \cup (InLine(ln) \ Queued(st, ln))
        IN /\ line' = Without(ln, gone)
           /\ task' = [c \in Cast |->
                          IF c \in starting THEN "launched" ELSE tk[c]]
  BY DEF Start
<1> DEFINE free == Processes - Busy(st, Replied(oc, replies), tk)
           starting == Launched(st, ln, free)
           gone == starting \cup (InLine(ln) \ Queued(st, ln))
<1>2. free \in Int
  <2>1. Busy(st, Replied(oc, replies), tk) \in Nat BY BusyNumber
  <2> QED BY <2>1 DEF CircleAssumption
<1>3. /\ line' = Without(ln, gone)
      /\ task' = [c \in Cast |-> IF c \in starting THEN "launched" ELSE tk[c]]
  BY <1>1
<1> HIDE DEF free
<1>4. /\ starting \subseteq Queued(st, ln)
      /\ Queued(st, ln) \subseteq InLine(ln)
      /\ InLine(ln) \subseteq Cast
      /\ gone \in SUBSET Cast
  BY DEF Launched, Queued, InLine
<1>5. /\ Places(line')
      /\ InLine(line') = InLine(ln) \ gone
  <2> HIDE DEF gone, starting
  <2> QED BY <1>3, <1>4, WithoutPlaces
<1>6. InLine(ln) \ gone = Queued(st, ln) \ starting
  BY <1>4
<1>7. ASSUME NEW c \in Cast, st[c] = "queued", ln[c] > 0
      PROVE  line'[c] > 0 \/ task'[c] = "launched"
  <2>1. c \in Queued(st, ln) BY <1>7 DEF Queued, InLine
  <2>2. CASE c \in starting BY <2>2, <1>3
  <2>3. CASE c \notin starting
    <3>1. c \in InLine(line') BY <2>1, <2>3, <1>5, <1>6
    <3> QED BY <3>1 DEF InLine
  <2> QED BY <2>2, <2>3
<1>8. ASSUME NEW c \in Cast, NEW d \in Cast, task'[c] # tk[c], line'[d] > 0
      PROVE  ln[c] > 0 /\ ln[d] > 0 /\ ln[c] < ln[d]
  <2>1. c \in starting BY <1>3, <1>8
  <2>3. ln[c] > 0 BY <2>1, <1>4 DEF InLine
  <2>2. d \in Queued(st, ln) /\ d \notin starting
    <3>1. d \in InLine(line') BY <1>8 DEF InLine
    <3> QED BY <3>1, <1>5, <1>6
  <2>4. ln[d] > 0 BY <2>2, <1>4 DEF InLine
  <2> QED BY <1>2, <2>1, <2>2, <2>3, <2>4, LaunchedInOrder
<1> HIDE DEF gone, starting
<1> QED BY <1>5, <1>7, <1>8 DEF Kept

-----------------------------------------------------------------------------
(* The inductive invariant.  QueuedOnce alone is not one: that a cast in   *)
(* the queue has no task rests on its not being typed by hand, on nothing  *)
(* enqueueing it twice, and on the places being 1, 2, ..., which keeps the *)
(* last apart from the others.                                             *)
QueueInv ==
    /\ Places(line)
    /\ task \in [Cast -> Task]
    /\ record \in [Cast -> Status]
    /\ status \in [Cast -> Status]
    /\ left \subseteq Cast
    /\ InLineIdle
    /\ TaskOfQueued
    /\ \A c \in Cast : status[c] = "queued" => line[c] > 0 \/ task[c] # "none"

(* What StartsInOrder says of a step.                                      *)
InOrder ==
    \A c \in Cast : Starting(c) =>
        \A d \in InLine(line) \cap InLine(line') :
            line[c] > 0 /\ line[c] < line[d]

(* Starting what can start, from a queue and tasks as they should be,      *)
(* leaves them so.                                                         *)
LEMMA QueueStart ==
    ASSUME CircleAssumption, left \subseteq Cast, left' = left,
           NEW rec, NEW oc, NEW ln, NEW tk \in [Cast -> Task], NEW hd,
           Places(ln), Start(status', rec, oc, ln, tk, hd),
           record' \in [Cast -> Status], status' \in [Cast -> Status],
           \A c \in Cast : ln[c] # 0 =>
               tk[c] = "none" /\ c \notin Hand /\ record'[c] # "unheard",
           \A c \in Cast : tk[c] # "none" => c \notin Hand /\ record'[c] # "unheard",
           \A c \in Cast : status'[c] = "queued" => ln[c] > 0 \/ tk[c] # "none"
    PROVE  QueueInv' /\ Kept(ln, status', tk)
<1>1. Started(ln, tk) BY StartLine
<1>2. Kept(ln, status', tk) BY StartKeeps
<1>3. /\ Places(line')
      /\ task' \in [Cast -> Task]
  BY <1>1, <1>2 DEF Kept, Started
<1>4. InLineIdle' BY <1>1 DEF InLineIdle, Started
<1>5. TaskOfQueued' BY <1>1 DEF TaskOfQueued, Started
<1>6. ASSUME NEW c \in Cast, status'[c] = "queued"
      PROVE  line'[c] > 0 \/ task'[c] # "none"
  BY <1>6, <1>1, <1>2 DEF Kept, Started
<1> QED BY <1>2, <1>3, <1>4, <1>5, <1>6 DEF QueueInv

(* So it does from the queue and the tasks as they stand, or as they stand *)
(* but for one that is over.                                               *)
LEMMA StartsQueued ==
    ASSUME CircleAssumption, QueueInv, left' = left,
           NEW rec, NEW oc, NEW tk \in [Cast -> Task], NEW hd,
           Start(status', rec, oc, line, tk, hd),
           record' \in [Cast -> Status], status' \in [Cast -> Status],
           \A c \in Cast : record'[c] = "unheard" => record[c] = "unheard",
           \A c \in Cast : tk[c] \in {task[c], "none"},
           \A c \in Cast : status'[c] = "queued" =>
               status[c] = "queued" /\ tk[c] = task[c]
    PROVE  QueueInv' /\ InOrder
<1> USE DEF QueueInv
<1>1. QueueInv' /\ Kept(line, status', tk)
  <2>1. \A c \in Cast : line[c] # 0 =>
            tk[c] = "none" /\ c \notin Hand /\ record'[c] # "unheard"
    BY DEF InLineIdle
  <2>2. \A c \in Cast : tk[c] # "none" => c \notin Hand /\ record'[c] # "unheard"
    BY DEF TaskOfQueued
  <2>3. \A c \in Cast : status'[c] = "queued" => line[c] > 0 \/ tk[c] # "none"
    OBVIOUS
  <2> HIDE DEF QueueInv
  <2>4. left \subseteq Cast /\ Places(line) BY DEF QueueInv
  <2> QED BY <2>1, <2>2, <2>3, <2>4, QueueStart
<1>2. InOrder
  <2>1. SUFFICES ASSUME NEW c \in Cast, Starting(c),
                        NEW d \in InLine(line) \cap InLine(line')
                 PROVE  line[c] > 0 /\ line[c] < line[d]
    BY DEF InOrder
  <2>2. task'[c] # tk[c] BY <2>1 DEF Starting
  <2>3. d \in Cast /\ line'[d] > 0 BY <2>1 DEF InLine
  <2> QED BY <1>1, <2>2, <2>3 DEF Kept
<1> QED BY <1>1, <1>2

(* A step that starts nothing and, of the tasks, moves at most one on.     *)
LEMMA QueueQuiet ==
    ASSUME CircleAssumption, QueueInv, UNCHANGED <<line, left>>, NEW c \in Cast,
           \/ task' = task
           \/ /\ task[c] # "none"
              /\ \E next \in Task \ {"none", "launched"} :
                    task' = [task EXCEPT ![c] = next],
           record' \in [Cast -> Status], status' \in [Cast -> Status],
           \A d \in Cast : record'[d] = "unheard" => record[d] = "unheard",
           \A d \in Cast : status'[d] = "queued" => status[d] = "queued"
    PROVE  QueueInv' /\ InOrder
<1> USE DEF QueueInv
<1>1. /\ task' \in [Cast -> Task]
      /\ \A d \in Cast : task'[d] = "none" <=> task[d] = "none"
      /\ \A d \in Cast : task[d] = "none" => task'[d] # "launched"
  BY DEF Task
<1>2. InLineIdle' BY <1>1 DEF InLineIdle
<1>3. TaskOfQueued' BY <1>1 DEF TaskOfQueued
<1>4. InOrder BY <1>1 DEF InOrder, Starting
<1> QED BY <1>1, <1>2, <1>3, <1>4

LEMMA QueueInvInit == ASSUME CircleAssumption, Init PROVE QueueInv
<1>1. InLine(line) = {} /\ line \in [Cast -> Nat]
  BY DEF Init, InLine
<1>2. Places(line) BY <1>1 DEF Places
<1> QED BY <1>2 DEF Init, QueueInv, InLineIdle, TaskOfQueued, Task, Status

-----------------------------------------------------------------------------

(* What a cast's process does, and the handler that hears it.              *)
LEMMA CastStepQueue ==
    ASSUME CircleAssumption, QueueInv, NEW c \in Cast, CastStep(c)
    PROVE  QueueInv' /\ InOrder
<1> USE DEF Status
<1>0. /\ task \in [Cast -> Task]
      /\ record \in [Cast -> Status]
      /\ status \in [Cast -> Status]
  BY DEF QueueInv
<1>1. CASE Typed(c)
  BY <1>1, <1>0, QueueQuiet DEF Typed, queueVars
<1>2. CASE SaysHello(c)
  BY <1>2, <1>0, QueueQuiet DEF SaysHello, queueVars, viewVars
<1>3. CASE AsksForTree(c)
  BY <1>3, <1>0, QueueQuiet DEF AsksForTree, queueVars, viewVars
<1>4. CASE Exits(c)
  BY <1>4, <1>0, QueueQuiet DEF Exits, queueVars, viewVars
<1>5. ASSUME NEW child \in Cast, AwaitsChild(c, child) PROVE QueueInv' /\ InOrder
  <2>1. UNCHANGED <<status, record, left>> BY <1>5 DEF AwaitsChild
  <2>2. \E oc : Start(status', record, oc, line, task, heard)
    BY <2>1, <1>5 DEF AwaitsChild
  <2> QED BY <2>1, <2>2, <1>0, StartsQueued
<1>6. ASSUME NEW child \in Cast, Withdraws(c, child) PROVE QueueInv' /\ InOrder
  <2>1. UNCHANGED <<status, record, left>> BY <1>6 DEF Withdraws
  <2>2. CASE UNCHANGED queueVars
    BY <2>1, <2>2, <1>0, QueueQuiet DEF queueVars
  <2>3. CASE ~UNCHANGED queueVars
    <3>1. \E oc, hd : Start(status', record, oc, line, task, hd)
      BY <2>1, <2>3, <1>6 DEF Withdraws
    <3> QED BY <2>1, <3>1, <1>0, StartsQueued
  <2> QED BY <2>2, <2>3
<1>7. ASSUME NEW child \in Cast, Hears(c, child) PROVE QueueInv' /\ InOrder
  BY <1>7, <1>0, QueueQuiet DEF Hears, queueVars, viewVars
<1>8. ASSUME NEW ending \in {"ended", "disconnected"}, NEW hd,
             Goodbye(c, ending, task, hd), left' = left
      PROVE  QueueInv' /\ InOrder
  <2>1. /\ status' = [status EXCEPT ![c] = ending]
        /\ record' = [record EXCEPT ![c] = ending]
        /\ \E oc : Start(status', record', oc, line, task, hd)
    BY <1>8 DEF Goodbye
  <2>2. status' \in [Cast -> Status] /\ record' \in [Cast -> Status]
    BY <2>1, <1>0
  <2>3. \A d \in Cast : /\ record'[d] = "unheard" => record[d] = "unheard"
                        /\ status'[d] = "queued" => status[d] = "queued"
    BY <2>1, <1>0
  <2> QED BY <2>1, <2>2, <2>3, <1>0, <1>8, StartsQueued
<1>9. CASE Ends(c)
  BY <1>9, <1>8 DEF Ends
<1>10. CASE Drops(c)
  BY <1>10, <1>0, QueueQuiet DEF Drops, queueVars, viewVars
<1>11. CASE Reattaches(c)
  <2>1. /\ status' = [status EXCEPT ![c] = "running"]
        /\ record' = [record EXCEPT ![c] = "running"]
        /\ left' = left
    BY <1>11 DEF Reattaches
  <2>2. status' \in [Cast -> Status] /\ record' \in [Cast -> Status]
    BY <2>1, <1>0
  <2>3. \A d \in Cast : /\ record'[d] = "unheard" => record[d] = "unheard"
                        /\ status'[d] = "queued" => status[d] = "queued"
    BY <2>1, <1>0
  <2>4. CASE UNCHANGED queueVars
    BY <2>1, <2>2, <2>3, <2>4, <1>0, QueueQuiet DEF queueVars
  <2>5. CASE ~UNCHANGED queueVars
    <3>1. \E oc : Start(status', record', oc, line, task, heard)
      BY <2>5, <1>11 DEF Reattaches
    <3> QED BY <2>1, <2>2, <2>3, <3>1, <1>0, StartsQueued
  <2> QED BY <2>4, <2>5
<1>12. CASE Noticed(c)
  BY <1>12, <1>8 DEF Noticed
<1> QED BY <1>1, <1>2, <1>3, <1>4, <1>5, <1>6, <1>7, <1>9, <1>10, <1>11, <1>12
        DEF CastStep

(* The end of a task: a cast it leaves queued is failed by it.             *)
LEMMA FinishQueue ==
    ASSUME CircleAssumption, QueueInv, left' = left, NEW c \in Cast, NEW bl,
           Finish(c, bl)
    PROVE  QueueInv' /\ InOrder
<1> USE DEF Status
<1>0. /\ task \in [Cast -> Task]
      /\ record \in [Cast -> Status]
      /\ status \in [Cast -> Status]
  BY DEF QueueInv
<1> DEFINE tk == [task EXCEPT ![c] = "none"]
<1>1. /\ status' = IF status[c] = "queued" THEN [status EXCEPT ![c] = "ended"]
                   ELSE status
      /\ record' = IF status[c] = "queued" THEN [record EXCEPT ![c] = "ended"]
                   ELSE record
      /\ \E oc : Start(status', record', oc, line, tk, heard)
  BY DEF Finish
<1>2. status' \in [Cast -> Status] /\ record' \in [Cast -> Status]
  BY <1>1, <1>0
<1>3. /\ tk \in [Cast -> Task]
      /\ \A d \in Cast : tk[d] \in {task[d], "none"}
      /\ \A d \in Cast : record'[d] = "unheard" => record[d] = "unheard"
      /\ \A d \in Cast : status'[d] = "queued" =>
            status[d] = "queued" /\ tk[d] = task[d]
  BY <1>1, <1>0 DEF Task
<1>4. PICK oc : Start(status', record', oc, line, tk, heard)
  BY <1>1
<1> HIDE DEF tk
<1> QED BY <1>2, <1>3, <1>4, StartsQueued

(* The daemon's tasks.                                                     *)
LEMMA TaskStepQueue ==
    ASSUME CircleAssumption, QueueInv, NEW c \in Cast, TaskStep(c)
    PROVE  QueueInv' /\ InOrder
<1> USE DEF Task
<1>0. /\ task \in [Cast -> Task]
      /\ record \in [Cast -> Status]
      /\ status \in [Cast -> Status]
  BY DEF QueueInv
<1>1. CASE Begins(c)
  BY <1>1, <1>0, QueueQuiet DEF Begins, viewVars
<1>2. CASE Probed(c)
  <2>1. CASE proc[c] = "wantsTree"
    BY <2>1, <1>2, <1>0, QueueQuiet DEF Probed, viewVars
  <2>2. CASE proc[c] # "wantsTree"
    BY <2>2, <1>2, FinishQueue DEF Probed
  <2> QED BY <2>1, <2>2
<1>3. CASE LeaseBegins(c)
  BY <1>3, <1>0, QueueQuiet DEF LeaseBegins, viewVars
<1>4. CASE Leases(c)
  BY <1>4, <1>0, QueueQuiet DEF Leases
<1>5. CASE WaitsForTree(c)
  <2>1. /\ task[c] = "asking"
        /\ task' = [task EXCEPT ![c] = "none"]
        /\ line' = AtTheFront(line, c)
        /\ UNCHANGED <<status, record, left>>
    BY <1>5 DEF WaitsForTree, viewVars
  <2>2. Places(line) /\ line[c] = 0 /\ c \notin Hand /\ record[c] # "unheard"
    BY <2>1 DEF QueueInv, InLineIdle, TaskOfQueued
  <2>3. /\ Places(line')
        /\ InLine(line') = InLine(line) \cup {c}
    BY <2>1, <2>2, AtTheFrontPlaces
  <2>4. /\ line' \in [Cast -> Nat] /\ line \in [Cast -> Nat]
        /\ \A d \in Cast : line'[d] > 0 <=> line[d] > 0 \/ d = c
    BY <2>2, <2>3 DEF Places, InLine
  <2>5. /\ task' \in [Cast -> Task]
        /\ \A d \in Cast \ {c} : task'[d] = task[d]
        /\ task'[c] = "none"
    BY <2>1, <1>0
  <2>6. InLineIdle' BY <2>1, <2>2, <2>4, <2>5 DEF QueueInv, InLineIdle
  <2>7. TaskOfQueued' BY <2>1, <2>2, <2>5 DEF QueueInv, TaskOfQueued
  <2>8. \A d \in Cast : status'[d] = "queued" => line'[d] > 0 \/ task'[d] # "none"
    BY <2>1, <2>4, <2>5 DEF QueueInv
  <2>9. InOrder BY <2>5 DEF InOrder, Starting
  <2> QED BY <2>1, <2>3, <2>5, <2>6, <2>7, <2>8, <2>9 DEF QueueInv
<1>6. CASE LeaseFails(c)
  BY <1>6, <1>0, QueueQuiet DEF LeaseFails, viewVars
<1>7. CASE Prepared(c)
  BY <1>7, <1>0, QueueQuiet DEF Prepared, viewVars
<1>8. CASE PrepareFails(c)
  BY <1>8, <1>0, QueueQuiet DEF PrepareFails, viewVars
<1>9. CASE Ran(c)
  BY <1>9, <1>0, QueueQuiet DEF Ran, viewVars
<1>10. CASE Releases(c)
  BY <1>10, FinishQueue DEF Releases
<1>11. CASE Marks(c)
  BY <1>11, <1>0, QueueQuiet DEF Marks, queueVars, viewVars
<1> QED BY <1>1, <1>2, <1>3, <1>4, <1>5, <1>6, <1>7, <1>8, <1>9, <1>10, <1>11
        DEF TaskStep

LEMMA QueueInvStep ==
    ASSUME CircleAssumption, QueueInv, [Next]_vars
    PROVE  QueueInv' /\ InOrder
<1>0. /\ task \in [Cast -> Task]
      /\ record \in [Cast -> Status]
      /\ status \in [Cast -> Status]
      /\ Places(line)
      /\ left \subseteq Cast
  BY DEF QueueInv
<1>1. ASSUME NEW c \in Cast, Enqueue(c) PROVE QueueInv' /\ InOrder
  <2> DEFINE ln == Appended(line, c)
  <2>1. /\ c \notin Hand
        /\ record[c] = "unheard"
        /\ status' = [status EXCEPT ![c] = "queued"]
        /\ record' = [record EXCEPT ![c] = "queued"]
        /\ left' = left
        /\ Start(status', record', onChildren, ln, task, heard)
    BY <1>1 DEF Enqueue
  <2>2. line[c] = 0 /\ task[c] = "none"
    BY <2>1, <1>0 DEF QueueInv, InLineIdle, TaskOfQueued, Places
  <2>3. /\ Places(ln)
        /\ \A d \in Cast : d # c => ln[d] = line[d]
        /\ \A d \in InLine(line) : line[d] < ln[c]
    BY <2>2, <1>0, AppendedPlaces
  <2>4. ln[c] > 0
    <3>1. ln = [line EXCEPT ![c] = Cardinality(InLine(line)) + 1] BY DEF Appended
    <3>2. Cardinality(InLine(line)) \in Nat
      BY FS_Subset, FS_CardinalityType DEF InLine, CircleAssumption
    <3>3. line \in [Cast -> Nat] BY <1>0 DEF Places
    <3> HIDE DEF ln
    <3> QED BY <3>1, <3>2, <3>3
  <2> HIDE DEF ln
  <2>5. status' \in [Cast -> Status] /\ record' \in [Cast -> Status]
    BY <2>1, <1>0 DEF Status
  <2>6. \A d \in Cast : ln[d] # 0 =>
            task[d] = "none" /\ d \notin Hand /\ record'[d] # "unheard"
    BY <2>1, <2>2, <2>3, <1>0 DEF QueueInv, InLineIdle
  <2>7. \A d \in Cast : task[d] # "none" => d \notin Hand /\ record'[d] # "unheard"
    BY <2>1, <2>2, <1>0 DEF QueueInv, TaskOfQueued
  <2>8. \A d \in Cast : status'[d] = "queued" => ln[d] > 0 \/ task[d] # "none"
    BY <2>1, <2>3, <2>4, <1>0 DEF QueueInv
  <2>9. QueueInv' /\ Kept(ln, status', task)
    BY <2>1, <2>3, <2>5, <2>6, <2>7, <2>8, <1>0, QueueStart
  <2>10. InOrder
    <3>1. SUFFICES ASSUME NEW d \in Cast, Starting(d),
                          NEW e \in InLine(line) \cap InLine(line')
                   PROVE  line[d] > 0 /\ line[d] < line[e]
      BY DEF InOrder
    <3>2. e \in Cast /\ line[e] > 0 /\ line'[e] > 0 /\ task'[d] # task[d]
      BY <3>1 DEF InLine, Starting
    <3>3. ln[d] > 0 /\ ln[d] < ln[e] BY <2>9, <3>2 DEF Kept
    <3>4. e # c /\ ln[e] = line[e] BY <2>2, <2>3, <3>2
    <3>5. d # c
      <4>1. line[e] < ln[c] BY <2>3, <3>1
      <4>2. line[e] \in Nat /\ ln[c] \in Nat BY <1>0, <2>3, <3>2 DEF Places
      <4> QED BY <3>3, <3>4, <4>1, <4>2
    <3> QED BY <2>3, <3>3, <3>4, <3>5
  <2> QED BY <2>9, <2>10
<1>2. ASSUME NEW c \in Cast, TaskStep(c) PROVE QueueInv' /\ InOrder
  BY <1>2, TaskStepQueue
<1>3. ASSUME NEW c \in Cast, CastStep(c) PROVE QueueInv' /\ InOrder
  BY <1>3, CastStepQueue
<1>4. CASE Purify \/ PurifyBegins \/ Purified \/ CleanedByHand \/ UNCHANGED vars
  <2>1. UNCHANGED <<line, task, record, status, left>>
    BY <1>4 DEF Purify, PurifyBegins, Purified, CleanedByHand, vars, viewVars,
                queueVars
  <2>2. QueueInv' BY <2>1 DEF QueueInv, InLineIdle, TaskOfQueued
  <2>3. InOrder BY <2>1 DEF InOrder, Starting
  <2> QED BY <2>2, <2>3
<1> QED BY <1>1, <1>2, <1>3, <1>4 DEF Next

LEMMA QueueInvQueuedOnce == ASSUME QueueInv PROVE QueuedOnce
<1>1. \A c \in Cast : line[c] \in Nat BY DEF QueueInv, Places
<1>2. \A c \in Cast : line[c] > 0 => task[c] = "none"
  BY <1>1 DEF QueueInv, InLineIdle
<1>3. \A c \in Cast : status[c] = "queued" => (line[c] > 0) # (task[c] # "none")
  BY <1>2 DEF QueueInv
<1> QED BY <1>2, <1>3 DEF QueuedOnce, QueueInv, Places

(* A queued cast is in the queue or has a task, and not both, and no two   *)
(* share a place: it is never forgotten, and never started twice.          *)
THEOREM QueuedOnceCorrect == Spec => []QueuedOnce
<1>1. Init => QueueInv BY QueueInvInit, CircleAssumption
<1>2. QueueInv /\ [Next]_vars => QueueInv' BY QueueInvStep, CircleAssumption
<1>3. QueueInv => QueuedOnce BY QueueInvQueuedOnce
<1> QED BY <1>1, <1>2, <1>3, PTL DEF Spec

(* Casts start in the order of the queue, whatever else the event that     *)
(* starts them did.                                                        *)
THEOREM StartsInOrderCorrect == Spec => StartsInOrder
<1>1. Init => QueueInv BY QueueInvInit, CircleAssumption
<1>2. QueueInv /\ [Next]_vars => QueueInv' BY QueueInvStep, CircleAssumption
<1>3. QueueInv /\ [Next]_vars => [InOrder]_vars BY QueueInvStep, CircleAssumption
<1> QED BY <1>1, <1>2, <1>3, PTL DEF Spec, StartsInOrder, InOrder

-----------------------------------------------------------------------------
(* Types, the word of a tree left blocked, and the limit on the casts that *)
(* run at once.                                                            *)

(* Who awaits whom, as its process, its view and the circle have it.       *)
WaitTypes ==
    /\ awaits \in [Cast -> SUBSET Cast]
    /\ heard \in [Cast -> SUBSET Cast]
    /\ onChildren \in [Cast -> SUBSET Cast]
    /\ ended \subseteq Cast \X Cast

(* A cast stands where it was asked from or in a tree already made.        *)
PlaceTypes ==
    /\ proc \in [Cast -> Proc]
    /\ cwd \in [Cast -> {Root} \cup pool]
    /\ parked \subseteq pool
    /\ dirty \subseteq pool

OtherTypes ==
    /\ blocked \in [Cast -> Roots]
    /\ asked \subseteq Trees
    /\ purifying \in BOOLEAN
    /\ daemon \in {"up", "stopping", "down"}
    /\ drops \in Nat
    /\ withdrawals \in Nat
    /\ purifies \in Nat

MarkTypes == unread \in [Cast -> Nat] /\ mark \in [Cast -> Mark]

(* A cast prepares its tree, or was spawned to work in it, having one.     *)
HasItsTree ==
    \A c \in Cast : task[c] \in {"preparing", "spawned"} => leased[c] # Root

(* The inductive invariant.  That only trees already made are parked or    *)
(* dirty rests on casts standing in those alone, so on what is leased      *)
(* being of the pool.                                                      *)
TypeInv ==
    /\ LeaseInv
    /\ QueueInv
    /\ WaitTypes
    /\ PlaceTypes
    /\ OtherTypes
    /\ MarkTypes
    /\ HasItsTree

LEMMA TypeInvTypes == ASSUME CircleAssumption, TypeInv PROVE TypeOK
<1>1. {Root} \cup pool \subseteq Roots
  BY DEF TypeInv, LeaseInv, LeaseTypes, Roots
<1> QED BY <1>1 DEF TypeInv, TypeOK, LeaseInv, LeaseTypes, QueueInv, Places,
           WaitTypes, PlaceTypes, OtherTypes, MarkTypes

LEMMA TypeInvInit == ASSUME CircleAssumption, Init PROVE TypeInv
  BY LeaseInvInit, QueueInvInit
     DEF Init, TypeInv, WaitTypes, PlaceTypes, OtherTypes, MarkTypes, HasItsTree,
         Proc, Roots, Mark

-----------------------------------------------------------------------------

(* Starting what can start answers awaits of those there are.              *)
LEMMA StartWaits ==
    ASSUME CircleAssumption, NEW st, NEW rec, NEW ln, NEW tk,
           NEW oc \in [Cast -> SUBSET Cast], NEW hd \in [Cast -> SUBSET Cast],
           Start(st, rec, oc, ln, tk, hd)
    PROVE  /\ onChildren' \in [Cast -> SUBSET Cast]
           /\ heard' \in [Cast -> SUBSET Cast]
           /\ ended' \subseteq Cast \X Cast
<1>1. PICK replies \in SUBSET Due(st, rec, oc) :
        /\ onChildren' = Replied(oc, replies)
        /\ heard' = [c \in Cast |->
                        IF daemon = "up" /\ proc'[c] = "attached"
                        THEN hd[c] \cup {d \in Cast : <<c, d>> \in replies}
                        ELSE hd[c]]
        /\ ended' = Due(st, rec, oc) \ replies
  BY DEF Start
<1>2. Due(st, rec, oc) \subseteq Cast \X Cast
  BY DEF Due, CircleAssumption
<1>3. Replied(oc, replies) \in [Cast -> SUBSET Cast]
  BY DEF Replied
<1> QED BY <1>1, <1>2, <1>3

(* Starting what can start sends no task to prepare a tree or to spawn.    *)
LEMMA StartPreparing ==
    ASSUME HasItsTree, leased' = leased, task \in [Cast -> Task],
           NEW tk \in [Cast -> Task],
           \A c \in Cast : tk[c] \in {"preparing", "spawned"} =>
               task[c] \in {"preparing", "spawned"},
           NEW st, NEW rec, NEW oc, NEW ln, NEW hd,
           Start(st, rec, oc, ln, tk, hd)
    PROVE  HasItsTree'
<1>1. \A c \in Cast : task'[c] \in {tk[c], "launched"} BY StartTasks
<1> QED BY <1>1 DEF HasItsTree

(* Only a spawn and what comes of it touch the marks, and only a lost      *)
(* connection and its end what is yet to be read.                          *)
LEMMA MarkTypesStep ==
    ASSUME MarkTypes, [Next]_vars
    PROVE  MarkTypes'
<1> USE DEF MarkTypes, Mark
<1>1. CASE UNCHANGED <<unread, mark>> BY <1>1
<1>2. ASSUME NEW c \in Cast, TaskStep(c), ~UNCHANGED <<unread, mark>>
      PROVE  MarkTypes'
  <2>1. /\ mark' \in {mark, [mark EXCEPT ![c] = "none"],
                        [mark EXCEPT ![c] = "writing"], [mark EXCEPT ![c] = "written"]}
        /\ unread' \in {unread, [unread EXCEPT ![c] = @ + 1]}
    <3>1. CASE Begins(c) \/ Prepared(c)
      BY <3>1 DEF Begins, Prepared, Spawns
    <3>2. CASE Probed(c) BY <3>2 DEF Probed
    <3>3. CASE Ran(c) BY <3>3 DEF Ran
    <3>4. CASE Marks(c)
      <4>1. /\ mark' \in {[mark EXCEPT ![c] = "none"], [mark EXCEPT ![c] = "written"]}
            /\ \/ unread' = unread
               \/ unread' = [unread EXCEPT ![c] =
                                IF proc[c] = "attached" THEN @ + 1 ELSE @]
        BY <3>4 DEF Marks
      <4>2. unread' \in {unread, [unread EXCEPT ![c] = @ + 1]}
        <5>1. CASE proc[c] = "attached" BY <5>1, <4>1
        <5>2. CASE proc[c] # "attached" BY <5>2, <4>1
        <5> QED BY <5>1, <5>2
      <4> QED BY <4>1, <4>2
    <3>5. CASE \/ LeaseBegins(c) \/ Leases(c) \/ WaitsForTree(c) \/ LeaseFails(c)
               \/ PrepareFails(c) \/ Releases(c)
      BY <3>5, <1>2 DEF LeaseBegins, Leases, WaitsForTree, LeaseFails, PrepareFails,
                        Releases
    <3> QED BY <1>2, <3>1, <3>2, <3>3, <3>4, <3>5 DEF TaskStep
  <2> QED BY <2>1
<1>3. ASSUME NEW c \in Cast, CastStep(c) PROVE MarkTypes'
  <2>1. CASE Drops(c) BY <2>1 DEF Drops
  <2>2. CASE Noticed(c) BY <2>2 DEF Noticed
  <2>3. CASE ~Drops(c) /\ ~Noticed(c)
    BY <2>3, <1>3, <1>1
       DEF CastStep, Typed, SaysHello, AsksForTree, Exits, AwaitsChild, Withdraws,
           Hears, Ends, Reattaches
  <2> QED BY <2>1, <2>2, <2>3
<1>4. ASSUME NEW c \in Cast, Enqueue(c) PROVE MarkTypes'
  BY <1>4, <1>1 DEF Enqueue
<1>5. CASE Purify \/ PurifyBegins \/ Purified \/ CleanedByHand \/ UNCHANGED vars
  BY <1>5, <1>1 DEF Purify, PurifyBegins, Purified, CleanedByHand, vars
<1> QED BY <1>1, <1>2, <1>3, <1>4, <1>5 DEF Next

(* What is held is of the pool's trees.                                    *)
LEMMA HeldTrees ==
    ASSUME CircleAssumption, TypeInv
    PROVE  Held \subseteq Trees
<1>1. \A c \in Cast : cwd[c] \in Roots /\ leased[c] \in Roots
  BY DEF TypeInv, PlaceTypes, LeaseInv, LeaseTypes, Roots
<1>2. TreesOfRunning \subseteq Roots
  <2>1. \A c \in LeftLive(status) : c \in Cast
    BY DEF TypeInv, QueueInv, LeftLive
  <2> QED BY <1>1, <2>1 DEF TreesOfRunning
<1>3. {leased[c] : c \in needs} \subseteq Roots
  BY <1>1 DEF TypeInv, LeaseInv, LeaseTypes
<1>4. Roots \ {Root} \subseteq Trees
  BY DEF Roots
<1> QED BY <1>2, <1>3, <1>4 DEF Held

-----------------------------------------------------------------------------

(* What a cast's process does, and the handler that hears it.              *)
LEMMA CastStepTypes ==
    ASSUME CircleAssumption, TypeInv, NEW c \in Cast, CastStep(c)
    PROVE  TypeInv'
<1> USE DEF WaitTypes, PlaceTypes, Proc, Live
<1>m. MarkTypes'
  <2>1. [Next]_vars BY DEF Next
  <2> QED BY <2>1, MarkTypesStep DEF TypeInv
<1>0. /\ LeaseInv' /\ QueueInv' /\ MarkTypes' /\ leased' = leased
      /\ task \in [Cast -> Task]
      /\ WaitTypes /\ PlaceTypes /\ OtherTypes /\ HasItsTree
      /\ pool \subseteq Trees
  BY <1>m, CastStepKeeps, CastStepQueue
     DEF TypeInv, QueueInv, CastStep, Typed, SaysHello, AsksForTree, Exits,
         AwaitsChild, Withdraws, Hears, Ends, Drops, Noticed, Reattaches, leaseVars,
         LeaseInv, LeaseTypes
<1>1. CASE Typed(c)
  <2>1. WaitTypes' BY <1>0, <1>1 DEF Typed, queueVars
  <2>2. PlaceTypes' BY <1>0, <1>1 DEF Typed
  <2>3. OtherTypes' /\ HasItsTree'
    BY <1>0, <1>1 DEF Typed, leaseVars, queueVars, counters, OtherTypes,
                      HasItsTree
  <2> QED BY <1>0, <2>1, <2>2, <2>3 DEF TypeInv
<1>2. CASE SaysHello(c)
  <2>1. WaitTypes' BY <1>0, <1>2 DEF SaysHello, queueVars, viewVars
  <2>2. PlaceTypes' BY <1>0, <1>2 DEF SaysHello
  <2>3. OtherTypes' /\ HasItsTree'
    BY <1>0, <1>2 DEF SaysHello, leaseVars, queueVars, viewVars, counters,
                      OtherTypes, HasItsTree, Roots
  <2> QED BY <1>0, <2>1, <2>2, <2>3 DEF TypeInv
<1>3. CASE AsksForTree(c) \/ Exits(c) \/ \E child \in Cast : Hears(c, child)
  <2>1. UNCHANGED <<cwd, onChildren, blocked, queueVars, leaseVars, gitVars, counters,
                    daemon>>
    BY <1>3 DEF AsksForTree, Exits, Hears, viewVars
  <2>2. WaitTypes'
    BY <1>0, <1>3, <2>1 DEF AsksForTree, Exits, Hears, queueVars
  <2>3. PlaceTypes'
    BY <1>0, <1>3, <2>1 DEF AsksForTree, Exits, Hears, gitVars
  <2>4. OtherTypes' /\ HasItsTree'
    BY <1>0, <2>1 DEF leaseVars, queueVars, counters, OtherTypes, HasItsTree
  <2> QED BY <1>0, <2>2, <2>3, <2>4 DEF TypeInv
<1>4. ASSUME NEW child \in Cast, AwaitsChild(c, child) PROVE TypeInv'
  <2>1. /\ awaits' = [awaits EXCEPT ![c] = @ \cup {child}]
        /\ Start(status, record, [onChildren EXCEPT ![c] = @ \cup {child}],
                 line, task, heard)
        /\ UNCHANGED <<proc, cwd, blocked, leaseVars, gitVars, counters, daemon>>
    BY <1>4 DEF AwaitsChild
  <2>2. WaitTypes' BY <1>0, <2>1, StartWaits
  <2>3. HasItsTree' BY <1>0, <2>1, StartPreparing
  <2>4. PlaceTypes' BY <1>0, <2>1 DEF gitVars
  <2>5. OtherTypes' BY <1>0, <2>1 DEF OtherTypes, leaseVars, counters
  <2> QED BY <1>0, <2>2, <2>3, <2>4, <2>5 DEF TypeInv
<1>5. ASSUME NEW child \in Cast, Withdraws(c, child) PROVE TypeInv'
  <2>1. /\ awaits' = [awaits EXCEPT ![c] = @ \ {child}]
        /\ withdrawals' = withdrawals + 1
        /\ UNCHANGED <<proc, cwd, blocked, leaseVars, gitVars, drops, purifies,
                       daemon>>
    BY <1>5 DEF Withdraws
  <2>2. WaitTypes' /\ HasItsTree'
    <3>1. CASE UNCHANGED <<heard, onChildren, queueVars>>
      BY <3>1, <2>1, <1>0 DEF queueVars, HasItsTree
    <3>2. CASE ~UNCHANGED <<heard, onChildren, queueVars>>
      <4>1. Start(status, record, [onChildren EXCEPT ![c] = @ \ {child}],
                  line, task, [heard EXCEPT ![c] = @ \ {child}])
        BY <3>2, <1>5 DEF Withdraws
      <4>2. /\ [onChildren EXCEPT ![c] = @ \ {child}] \in [Cast -> SUBSET Cast]
            /\ [heard EXCEPT ![c] = @ \ {child}] \in [Cast -> SUBSET Cast]
        BY <1>0
      <4>3. WaitTypes' BY <1>0, <2>1, <4>1, <4>2, StartWaits
      <4>4. HasItsTree' BY <1>0, <4>1, StartPreparing
      <4> QED BY <4>3, <4>4
    <3> QED BY <3>1, <3>2
  <2>3. PlaceTypes' BY <1>0, <2>1 DEF gitVars
  <2>4. OtherTypes' BY <1>0, <2>1 DEF OtherTypes, leaseVars
  <2> QED BY <1>0, <2>2, <2>3, <2>4 DEF TypeInv
<1>6. CASE Ends(c)
  <2>1. /\ proc' = [proc EXCEPT ![c] = "leaving"]
        /\ \E st, rec : Start(st, rec, [onChildren EXCEPT ![c] = {}], line, task,
                              heard)
        /\ \/ UNCHANGED dirty
           \/ cwd[c] # Root /\ dirty' = dirty \cup {cwd[c]}
        /\ UNCHANGED <<cwd, awaits, blocked, leaseVars, pool, parked, counters,
                       daemon>>
    BY <1>6 DEF Ends, Goodbye
  <2>2. WaitTypes' BY <1>0, <2>1, StartWaits
  <2>3. HasItsTree' BY <1>0, <2>1, StartPreparing
  <2>4. PlaceTypes' BY <1>0, <2>1
  <2>5. OtherTypes' BY <1>0, <2>1 DEF OtherTypes, leaseVars, counters
  <2> QED BY <1>0, <2>2, <2>3, <2>4, <2>5 DEF TypeInv
<1>7. CASE Drops(c)
  <2>1. /\ proc' = [proc EXCEPT ![c] = "detached"]
        /\ heard' = [heard EXCEPT ![c] = {}]
        /\ drops' \in {drops, drops + 1}
        /\ UNCHANGED <<cwd, awaits, onChildren, ended, task, blocked, leaseVars,
                       gitVars, withdrawals, purifies, daemon>>
    BY <1>7 DEF Drops, viewVars, queueVars
  <2>2. WaitTypes' BY <1>0, <2>1
  <2>3. HasItsTree' BY <1>0, <2>1 DEF HasItsTree
  <2>4. PlaceTypes' BY <1>0, <2>1 DEF gitVars
  <2>5. OtherTypes' BY <1>0, <2>1 DEF OtherTypes, leaseVars
  <2> QED BY <1>0, <2>2, <2>3, <2>4, <2>5 DEF TypeInv
<1>8. CASE Reattaches(c)
  <2>1. /\ proc' = [proc EXCEPT ![c] = "attached"]
        /\ blocked' = [blocked EXCEPT ![c] = Root]
        /\ UNCHANGED <<cwd, awaits, leaseVars, gitVars, counters, daemon>>
    BY <1>8 DEF Reattaches
  <2>2. WaitTypes' /\ HasItsTree'
    <3>1. CASE awaits[c] = {}
      BY <3>1, <1>0, <1>8 DEF Reattaches, queueVars, HasItsTree
    <3>2. CASE awaits[c] # {}
      <4>1. \E st, rec : Start(st, rec, [onChildren EXCEPT ![c] = awaits[c]], line,
                              task, heard)
        BY <3>2, <1>8 DEF Reattaches
      <4>2. WaitTypes' BY <1>0, <2>1, <4>1, StartWaits
      <4>3. HasItsTree' BY <1>0, <4>1, StartPreparing
      <4> QED BY <4>2, <4>3
    <3> QED BY <3>1, <3>2
  <2>3. PlaceTypes' BY <1>0, <2>1 DEF gitVars
  <2>4. OtherTypes' BY <1>0, <2>1 DEF OtherTypes, leaseVars, counters, Roots
  <2> QED BY <1>0, <2>2, <2>3, <2>4 DEF TypeInv
<1>9. CASE Noticed(c)
  <2>1. /\ \E st, rec : Start(st, rec, [onChildren EXCEPT ![c] = {}], line, task,
                              heard)
        /\ UNCHANGED <<proc, cwd, awaits, blocked, leaseVars, gitVars, counters,
                       daemon>>
    BY <1>9 DEF Noticed, Goodbye
  <2>2. WaitTypes' BY <1>0, <2>1, StartWaits
  <2>3. HasItsTree' BY <1>0, <2>1, StartPreparing
  <2>4. PlaceTypes' BY <1>0, <2>1 DEF gitVars
  <2>5. OtherTypes' BY <1>0, <2>1 DEF OtherTypes, leaseVars, counters
  <2> QED BY <1>0, <2>2, <2>3, <2>4, <2>5 DEF TypeInv
<1> QED BY <1>1, <1>2, <1>3, <1>4, <1>5, <1>6, <1>7, <1>8, <1>9 DEF CastStep

(* The end of a task.                                                      *)
LEMMA FinishTypes ==
    ASSUME CircleAssumption, TypeInv, NEW c \in Cast,
           NEW bl \in [Cast -> Roots], Finish(c, bl), awaits' = awaits,
           \A d \in Cast \ {c} : leased'[d] = leased[d]
    PROVE  WaitTypes' /\ HasItsTree' /\ blocked' \in [Cast -> Roots]
<1> DEFINE tk == [task EXCEPT ![c] = "none"]
           oc == IF status[c] = "queued" THEN [onChildren EXCEPT ![c] = {}]
                 ELSE onChildren
<1>1. WaitTypes /\ HasItsTree /\ task \in [Cast -> Task]
  BY DEF TypeInv, QueueInv
<1>2. /\ \E st, rec : Start(st, rec, oc, line, tk, heard)
      /\ blocked' = bl
  BY DEF Finish
<1>3. tk \in [Cast -> Task] /\ oc \in [Cast -> SUBSET Cast]
  BY <1>1 DEF WaitTypes, Task
<1>4. \A d \in Cast : tk[d] = IF d = c THEN "none" ELSE task[d]
  BY <1>1
<1> HIDE DEF tk, oc
<1>5. WaitTypes' BY <1>1, <1>2, <1>3, StartWaits DEF WaitTypes
<1>6. \A d \in Cast : task'[d] \in {tk[d], "launched"}
  BY <1>2, <1>3, StartTasks
<1>7. HasItsTree' BY <1>1, <1>4, <1>6 DEF HasItsTree
<1> QED BY <1>2, <1>5, <1>7

(* Trees that hear it is over leave the word of every other as it was.     *)
LEMMA FreedTypes ==
    ASSUME TypeInv, NEW trees
    PROVE  Freed(trees) \in [Cast -> Roots]
  BY DEF TypeInv, OtherTypes, Freed, Roots

LEMMA TaskStepTypes ==
    ASSUME CircleAssumption, TypeInv, NEW c \in Cast, TaskStep(c)
    PROVE  TypeInv'
<1> USE DEF WaitTypes, PlaceTypes, Proc, Live, Task
<1>m. MarkTypes'
  <2>1. [Next]_vars BY DEF Next
  <2> QED BY <2>1, MarkTypesStep DEF TypeInv
<1>0. /\ LeaseInv' /\ QueueInv' /\ MarkTypes'
      /\ task \in [Cast -> Task]
      /\ WaitTypes /\ PlaceTypes /\ OtherTypes /\ HasItsTree
      /\ LeaseTypes /\ LeasedInPool
  BY <1>m, TaskStepKeeps, TaskStepQueue DEF TypeInv, QueueInv, LeaseInv
<1>1. CASE Begins(c)
  <2>1. /\ UNCHANGED <<awaits, heard, onChildren, ended, blocked, leased, asked,
                       purifying, gitVars, counters, daemon>>
        /\ task' \in {[task EXCEPT ![c] = "leasing"], [task EXCEPT ![c] = "probing"]}
    BY <1>1 DEF Begins, viewVars
  <2>2. PlaceTypes' BY <1>0, <1>1, <2>1 DEF Begins, Spawns, gitVars
  <2>3. WaitTypes' BY <1>0, <2>1
  <2>4. OtherTypes' BY <1>0, <2>1 DEF OtherTypes, counters
  <2>5. HasItsTree' BY <1>0, <2>1 DEF HasItsTree
  <2> QED BY <1>0, <2>2, <2>3, <2>4, <2>5 DEF TypeInv
<1>2. CASE Probed(c)
  <2>1. /\ proc' = [proc EXCEPT ![c] = "none"]
        /\ UNCHANGED <<cwd, awaits, leased, asked, purifying, gitVars, counters,
                       daemon>>
    BY <1>2 DEF Probed
  <2>2. PlaceTypes' BY <1>0, <2>1 DEF gitVars
  <2>3. WaitTypes' /\ HasItsTree' /\ blocked' \in [Cast -> Roots]
    <3>1. CASE proc[c] = "wantsTree"
      <4>1. UNCHANGED <<heard, onChildren, blocked, ended>>
            /\ task' = [task EXCEPT ![c] = "leasing"]
        BY <3>1, <1>2 DEF Probed, viewVars
      <4> QED BY <4>1, <2>1, <1>0 DEF HasItsTree, OtherTypes
    <3>2. CASE proc[c] # "wantsTree"
      <4>1. Finish(c, blocked) BY <3>2, <1>2 DEF Probed
      <4>2. blocked \in [Cast -> Roots] BY <1>0 DEF OtherTypes
      <4> HIDE DEF WaitTypes
      <4> QED BY <4>1, <4>2, <2>1, FinishTypes
    <3> QED BY <3>1, <3>2
  <2>4. OtherTypes' BY <1>0, <2>1, <2>3 DEF OtherTypes, counters
  <2> QED BY <1>0, <2>2, <2>3, <2>4 DEF TypeInv
<1>3. CASE LeaseBegins(c)
  <2>1. /\ asked' = Held
        /\ task' = [task EXCEPT ![c] = "asking"]
        /\ UNCHANGED <<procVars, heard, onChildren, ended, blocked, leased,
                       purifying, gitVars, counters, daemon>>
    BY <1>3 DEF LeaseBegins, viewVars, procVars
  <2>2. asked' \subseteq Trees BY <2>1, HeldTrees
  <2>3. PlaceTypes' BY <1>0, <2>1 DEF gitVars, procVars
  <2>4. WaitTypes' BY <1>0, <2>1 DEF procVars
  <2>5. OtherTypes' BY <1>0, <2>1, <2>2 DEF OtherTypes, counters
  <2>6. HasItsTree' BY <1>0, <2>1 DEF HasItsTree
  <2> QED BY <1>0, <2>3, <2>4, <2>5, <2>6 DEF TypeInv
<1>4. CASE Leases(c)
  <2>1. /\ leased' = [leased EXCEPT ![c] = Found]
        /\ pool' = pool \cup {Found}
        /\ parked' = parked \cup {Found}
        /\ blocked' = Freed({Found})
        /\ asked' = {}
        /\ task' = [task EXCEPT ![c] = "preparing"]
        /\ UNCHANGED <<procVars, heard, onChildren, ended, purifying, dirty, counters,
                       daemon>>
        /\ ~Full
    BY <1>4 DEF Leases, procVars
  <2>2. Found \in Trees BY <1>0, <2>1, FoundIsFree DEF LeaseTypes
  <2>3. Found # Root BY <2>2 DEF Trees, Root, CircleAssumption
  <2>4. PlaceTypes' BY <1>0, <2>1 DEF procVars
  <2>5. WaitTypes' BY <1>0, <2>1 DEF procVars
  <2>6. blocked' \in [Cast -> Roots] BY <2>1, FreedTypes
  <2>7. OtherTypes' BY <1>0, <2>1, <2>6 DEF OtherTypes, counters
  <2>8. HasItsTree' BY <1>0, <2>1, <2>3 DEF HasItsTree, LeaseTypes
  <2> QED BY <1>0, <2>4, <2>5, <2>7, <2>8 DEF TypeInv
<1>5. CASE WaitsForTree(c) \/ LeaseFails(c)
  <2>1. /\ asked' = {}
        /\ task' \in {[task EXCEPT ![c] = "none"], [task EXCEPT ![c] = "failing"]}
        /\ UNCHANGED <<procVars, heard, onChildren, ended, blocked, leased,
                       purifying, gitVars, counters, daemon>>
    BY <1>5 DEF WaitsForTree, LeaseFails, viewVars, procVars
  <2>2. PlaceTypes' BY <1>0, <2>1 DEF gitVars, procVars
  <2>3. WaitTypes' BY <1>0, <2>1 DEF procVars
  <2>4. OtherTypes' BY <1>0, <2>1 DEF OtherTypes, counters
  <2>5. HasItsTree' BY <1>0, <2>1 DEF HasItsTree
  <2> QED BY <1>0, <2>2, <2>3, <2>4, <2>5 DEF TypeInv
<1>6. CASE Prepared(c)
  <2>1. /\ task[c] = "preparing"
        /\ Spawns(c, leased[c])
        /\ task' = [task EXCEPT ![c] = "spawned"]
        /\ UNCHANGED <<awaits, heard, onChildren, ended, blocked, leaseVars, gitVars,
                       counters, daemon>>
    BY <1>6 DEF Prepared, viewVars
  <2>2. leased[c] \in {Root} \cup pool BY <1>0 DEF LeasedInPool
  <2>3. PlaceTypes' BY <1>0, <2>1, <2>2 DEF Spawns, gitVars
  <2>4. WaitTypes' BY <1>0, <2>1
  <2>5. OtherTypes' BY <1>0, <2>1 DEF OtherTypes, leaseVars, counters
  <2>6. HasItsTree' BY <1>0, <2>1 DEF HasItsTree, leaseVars
  <2> QED BY <1>0, <2>3, <2>4, <2>5, <2>6 DEF TypeInv
<1>7. CASE PrepareFails(c)
  <2>1. /\ task[c] = "preparing"
        /\ dirty' \in {dirty, dirty \cup {leased[c]}}
        /\ task' = [task EXCEPT ![c] = "failing"]
        /\ UNCHANGED <<procVars, heard, onChildren, ended, blocked, leased, asked,
                       purifying, pool, parked, counters, daemon>>
    BY <1>7 DEF PrepareFails, viewVars, procVars
  <2>2. leased[c] \in pool BY <1>0, <2>1 DEF LeasedInPool, HasItsTree
  <2>3. PlaceTypes' BY <1>0, <2>1, <2>2 DEF procVars
  <2>4. WaitTypes' BY <1>0, <2>1 DEF procVars
  <2>5. OtherTypes' BY <1>0, <2>1 DEF OtherTypes, counters
  <2>6. HasItsTree' BY <1>0, <2>1 DEF HasItsTree
  <2> QED BY <1>0, <2>3, <2>4, <2>5, <2>6 DEF TypeInv
<1>8. CASE Ran(c)
  <2>1. /\ proc' = [proc EXCEPT ![c] = "none"]
        /\ task' = [task EXCEPT ![c] = "releasing"]
        /\ UNCHANGED <<cwd, awaits, heard, onChildren, ended, blocked, leased, asked,
                       purifying, gitVars, counters, daemon>>
    BY <1>8 DEF Ran, viewVars
  <2>2. PlaceTypes' BY <1>0, <2>1 DEF gitVars
  <2>3. WaitTypes' BY <1>0, <2>1
  <2>4. OtherTypes' BY <1>0, <2>1 DEF OtherTypes, counters
  <2>5. HasItsTree' BY <1>0, <2>1 DEF HasItsTree
  <2> QED BY <1>0, <2>2, <2>3, <2>4, <2>5 DEF TypeInv
<1>9. CASE Releases(c)
  <2> DEFINE tree == leased[c]
             bl == IF tree # Root /\ tree \notin dirty THEN Freed({tree})
                   ELSE IF tree # Root /\ task[c] = "releasing"
                   THEN [blocked EXCEPT ![c] = tree] ELSE blocked
  <2>1. /\ leased' = [leased EXCEPT ![c] = Root]
        /\ parked' = IF tree # Root /\ tree \notin dirty THEN parked \cup {tree}
                     ELSE parked
        /\ Finish(c, bl)
        /\ UNCHANGED <<proc, cwd, awaits, asked, purifying, pool, dirty, counters,
                       daemon>>
    BY <1>9 DEF Releases
  <2>2. tree \in Roots /\ (tree # Root => tree \in pool)
    BY <1>0 DEF LeaseTypes, LeasedInPool
  <2>3. bl \in [Cast -> Roots] BY <1>0, <2>2, FreedTypes DEF OtherTypes
  <2> HIDE DEF bl
  <2>4. WaitTypes' /\ HasItsTree' /\ blocked' \in [Cast -> Roots]
    <3>1. \A d \in Cast \ {c} : leased'[d] = leased[d]
      BY <1>0, <2>1 DEF LeaseTypes
    <3>2. Finish(c, bl) /\ awaits' = awaits BY <2>1
    <3> HIDE DEF WaitTypes, PlaceTypes
    <3> QED BY <2>3, <3>1, <3>2, FinishTypes
  <2>5. PlaceTypes' BY <1>0, <2>1, <2>2
  <2>6. OtherTypes' BY <1>0, <2>1, <2>4 DEF OtherTypes, counters
  <2> QED BY <1>0, <2>4, <2>5, <2>6 DEF TypeInv
<1>10. CASE Marks(c)
  <2>1. /\ proc' \in {proc, [proc EXCEPT ![c] = "exited"]}
        /\ awaits' \in {awaits, [awaits EXCEPT ![c] = {}]}
        /\ heard' \in {heard, [heard EXCEPT ![c] = {}]}
        /\ UNCHANGED <<cwd, onChildren, ended, task, blocked, leaseVars, gitVars,
                       counters, daemon>>
    BY <1>10 DEF Marks, viewVars, queueVars
  <2>2. PlaceTypes' BY <1>0, <2>1 DEF gitVars
  <2>3. WaitTypes' BY <1>0, <2>1
  <2>4. OtherTypes' BY <1>0, <2>1 DEF OtherTypes, leaseVars, counters
  <2>5. HasItsTree' BY <1>0, <2>1 DEF HasItsTree, leaseVars
  <2> QED BY <1>0, <2>2, <2>3, <2>4, <2>5 DEF TypeInv
<1> QED BY <1>1, <1>2, <1>3, <1>4, <1>5, <1>6, <1>7, <1>8, <1>9, <1>10 DEF TaskStep

LEMMA TypeInvStep ==
    ASSUME CircleAssumption, TypeInv, [Next]_vars
    PROVE  TypeInv'
<1> USE DEF WaitTypes, PlaceTypes
<1>0. /\ LeaseInv' /\ QueueInv' /\ MarkTypes'
      /\ WaitTypes /\ PlaceTypes /\ OtherTypes /\ HasItsTree
      /\ task \in [Cast -> Task]
  BY LeaseInvStep, QueueInvStep, MarkTypesStep DEF TypeInv, QueueInv
<1>1. ASSUME NEW c \in Cast, Enqueue(c) PROVE TypeInv'
  <2>1. /\ \E st, rec, ln : Start(st, rec, onChildren, ln, task, heard)
        /\ UNCHANGED <<proc, cwd, awaits, blocked, leaseVars, gitVars, counters,
                       daemon>>
    BY <1>1 DEF Enqueue
  <2>2. WaitTypes' BY <1>0, <2>1, StartWaits
  <2>3. HasItsTree' BY <1>0, <2>1, StartPreparing DEF leaseVars
  <2>4. PlaceTypes' BY <1>0, <2>1 DEF gitVars
  <2>5. OtherTypes' BY <1>0, <2>1 DEF OtherTypes, leaseVars, counters
  <2> QED BY <1>0, <2>2, <2>3, <2>4, <2>5 DEF TypeInv
<1>2. ASSUME NEW c \in Cast, TaskStep(c) PROVE TypeInv'
  BY <1>2, TaskStepTypes
<1>3. ASSUME NEW c \in Cast, CastStep(c) PROVE TypeInv'
  BY <1>3, CastStepTypes
<1>4. CASE Purify \/ PurifyBegins \/ UNCHANGED vars
  <2>1. /\ purifies' \in {purifies, purifies + 1}
        /\ purifying' \in {purifying, TRUE}
        /\ asked' \in {asked, Held}
        /\ UNCHANGED <<procVars, viewVars, queueVars, leased, gitVars, drops,
                       withdrawals, daemon>>
    BY <1>4 DEF Purify, PurifyBegins, vars, leaseVars, counters
  <2>2. asked' \subseteq Trees BY <1>0, <2>1, HeldTrees DEF OtherTypes
  <2>3. WaitTypes' BY <1>0, <2>1 DEF procVars, viewVars, queueVars
  <2>4. PlaceTypes' BY <1>0, <2>1 DEF procVars, gitVars
  <2>5. OtherTypes'
    <3>1. purifying' \in BOOLEAN BY <1>0, <2>1 DEF OtherTypes
    <3>2. purifies' \in Nat BY <1>0, <2>1 DEF OtherTypes
    <3> QED BY <1>0, <2>1, <2>2, <3>1, <3>2 DEF OtherTypes, viewVars
  <2>6. HasItsTree' BY <1>0, <2>1 DEF HasItsTree, queueVars
  <2> QED BY <1>0, <2>3, <2>4, <2>5, <2>6 DEF TypeInv
<1>5. CASE Purified \/ CleanedByHand
  <2>1. /\ \E cleaned \in SUBSET pool : /\ dirty' = dirty \ cleaned
                                       /\ parked' \in {parked, parked \cup cleaned}
        /\ (blocked' = blocked \/ \E trees : blocked' = Freed(trees))
        /\ asked' \in {asked, {}}
        /\ purifying' \in {purifying, FALSE}
        /\ UNCHANGED <<procVars, onChildren, queueVars, leased, pool, counters,
                       daemon>>
    <3>1. CASE Purified BY <3>1 DEF Purified
    <3>2. CASE CleanedByHand
      <4>1. PICK t \in dirty : dirty' = dirty \ {t}
        BY <3>2 DEF CleanedByHand
      <4>2. {t} \in SUBSET pool BY <4>1, <1>0
      <4>3. UNCHANGED <<procVars, viewVars, queueVars, leaseVars, pool, parked,
                        counters, daemon>>
        BY <3>2 DEF CleanedByHand
      <4> QED BY <4>1, <4>2, <4>3 DEF viewVars, leaseVars
    <3> QED BY <1>5, <3>1, <3>2
  <2>2. WaitTypes' BY <1>0, <2>1 DEF procVars, queueVars
  <2>3. PlaceTypes' BY <1>0, <2>1 DEF procVars
  <2>4. blocked' \in [Cast -> Roots] BY <1>0, <2>1, FreedTypes DEF OtherTypes
  <2>5. OtherTypes' BY <1>0, <2>1, <2>4 DEF OtherTypes, counters
  <2>6. HasItsTree' BY <1>0, <2>1 DEF HasItsTree, queueVars
  <2> QED BY <1>0, <2>2, <2>3, <2>5, <2>6 DEF TypeInv
<1> QED BY <1>1, <1>2, <1>3, <1>4, <1>5 DEF Next

(* Every variable keeps its type, and no tree is parked or dirty that was  *)
(* never made.                                                             *)
THEOREM TypeCorrect == Spec => []TypeOK
<1>1. Init => TypeInv BY TypeInvInit, CircleAssumption
<1>2. TypeInv /\ [Next]_vars => TypeInv' BY TypeInvStep, CircleAssumption
<1>3. TypeInv => TypeOK BY TypeInvTypes, CircleAssumption
<1> QED BY <1>1, <1>2, <1>3, PTL DEF Spec

-----------------------------------------------------------------------------
(* The word of a blocked tree.                                             *)

(* A step that takes the word of some trees back, and leases none.         *)
LEMMA WordKept ==
    ASSUME BlockedNotLeased, leased' = leased, needs \subseteq Cast, needs' \subseteq Cast,
           \A c \in Cast : leased[c] # Root => c \in needs,
           \A c \in Cast : blocked'[c] \in {blocked[c], Root}
    PROVE  BlockedNotLeased'
  BY DEF BlockedNotLeased

(* What Freed takes back.                                                  *)
LEMMA FreedWord ==
    ASSUME TypeInv, NEW trees, NEW c \in Cast
    PROVE  /\ Freed(trees)[c] \in {blocked[c], Root}
           /\ Freed(trees)[c] \in trees => Freed(trees)[c] = Root
  BY DEF Freed

LEMMA BlockedStep ==
    ASSUME CircleAssumption, TypeInv, TypeInv', BlockedNotLeased, [Next]_vars
    PROVE  BlockedNotLeased'
<1>0. /\ needs \subseteq Cast /\ needs' \subseteq Cast
      /\ leased \in [Cast -> Roots]
      /\ blocked \in [Cast -> Roots]
      /\ \A c \in Cast : leased[c] # Root => c \in needs
  BY DEF TypeInv, LeaseInv, LeaseTypes, LeasedInPool, OtherTypes
<1>1. CASE leased' = leased /\ \A c \in Cast : blocked'[c] \in {blocked[c], Root}
  BY <1>0, <1>1, WordKept
<1>2. ASSUME NEW c \in Cast, Leases(c) PROVE BlockedNotLeased'
  <2>1. /\ leased' = [leased EXCEPT ![c] = Found]
        /\ blocked' = Freed({Found})
        /\ needs' = needs
    BY <1>2 DEF Leases
  <2>2. \A d \in Cast : /\ blocked'[d] \in {blocked[d], Root}
                        /\ blocked'[d] = Found => blocked'[d] = Root
    BY <2>1, FreedWord
  <2> QED BY <2>1, <2>2, <1>0 DEF BlockedNotLeased
<1>3. ASSUME NEW c \in Cast, Releases(c) PROVE BlockedNotLeased'
  <2>1. /\ leased' = [leased EXCEPT ![c] = Root]
        /\ needs' = needs \ {c}
        /\ \/ \E trees : blocked' = Freed(trees)
           \/ leased[c] # Root /\ blocked' = [blocked EXCEPT ![c] = leased[c]]
           \/ blocked' = blocked
    BY <1>3 DEF Releases, Finish
  <2>2. CASE \A d \in Cast : blocked'[d] \in {blocked[d], Root}
    BY <2>1, <2>2, <1>0 DEF BlockedNotLeased
  <2>3. CASE leased[c] # Root /\ blocked' = [blocked EXCEPT ![c] = leased[c]]
    <3>1. \A d \in needs' : d # c /\ leased'[d] = leased[d] /\ leased[d] # leased[c]
      BY <2>1, <2>3, <1>0 DEF TypeInv, LeaseInv, LeasedOnce
    <3> QED BY <2>3, <3>1, <1>0 DEF BlockedNotLeased
  <2> QED BY <2>1, <2>2, <2>3, FreedWord
<1>4. ASSUME NEW c \in Cast, Enqueue(c) PROVE BlockedNotLeased'
  BY <1>4, <1>1 DEF Enqueue, leaseVars
<1>5. ASSUME NEW c \in Cast, CastStep(c) PROVE BlockedNotLeased'
  <2>1. leased' = leased
    BY <1>5 DEF CastStep, Typed, SaysHello, AsksForTree, Exits, AwaitsChild,
                Withdraws, Hears, Ends, Drops, Noticed, Reattaches, leaseVars
  <2>2. blocked' = blocked \/ blocked' = [blocked EXCEPT ![c] = Root]
    BY <1>5 DEF CastStep, Typed, SaysHello, AsksForTree, Exits, AwaitsChild,
                Withdraws, Hears, Ends, Drops, Noticed, Reattaches, viewVars
  <2> QED BY <2>1, <2>2, <1>0, <1>1
<1>6. ASSUME NEW c \in Cast, TaskStep(c), ~Leases(c), ~Releases(c)
      PROVE  BlockedNotLeased'
  <2>1. leased' = leased /\ blocked' = blocked
    BY <1>6 DEF TaskStep, Begins, Probed, LeaseBegins, WaitsForTree, LeaseFails,
                Prepared, Marks, PrepareFails, Ran, Finish, viewVars, leaseVars
  <2> QED BY <2>1, <1>1
<1>7. CASE Purify \/ PurifyBegins \/ Purified \/ CleanedByHand \/ UNCHANGED vars
  <2>1. /\ leased' = leased
        /\ blocked' = blocked \/ \E trees : blocked' = Freed(trees)
    BY <1>7 DEF Purify, PurifyBegins, Purified, CleanedByHand, vars, viewVars,
                leaseVars
  <2> QED BY <2>1, <1>1, FreedWord
<1> QED BY <1>2, <1>3, <1>4, <1>5, <1>6, <1>7 DEF Next

(* A tree some window shows blocked is not in use, however it was cleaned. *)
THEOREM BlockedNotLeasedCorrect == Spec => []BlockedNotLeased
<1>1. Init => TypeInv /\ BlockedNotLeased
  BY TypeInvInit, CircleAssumption DEF Init, BlockedNotLeased
<1>2. TypeInv /\ [Next]_vars => TypeInv' BY TypeInvStep, CircleAssumption
<1>3. TypeInv /\ TypeInv' /\ BlockedNotLeased /\ [Next]_vars => BlockedNotLeased'
  BY BlockedStep, CircleAssumption
<1> QED BY <1>1, <1>2, <1>3, PTL DEF Spec

-----------------------------------------------------------------------------
(* Spawns: from the queue to the process.                                  *)

(* A step of the circle leaves the daemon as it is, and only a cast nobody *)
(* typed becomes queued by it.                                             *)
LEMMA NextRecords ==
    ASSUME CircleAssumption, record \in [Cast -> Status], [Next]_vars
    PROVE  /\ daemon' = daemon
           /\ \A d \in Cast : record'[d] = "queued" => record[d] = "queued" \/ d \notin Hand
<1> DEFINE Fine ==
      /\ daemon' = daemon
      /\ \A d \in Cast : record'[d] = "queued" => record[d] = "queued" \/ d \notin Hand
<1>1. ASSUME NEW c \in Cast, Enqueue(c) PROVE Fine
  BY <1>1 DEF Enqueue
<1>2. ASSUME NEW c \in Cast, TaskStep(c) PROVE Fine
  <2>1. ASSUME NEW bl, Finish(c, bl), daemon' = daemon PROVE Fine
    BY <2>1 DEF Finish
  <2>2. CASE Probed(c) \/ Releases(c)
    BY <2>1, <2>2 DEF Probed, Releases, viewVars
  <2>3. CASE ~(Probed(c) \/ Releases(c))
    BY <1>2, <2>3 DEF TaskStep, Begins, LeaseBegins, Leases, WaitsForTree,
       LeaseFails, Prepared, Marks, PrepareFails, Ran, viewVars
  <2> QED BY <2>2, <2>3
<1>3. ASSUME NEW c \in Cast, CastStep(c) PROVE Fine
  <2>1. ASSUME NEW e \in {"ended", "disconnected"}, NEW hd,
               Goodbye(c, e, task, hd), daemon' = daemon
        PROVE  Fine
    BY <2>1 DEF Goodbye
  <2>2. CASE Ends(c) \/ Noticed(c)
    BY <2>1, <2>2 DEF Ends, Noticed
  <2>3. CASE \/ Typed(c) \/ SaysHello(c) \/ AsksForTree(c) \/ Exits(c)
             \/ Drops(c) \/ Reattaches(c)
    BY <2>3 DEF Typed, SaysHello, AsksForTree, Exits, Drops, Reattaches, viewVars
  <2>4. ASSUME NEW child \in Cast,
               AwaitsChild(c, child) \/ Withdraws(c, child) \/ Hears(c, child)
        PROVE  Fine
    BY <2>4 DEF AwaitsChild, Withdraws, Hears, viewVars
  <2> QED BY <1>3, <2>2, <2>3, <2>4 DEF CastStep
<1>4. CASE Purify \/ PurifyBegins \/ Purified \/ CleanedByHand \/ UNCHANGED vars
  BY <1>4 DEF Purify, PurifyBegins, Purified, CleanedByHand, vars, viewVars
<1> QED BY <1>1, <1>2, <1>3, <1>4 DEF Next

(* On its way to a spawn: in the queue, or its task not yet at its spawn.  *)
ToSpawn(ln, tk, c) ==
    ln[c] # 0 \/ tk[c] \in {"launched", "leasing", "asking", "preparing"}

(* What no daemon sees of the processes, the next one reads off the marks. *)
DownIsMarked ==
    daemon = "down" => \A c \in Cast :
        /\ status[c] = "unheard"
        /\ proc[c] \in Live => c \in left \/ mark[c] = "none"

(* Alive without a mark: possible only where `stray` says so, which is     *)
(* once a daemon may have gone between a spawn and its mark.               *)
Stray(stray, c) == stray /\ mark[c] = "none"

(* The inductive invariant, with QueueInv.  SpawnedOnce rests on a cast on *)
(* its way to a spawn having no process alive: when it is queued nothing   *)
(* of it was ever heard of, and when it is queued again it is not one of   *)
(* those the marks say are alive.                                          *)
SpawnInv(stray) ==
    /\ proc \in [Cast -> Proc]
    /\ mark \in [Cast -> Mark]
    /\ \A c \in Cast : ToSpawn(line, task, c) => proc[c] \notin Live \/ Stray(stray, c)
    /\ \A c \in Cast : record[c] = "unheard" => proc[c] \notin Live
    /\ DownIsMarked

(* What SpawnedOnce says of a step.                                        *)
SpawnsTheDead(stray) ==
    \A c \in Cast : Spawned(c) => proc[c] \notin Live \/ Stray(stray, c)

(* Starting what can start sends nobody to a spawn who was not on the way. *)
LEMMA StartSpawns ==
    ASSUME NEW stray, NEW ln, NEW tk, Started(ln, tk),
           proc' \in [Cast -> Proc], mark' \in [Cast -> Mark], DownIsMarked',
           \A c \in Cast : ToSpawn(ln, tk, c) =>
               proc'[c] \notin Live \/ (stray /\ mark'[c] = "none"),
           \A c \in Cast : record'[c] = "unheard" => proc'[c] \notin Live,
           \A c \in Cast : tk[c] # task[c] /\ tk[c] \in {"probing", "spawned"}
               => proc[c] \notin Live \/ Stray(stray, c)
    PROVE  SpawnInv(stray)' /\ SpawnsTheDead(stray)
<1>1. \A c \in Cast : ToSpawn(line', task', c) => ToSpawn(ln, tk, c)
  BY DEF Started, ToSpawn
<1>2. SpawnsTheDead(stray) BY DEF Started, SpawnsTheDead, Spawned
<1> QED BY <1>1, <1>2 DEF SpawnInv, Stray

(* A step at which no process begins, and that but starts what can start.  *)
LEMMA SpawnQuiet ==
    ASSUME NEW stray, SpawnInv(stray), Started(line, task),
           proc' \in [Cast -> Proc], mark' = mark, DownIsMarked',
           \A c \in Cast : proc'[c] \in Live => proc[c] \in Live,
           \A c \in Cast : record'[c] = "unheard" => record[c] = "unheard"
    PROVE  SpawnInv(stray)' /\ SpawnsTheDead(stray)
<1>1. /\ \A c \in Cast : ToSpawn(line, task, c) =>
            proc'[c] \notin Live \/ (stray /\ mark'[c] = "none")
      /\ \A c \in Cast : record'[c] = "unheard" => proc'[c] \notin Live
      /\ mark' \in [Cast -> Mark]
  BY DEF SpawnInv, Stray
<1> QED BY <1>1, StartSpawns

LEMMA CastStepSpawn ==
    ASSUME CircleAssumption, NEW stray, QueueInv, SpawnInv(stray), DownIsMarked',
           NEW c \in Cast, CastStep(c)
    PROVE  SpawnInv(stray)' /\ SpawnsTheDead(stray)
<1> USE DEF Live, Proc, Status
<1>0. /\ task \in [Cast -> Task]
      /\ record \in [Cast -> Status]
      /\ proc \in [Cast -> Proc]
      /\ line \in [Cast -> Nat]
  BY DEF QueueInv, Places, SpawnInv
<1>1. ASSUME UNCHANGED queueVars PROVE Started(line, task)
  BY <1>0, <1>1 DEF queueVars, Started
<1>2. ASSUME NEW st, NEW rec, NEW oc, NEW hd, Start(st, rec, oc, line, task, hd)
      PROVE  Started(line, task)
  BY <1>0, <1>2, StartLine
<1>3. CASE Typed(c)
  <2>1. /\ record[c] = "unheard"
        /\ proc' = [proc EXCEPT ![c] = "attached"]
        /\ record' = [record EXCEPT ![c] = "running"]
        /\ UNCHANGED <<queueVars, mark>>
    BY <1>3 DEF Typed
  <2>2. line[c] = 0 /\ task[c] = "none"
    BY <2>1 DEF QueueInv, InLineIdle, TaskOfQueued
  <2>3. /\ proc' \in [Cast -> Proc]
        /\ \A d \in Cast : ToSpawn(line, task, d) =>
              proc'[d] \notin Live \/ (stray /\ mark'[d] = "none")
        /\ \A d \in Cast : record'[d] = "unheard" => proc'[d] \notin Live
        /\ mark' \in [Cast -> Mark]
    BY <2>1, <2>2, <1>0 DEF SpawnInv, Stray, ToSpawn
  <2> QED BY <2>1, <2>3, <1>1, StartSpawns
<1>4. CASE SaysHello(c) \/ AsksForTree(c) \/ Exits(c)
  <2>1. /\ UNCHANGED <<queueVars, mark>>
        /\ proc' \in [Cast -> Proc]
        /\ \A d \in Cast : proc'[d] \in Live => proc[d] \in Live
        /\ \A d \in Cast : record'[d] = "unheard" => record[d] = "unheard"
    BY <1>4, <1>0 DEF SaysHello, AsksForTree, Exits, viewVars
  <2> QED BY <2>1, <1>1, SpawnQuiet
<1>5. ASSUME NEW child \in Cast,
             AwaitsChild(c, child) \/ Withdraws(c, child) \/ Hears(c, child)
      PROVE  SpawnInv(stray)' /\ SpawnsTheDead(stray)
  <2>1. proc' = proc /\ record' = record /\ mark' = mark
    BY <1>5 DEF AwaitsChild, Withdraws, Hears, viewVars
  <2>2. \/ UNCHANGED queueVars
        \/ \E st, rec, oc, hd : Start(st, rec, oc, line, task, hd)
    BY <1>5 DEF AwaitsChild, Withdraws, Hears
  <2> QED BY <2>1, <2>2, <1>0, <1>1, <1>2, SpawnQuiet
<1>6. CASE Ends(c) \/ Drops(c) \/ Noticed(c) \/ Reattaches(c)
  <2>1. ASSUME NEW e, NEW hd, Goodbye(c, e, task, hd)
        PROVE  /\ record' = [record EXCEPT ![c] = e]
               /\ \E st, rec, oc : Start(st, rec, oc, line, task, hd)
    BY <2>1 DEF Goodbye
  <2>2. \/ \E e \in {"ended", "disconnected", "running"} :
              record' = [record EXCEPT ![c] = e]
        \/ record' = record
    BY <1>6, <2>1 DEF Ends, Drops, Noticed, Reattaches, viewVars
  <2>3. \/ UNCHANGED queueVars
        \/ \E st, rec, oc, hd : Start(st, rec, oc, line, task, hd)
    BY <1>6, <2>1 DEF Ends, Drops, Noticed, Reattaches, viewVars
  <2>4. /\ proc' \in [Cast -> Proc] /\ mark' = mark
        /\ \A d \in Cast : proc'[d] \in Live => proc[d] \in Live
    BY <1>6, <1>0 DEF Ends, Drops, Noticed, Reattaches
  <2>5. \A d \in Cast : record'[d] = "unheard" => record[d] = "unheard"
    BY <2>2, <1>0
  <2>6. Started(line, task) BY <2>3, <1>1, <1>2
  <2> QED BY <2>4, <2>5, <2>6, SpawnQuiet
<1> QED BY <1>3, <1>4, <1>5, <1>6 DEF CastStep

LEMMA TaskStepSpawn ==
    ASSUME CircleAssumption, NEW stray, QueueInv, SpawnInv(stray), DownIsMarked',
           NEW c \in Cast, TaskStep(c)
    PROVE  SpawnInv(stray)' /\ SpawnsTheDead(stray)
<1> USE DEF Live, Proc, Mark, Task, ToSpawn, Stray
<1>0. /\ task \in [Cast -> Task]
      /\ record \in [Cast -> Status]
      /\ proc \in [Cast -> Proc]
      /\ line \in [Cast -> Nat]
      /\ task[c] # "none" => record[c] # "unheard" /\ line[c] = 0
      /\ mark \in [Cast -> Mark]
      /\ ToSpawn(line, task, c) => proc[c] \notin Live \/ Stray(stray, c)
      /\ \A d \in Cast \ {c} :
            /\ ToSpawn(line, task, d) => proc[d] \notin Live \/ Stray(stray, d)
            /\ record[d] = "unheard" => proc[d] \notin Live
  BY DEF QueueInv, Places, SpawnInv, TaskOfQueued, InLineIdle
<1>1. ASSUME NEW next \in Task \ {"launched"}, line' = line, record' = record,
             task' = [task EXCEPT ![c] = next], task[c] # "none",
             \E p \in Proc : proc' = [proc EXCEPT ![c] = p],
             \E m \in Mark : mark' = [mark EXCEPT ![c] = m],
             next \in {"probing", "spawned"} => ToSpawn(line, task, c),
             next \in {"leasing", "asking", "preparing"} =>
                 proc'[c] \notin Live \/ (stray /\ mark'[c] = "none")
      PROVE  SpawnInv(stray)' /\ SpawnsTheDead(stray)
  <2> DEFINE tk == [task EXCEPT ![c] = next]
  <2>1. Started(line, tk) BY <1>1, <1>0 DEF Started
  <2>2. /\ proc' \in [Cast -> Proc] /\ mark' \in [Cast -> Mark]
        /\ \A d \in Cast \ {c} :
              proc'[d] = proc[d] /\ tk[d] = task[d] /\ mark'[d] = mark[d]
        /\ tk[c] = next
    BY <1>1, <1>0
  <2> HIDE DEF tk
  <2>3. \A d \in Cast : ToSpawn(line, tk, d) =>
            proc'[d] \notin Live \/ (stray /\ mark'[d] = "none")
    BY <2>2, <1>1, <1>0
  <2>4. \A d \in Cast : record'[d] = "unheard" => proc'[d] \notin Live
    BY <2>2, <1>1, <1>0
  <2>5. \A d \in Cast : tk[d] # task[d] /\ tk[d] \in {"probing", "spawned"}
            => proc[d] \notin Live \/ Stray(stray, d)
    BY <2>2, <1>1, <1>0
  <2> QED BY <2>1, <2>2, <2>3, <2>4, <2>5, StartSpawns
<1>2. ASSUME NEW bl, Finish(c, bl), task[c] # "none",
             \E p \in Proc : proc' = [proc EXCEPT ![c] = p],
             \E m \in Mark : mark' = [mark EXCEPT ![c] = m]
      PROVE  SpawnInv(stray)' /\ SpawnsTheDead(stray)
  <2> DEFINE tk == [task EXCEPT ![c] = "none"]
  <2>1. /\ \E st, rec, oc : Start(st, rec, oc, line, tk, heard)
        /\ record' \in {record, [record EXCEPT ![c] = "ended"]}
    BY <1>2 DEF Finish
  <2>2. tk \in [Cast -> Task] BY <1>0
  <2>3. /\ proc' \in [Cast -> Proc] /\ mark' \in [Cast -> Mark]
        /\ \A d \in Cast \ {c} : /\ proc'[d] = proc[d] /\ mark'[d] = mark[d]
                                 /\ tk[d] = task[d] /\ record'[d] = record[d]
        /\ tk[c] = "none" /\ record'[c] # "unheard" /\ line[c] = 0
    BY <1>2, <2>1, <1>0
  <2> HIDE DEF tk
  <2>4. Started(line, tk) BY <2>1, <2>2, StartLine
  <2>5. \A d \in Cast : ToSpawn(line, tk, d) =>
            proc'[d] \notin Live \/ (stray /\ mark'[d] = "none")
    BY <2>3, <1>0
  <2>6. \A d \in Cast : record'[d] = "unheard" => proc'[d] \notin Live
    BY <2>3, <1>0
  <2>7. \A d \in Cast : tk[d] # task[d] /\ tk[d] \in {"probing", "spawned"}
            => proc[d] \notin Live \/ Stray(stray, d)
    BY <2>3
  <2> QED BY <2>3, <2>4, <2>5, <2>6, <2>7, StartSpawns
<1>3. /\ proc = [proc EXCEPT ![c] = proc[c]] /\ proc[c] \in Proc
      /\ mark = [mark EXCEPT ![c] = mark[c]] /\ mark[c] \in Mark
  BY <1>0
<1>4. ASSUME NEW dir, Spawns(c, dir)
      PROVE  /\ \E p \in Proc : proc' = [proc EXCEPT ![c] = p]
             /\ \E m \in Mark : mark' = [mark EXCEPT ![c] = m]
  BY <1>4 DEF Spawns
<1>5. CASE Begins(c)
  BY <1>5, <1>0, <1>1, <1>3, <1>4 DEF Begins, viewVars
<1>6. CASE Probed(c)
  <2>1. /\ proc' = [proc EXCEPT ![c] = "none"] /\ task[c] = "probing"
        /\ mark' = [mark EXCEPT ![c] = "none"]
    BY <1>6 DEF Probed
  <2>2. CASE proc[c] = "wantsTree"
    BY <2>1, <2>2, <1>6, <1>0, <1>1 DEF Probed, viewVars
  <2>3. CASE proc[c] # "wantsTree"
    BY <2>1, <2>3, <1>6, <1>2 DEF Probed
  <2> QED BY <2>2, <2>3
<1>7. CASE LeaseBegins(c)
  BY <1>7, <1>0, <1>1, <1>3 DEF LeaseBegins, viewVars, procVars
<1>8. CASE Leases(c)
  BY <1>8, <1>0, <1>1, <1>3 DEF Leases, procVars
<1>9. CASE WaitsForTree(c)
  <2>1. /\ task[c] = "asking"
        /\ task' = [task EXCEPT ![c] = "none"]
        /\ line' = AtTheFront(line, c)
        /\ UNCHANGED <<proc, record, mark>>
    BY <1>9 DEF WaitsForTree, viewVars, procVars
  <2>2. \A d \in Cast : line'[d] # 0 => line[d] # 0 \/ d = c
    BY <2>1, <1>0 DEF AtTheFront
  <2>3. \A d \in Cast : ToSpawn(line', task', d) => ToSpawn(line, task, d)
    BY <2>1, <2>2, <1>0
  <2>4. SpawnsTheDead(stray) BY <2>1, <1>0 DEF SpawnsTheDead, Spawned
  <2> QED BY <2>1, <2>3, <2>4 DEF SpawnInv
<1>10. CASE LeaseFails(c)
  BY <1>10, <1>0, <1>1, <1>3 DEF LeaseFails, viewVars, procVars
<1>11. CASE Prepared(c)
  BY <1>11, <1>0, <1>1, <1>4 DEF Prepared, viewVars
<1>12. CASE PrepareFails(c)
  BY <1>12, <1>0, <1>1, <1>3 DEF PrepareFails, viewVars, procVars
<1>13. CASE Ran(c)
  BY <1>13, <1>0, <1>1 DEF Ran, viewVars
<1>14. CASE Releases(c)
  BY <1>14, <1>2, <1>3 DEF Releases
<1>15. CASE Marks(c)
  <2>1. /\ task[c] \in {"probing", "spawned"}
        /\ UNCHANGED <<line, task, record>>
        /\ proc' = proc \/ proc' = [proc EXCEPT ![c] = "exited"]
        /\ \E m \in Mark : mark' = [mark EXCEPT ![c] = m]
    BY <1>15 DEF Marks, viewVars, queueVars
  <2>2. /\ proc' \in [Cast -> Proc] /\ mark' \in [Cast -> Mark]
        /\ \A d \in Cast : proc'[d] \in Live => proc[d] \in Live
        /\ \A d \in Cast \ {c} : mark'[d] = mark[d]
    BY <2>1, <1>0
  <2>3. SpawnsTheDead(stray) BY <2>1 DEF SpawnsTheDead, Spawned
  <2>4. line[c] = 0 BY <2>1, <1>0
  <2>5. \A d \in Cast : ToSpawn(line', task', d) =>
            proc'[d] \notin Live \/ (stray /\ mark'[d] = "none")
    BY <2>1, <2>2, <2>4, <1>0
  <2>6. \A d \in Cast : record'[d] = "unheard" => proc'[d] \notin Live
    BY <2>1, <2>2 DEF SpawnInv
  <2> QED BY <2>2, <2>3, <2>5, <2>6 DEF SpawnInv
<1> QED BY <1>5, <1>6, <1>7, <1>8, <1>9, <1>10, <1>11, <1>12, <1>13, <1>14, <1>15
        DEF TaskStep

LEMMA NextSpawn ==
    ASSUME CircleAssumption, NEW stray, QueueInv, SpawnInv(stray), DownIsMarked',
           [Next]_vars
    PROVE  SpawnInv(stray)' /\ SpawnsTheDead(stray)
<1>0. /\ task \in [Cast -> Task]
      /\ line \in [Cast -> Nat]
      /\ proc \in [Cast -> Proc] /\ mark \in [Cast -> Mark]
      /\ record \in [Cast -> Status]
  BY DEF QueueInv, Places, SpawnInv
<1>1. ASSUME NEW c \in Cast, Enqueue(c)
      PROVE  SpawnInv(stray)' /\ SpawnsTheDead(stray)
  <2> DEFINE ln == Appended(line, c)
  <2>1. /\ record[c] = "unheard"
        /\ record' = [record EXCEPT ![c] = "queued"]
        /\ proc' = proc /\ mark' = mark
        /\ \E st : Start(st, record', onChildren, ln, task, heard)
    BY <1>1 DEF Enqueue
  <2>2. \A d \in Cast : ToSpawn(ln, task, d) =>
            proc'[d] \notin Live \/ (stray /\ mark'[d] = "none")
    BY <2>1, <1>0 DEF SpawnInv, Stray, ToSpawn, Appended
  <2>3. \A d \in Cast : record'[d] = "unheard" => proc'[d] \notin Live
    BY <2>1, <1>0 DEF SpawnInv
  <2> HIDE DEF ln
  <2>4. Started(ln, task) BY <2>1, <1>0, StartLine
  <2> QED BY <2>1, <2>2, <2>3, <2>4, <1>0, StartSpawns
<1>2. ASSUME NEW c \in Cast, TaskStep(c)
      PROVE  SpawnInv(stray)' /\ SpawnsTheDead(stray)
  BY <1>2, TaskStepSpawn
<1>3. ASSUME NEW c \in Cast, CastStep(c)
      PROVE  SpawnInv(stray)' /\ SpawnsTheDead(stray)
  BY <1>3, CastStepSpawn
<1>4. CASE Purify \/ PurifyBegins \/ Purified \/ CleanedByHand \/ UNCHANGED vars
  <2>1. UNCHANGED <<proc, mark, record, line, task>>
    BY <1>4 DEF Purify, PurifyBegins, Purified, CleanedByHand, procVars,
                viewVars, queueVars, vars
  <2> QED BY <2>1 DEF SpawnInv, SpawnsTheDead, Spawned, Stray
<1> QED BY <1>1, <1>2, <1>3, <1>4 DEF Next

(* While one daemon serves, nobody on the way to a spawn is alive.         *)
LEMMA UpSpawn ==
    ASSUME CircleAssumption, QueueInv, SpawnInv(FALSE), daemon = "up", [Next]_vars
    PROVE  SpawnInv(FALSE)' /\ SpawnsTheDead(FALSE) /\ daemon' = "up"
<1>1. daemon' = "up" BY NextRecords DEF QueueInv
<1>2. DownIsMarked' BY <1>1 DEF DownIsMarked
<1> QED BY <1>1, <1>2, NextSpawn

LEMMA SpawnInvInit == ASSUME Init, NEW stray PROVE SpawnInv(stray)
  BY DEF Init, SpawnInv, Stray, ToSpawn, DownIsMarked, Proc, Live, Mark

-----------------------------------------------------------------------------
(* How many casts run.                                                     *)

(* One more than a set and another hold is at most as many as both.        *)
LEMMA UnionNumber ==
    ASSUME NEW A, NEW B, NEW C, IsFiniteSet(A), IsFiniteSet(B), C \subseteq A \cup B
    PROVE  /\ Cardinality(C) \in Nat
           /\ Cardinality(C) <= Cardinality(A) + Cardinality(B)
<1>1. /\ IsFiniteSet(A \cup B)
      /\ Cardinality(A \cup B)
            = Cardinality(A) + Cardinality(B) - Cardinality(A \cap B)
  BY FS_Union
<1>2. Cardinality(A \cap B) \in Nat /\ IsFiniteSet(A \cap B)
  BY FS_Intersection, FS_CardinalityType
<1>3. /\ IsFiniteSet(C) /\ Cardinality(C) \in Nat
      /\ Cardinality(C) <= Cardinality(A \cup B)
  BY <1>1, FS_Subset, FS_CardinalityType
<1>4. Cardinality(A) \in Nat /\ Cardinality(B) \in Nat
  BY FS_CardinalityType
<1> QED BY <1>1, <1>2, <1>3, <1>4

(* The casts Circle._busy counts: its own, and those left behind.          *)
Counted(st, oc, tk) ==
    {c \in Cast : /\ st[c] # "unheard"
                  /\ oc[c] = {}
                  /\ st[c] = "running" \/ tk[c] # "none"}
    \cup LeftLive(st)

LEMMA BusyCounts ==
    ASSUME CircleAssumption, left \subseteq Cast, NEW st, NEW oc, NEW tk
    PROVE  /\ IsFiniteSet(Counted(st, oc, tk))
           /\ Cardinality(Counted(st, oc, tk)) \in Nat
           /\ Busy(st, oc, tk) \in Nat
           /\ Cardinality(Counted(st, oc, tk)) <= Busy(st, oc, tk)
<1> DEFINE own == {c \in Cast : /\ st[c] # "unheard"
                                /\ oc[c] = {}
                                /\ st[c] = "running" \/ tk[c] # "none"}
<1>1. own \in SUBSET Cast /\ LeftLive(st) \in SUBSET Cast
  BY DEF LeftLive
<1>2. /\ Busy(st, oc, tk) = Cardinality(own) + Cardinality(LeftLive(st))
      /\ Counted(st, oc, tk) = own \cup LeftLive(st)
  BY DEF Busy, Counted
<1> HIDE DEF own
<1>3. IsFiniteSet(own) /\ IsFiniteSet(LeftLive(st))
  BY <1>1, FS_Subset DEF CircleAssumption
<1>4. /\ Cardinality(Counted(st, oc, tk)) \in Nat
      /\ Cardinality(Counted(st, oc, tk)) <= Cardinality(own) + Cardinality(LeftLive(st))
      /\ IsFiniteSet(Counted(st, oc, tk))
  BY <1>2, <1>3, UnionNumber, FS_Union
<1> QED BY <1>2, <1>3, <1>4, FS_CardinalityType

(* No more are launched than there are free slots.                         *)
LEMMA LaunchedNumber ==
    ASSUME CircleAssumption, NEW st, NEW ln, Places(ln), NEW free \in Int
    PROVE  /\ IsFiniteSet(Launched(st, ln, free))
           /\ Cardinality(Launched(st, ln, free)) \in Nat
           /\ Launched(st, ln, free) # {} =>
                 free > 0 /\ Cardinality(Launched(st, ln, free)) <= free
<1> DEFINE starting == Launched(st, ln, free)
           before(e) == {f \in Queued(st, ln) : ln[f] < ln[e]}
<1>1. /\ starting \in SUBSET Cast
      /\ starting \subseteq Queued(st, ln)
      /\ Queued(st, ln) \in SUBSET Cast
      /\ \A e \in Queued(st, ln) : ln[e] \in Nat
      /\ \A e, f \in Queued(st, ln) : ln[e] = ln[f] => e = f
  BY DEF Launched, Queued, InLine, Places
<1>2. \A e \in starting : Cardinality(before(e)) < free
  BY DEF Launched
<1>3. \A e \in starting : /\ IsFiniteSet(before(e))
                          /\ Cardinality(before(e)) \in Nat
  <2>1. IsFiniteSet(Queued(st, ln)) BY <1>1, FS_Subset DEF CircleAssumption
  <2>2. \A e \in starting : before(e) \in SUBSET Queued(st, ln) OBVIOUS
  <2> HIDE DEF before, starting
  <2> QED BY <2>1, <2>2, FS_Subset, FS_CardinalityType
<1>4. IsFiniteSet(starting) /\ Cardinality(starting) \in Nat
  <2> HIDE DEF starting
  <2> QED BY <1>1, FS_Subset, FS_CardinalityType DEF CircleAssumption
<1>5. ASSUME NEW e \in starting, NEW f \in starting, ln[e] < ln[f]
      PROVE  Cardinality(before(e)) < Cardinality(before(f))
  <2>1. e \in before(f) /\ e \notin before(e) /\ before(e) \subseteq before(f)
    BY <1>1, <1>5
  <2>2. IsFiniteSet(before(f)) /\ IsFiniteSet(before(e))
        /\ Cardinality(before(e)) \in Nat /\ Cardinality(before(f)) \in Nat
    BY <1>3
  <2> HIDE DEF before
  <2>3. before(e) \in SUBSET before(f) /\ before(e) # before(f)
    BY <2>1
  <2> QED BY <2>2, <2>3, FS_Subset
<1>6. CASE starting = {} BY <1>4, <1>6
<1>7. CASE starting # {}
  <2>1. free \in Nat /\ free > 0
    <3>1. PICK e \in starting : TRUE BY <1>7
    <3> HIDE DEF before, starting
    <3> QED BY <3>1, <1>2, <1>3
  <2> DEFINE rank == [e \in starting |-> Cardinality(before(e))]
  <2>2. \A e \in starting : Cardinality(before(e)) \in 0..(free - 1)
    <3> HIDE DEF before, starting
    <3> QED BY <2>1, <1>2, <1>3
  <2>3. ASSUME NEW e \in starting, NEW f \in starting,
               Cardinality(before(e)) = Cardinality(before(f))
        PROVE  e = f
    <3>1. ln[e] \in Nat /\ ln[f] \in Nat BY <1>1
    <3> HIDE DEF before, starting
    <3>2. ~(ln[e] < ln[f]) /\ ~(ln[f] < ln[e]) BY <1>3, <1>5, <2>3
    <3> QED BY <3>1, <3>2, <1>1
  <2>4. rank \in Injection(starting, 0..(free - 1))
    <3> HIDE DEF before, starting
    <3> QED BY <2>2, <2>3 DEF Injection, IsInjective
  <2>5. IsFiniteSet(0..(free - 1)) /\ Cardinality(0..(free - 1)) = free
    <3>1. 0 \in Int /\ free - 1 \in Int BY <2>1
    <3>2. /\ IsFiniteSet(0..(free - 1))
          /\ Cardinality(0..(free - 1))
                = IF 0 > free - 1 THEN 0 ELSE (free - 1) - 0 + 1
      BY <3>1, FS_Interval
    <3> QED BY <2>1, <3>2
  <2>6. Cardinality(starting) <= Cardinality(0..(free - 1))
    <3> HIDE DEF rank, starting
    <3> QED BY <2>4, <2>5, FS_Injection
  <2> HIDE DEF starting
  <2>7. free > 0 /\ Cardinality(starting) <= free BY <1>4, <2>1, <2>5, <2>6
  <2> QED BY <1>4, <2>7 DEF starting
<1> HIDE DEF before
<1> QED BY <1>6, <1>7

(* Starting what can start, if it launches or answers anyone, leaves no    *)
(* more of them at work than the limit.                                    *)
LEMMA StartWithinLimit ==
    ASSUME CircleAssumption, left \subseteq Cast, NEW st, NEW rec, NEW oc,
           NEW ln, Places(ln), NEW tk, NEW hd, Start(st, rec, oc, ln, tk, hd),
           \/ \E c \in Cast : task'[c] # tk[c]
           \/ \E c \in Cast : heard'[c] \ hd[c] # {}
    PROVE  Cardinality(Counted(st, onChildren', task')) <= Processes
<1>1. PICK replies :
        LET answered == Replied(oc, replies)
            free == Processes - Busy(st, answered, tk)
            starting == Launched(st, ln, free)
        IN /\ Delivers(st, oc, tk, Due(st, rec, oc), replies)
           /\ onChildren' = answered
           /\ heard' = [c \in Cast |->
                           IF daemon = "up" /\ proc'[c] = "attached"
                           THEN hd[c] \cup {d \in Cast : <<c, d>> \in replies}
                           ELSE hd[c]]
           /\ task' = [c \in Cast |-> IF c \in starting THEN "launched" ELSE tk[c]]
  BY DEF Start
<1> DEFINE answered == Replied(oc, replies)
           counted == Counted(st, answered, tk)
           free == Processes - Busy(st, answered, tk)
           starting == Launched(st, ln, free)
           after == Counted(st, onChildren', task')
<1>2. /\ IsFiniteSet(counted) /\ Cardinality(counted) \in Nat
      /\ Busy(st, answered, tk) \in Nat
      /\ Cardinality(counted) <= Busy(st, answered, tk)
      /\ Processes \in Nat
  BY BusyCounts DEF CircleAssumption
<1>3. free \in Int /\ free <= Processes - Cardinality(counted)
  BY <1>2
<1>4. /\ IsFiniteSet(starting) /\ Cardinality(starting) \in Nat
      /\ starting # {} => free > 0 /\ Cardinality(starting) <= free
  <2> HIDE DEF free
  <2> QED BY <1>3, LaunchedNumber
<1>5. after \subseteq counted \cup starting
  BY <1>1 DEF Counted
<1>6. /\ Cardinality(after) \in Nat
      /\ Cardinality(after) <= Cardinality(counted) + Cardinality(starting)
  <2> HIDE DEF after, counted, starting
  <2> QED BY <1>2, <1>4, <1>5, UnionNumber
<1>7. CASE starting # {}
  <2> HIDE DEF after, counted, starting, free
  <2>1. Cardinality(after) <= Processes BY <1>2, <1>3, <1>4, <1>6, <1>7
  <2> QED BY <2>1 DEF after
<1>8. CASE starting = {}
  <2>1. \A c \in Cast : task'[c] = tk[c] BY <1>1, <1>8
  <2>2. replies # {} BY <1>1, <2>1
  <2> DEFINE taken == Unparked(st, oc, tk, replies)
             before == Counted(st, oc, tk)
  <2>3. /\ Processes - Busy(st, oc, tk) > 0
        /\ Cardinality(taken) <= Processes - Busy(st, oc, tk)
    BY <1>1, <2>2 DEF Delivers
  <2>4. /\ IsFiniteSet(before) /\ Cardinality(before) \in Nat
        /\ Busy(st, oc, tk) \in Nat /\ Cardinality(before) <= Busy(st, oc, tk)
    BY BusyCounts
  <2>5. IsFiniteSet(taken) /\ Cardinality(taken) \in Nat
    BY FS_Subset, FS_CardinalityType DEF Unparked, CircleAssumption
  <2>6. after \subseteq before \cup taken
    BY <1>1, <2>1 DEF Counted, Unparked
  <2>7. /\ Cardinality(after) \in Nat
        /\ Cardinality(after) <= Cardinality(before) + Cardinality(taken)
    <3> HIDE DEF after, before, taken
    <3> QED BY <2>4, <2>5, <2>6, UnionNumber
  <2> HIDE DEF after, before, taken
  <2>8. Cardinality(after) <= Processes BY <1>2, <2>3, <2>4, <2>5, <2>7
  <2> QED BY <2>8 DEF after
<1> HIDE DEF counted, free, starting
<1> QED BY <1>7, <1>8

-----------------------------------------------------------------------------
(* The casts in a slot are those counted.                                  *)

(* What the count rests on, for each cast: one attached has a view that    *)
(* runs, or was closed, and that holds of its waits those not answered;    *)
(* one not heard from is under its task, or was left behind, or has no     *)
(* mark; and the hub has a view of all it queues, runs and reads.          *)
SlotOf(c) ==
    /\ proc[c] = "attached" =>
          /\ status[c] \in {"running", "disconnected"}
          /\ heard[c] \subseteq awaits[c]
          /\ onChildren[c] \subseteq awaits[c] \ heard[c]
    /\ proc[c] # "attached" => heard[c] = {}
    /\ proc[c] \in {"silent", "detached"} =>
          \/ status[c] \in {"running", "disconnected"}
          \/ task[c] \in {"probing", "spawned"}
          \/ c \in left /\ status[c] = "unheard"
          \/ mark[c] = "none"
    /\ line[c] # 0 \/ task[c] # "none" \/ unread[c] # 0 => status[c] # "unheard"
    /\ record[c] = "unheard" => onChildren[c] = {}

SlotInv == \A c \in Cast : SlotOf(c)

(* What StartsWithinLimit says of a step.                                  *)
WithinLimit ==
    (\E c \in Cast : Starting(c)) \/ Answering => Cardinality(InASlot') <= Processes

(* What this section needs of the other invariants.                        *)
SlotTypes ==
    /\ proc \in [Cast -> Proc] /\ mark \in [Cast -> Mark]
    /\ unread \in [Cast -> Nat]
    /\ status \in [Cast -> Status] /\ record \in [Cast -> Status]
    /\ awaits \in [Cast -> SUBSET Cast]
    /\ heard \in [Cast -> SUBSET Cast]
    /\ onChildren \in [Cast -> SUBSET Cast]
    /\ task \in [Cast -> Task] /\ left \subseteq Cast
    /\ Places(line) /\ line \in [Cast -> Nat]
    /\ \A c \in Cast : line[c] # 0 => task[c] = "none" /\ record[c] # "unheard"
    /\ \A c \in Cast : task[c] # "none" => record[c] # "unheard"
    /\ \A c \in Cast : record[c] = "unheard" => proc[c] \notin Live

LEMMA TypeInvSlot ==
    ASSUME CircleAssumption, TypeInv, NEW stray, SpawnInv(stray) PROVE SlotTypes
  BY DEF TypeInv, PlaceTypes, QueueInv, WaitTypes, InLineIdle, TaskOfQueued,
         MarkTypes, SlotTypes, Places, SpawnInv

LEMMA InASlotCounted ==
    ASSUME SlotInv', left' = left,
           \A c \in Cast : proc'[c] \in Live => proc[c] \in Live
    PROVE  InASlot' \subseteq Counted(status', onChildren', task')
<1> SUFFICES ASSUME NEW c \in Cast, c \in InASlot'
             PROVE  c \in Counted(status', onChildren', task')
  BY DEF InASlot
<1>1. CASE task'[c] # "none" /\ onChildren'[c] = {}
  BY <1>1 DEF SlotInv, SlotOf, Counted
<1>2. CASE AtWork(c)' /\ ~Overlooked(c)'
  <2>1. CASE proc'[c] = "attached"
    <3>1. status'[c] = "running" BY <1>2, <2>1 DEF SlotInv, SlotOf, Overlooked
    <3>2. onChildren'[c] = {} BY <1>2, <2>1 DEF SlotInv, SlotOf, AtWork
    <3> QED BY <3>1, <3>2 DEF Counted
  <2>2. CASE proc'[c] # "attached"
    <3>1. /\ proc'[c] \in {"silent", "detached"}
          /\ onChildren'[c] = {}
          /\ status'[c] # "disconnected"
          /\ mark'[c] = "none" => status'[c] = "running"
      BY <1>2, <2>2 DEF AtWork, Overlooked
    <3>2. CASE status'[c] = "running" BY <3>1, <3>2 DEF Counted
    <3>3. CASE task'[c] \in {"probing", "spawned"}
      BY <3>1, <3>3 DEF Counted, SlotInv, SlotOf
    <3>4. CASE c \in left /\ status'[c] = "unheard"
      BY <3>1, <3>4 DEF Counted, LeftLive, Live
    <3> QED BY <3>1, <3>2, <3>3, <3>4 DEF SlotInv, SlotOf
  <2> QED BY <2>1, <2>2
<1> QED BY <1>1, <1>2 DEF InASlot

(* A step that starts what can start, of a queue, tasks and messages that  *)
(* hide no start and no answer.                                            *)
LEMMA SlotStart ==
    ASSUME CircleAssumption, left \subseteq Cast, left' = left, SlotInv',
           \A c \in Cast : proc'[c] \in Live => proc[c] \in Live,
           NEW rec, NEW oc, NEW ln, Places(ln), NEW tk, NEW hd,
           Start(status', rec, oc, ln, tk, hd),
           \A c \in Cast : task[c] = "none" => tk[c] = "none",
           \A c \in Cast : hd[c] \subseteq heard[c]
    PROVE  WithinLimit
<1>1. SUFFICES ASSUME (\E c \in Cast : Starting(c)) \/ Answering
               PROVE  Cardinality(InASlot') <= Processes
  BY DEF WithinLimit
<1>2. \/ \E c \in Cast : task'[c] # tk[c]
      \/ \E c \in Cast : heard'[c] \ hd[c] # {}
  BY <1>1 DEF Starting, Answering
<1>3. Cardinality(Counted(status', onChildren', task')) <= Processes
  BY <1>2, StartWithinLimit
<1>4. IsFiniteSet(Counted(status', onChildren', task'))
  BY BusyCounts
<1>5. InASlot' \in SUBSET Counted(status', onChildren', task')
  BY InASlotCounted
<1>6. /\ Cardinality(InASlot') <= Cardinality(Counted(status', onChildren', task'))
      /\ Cardinality(InASlot') \in Nat
      /\ Cardinality(Counted(status', onChildren', task')) \in Nat
  <2> DEFINE slot == InASlot'
             counted == Counted(status', onChildren', task')
  <2>1. IsFiniteSet(counted) /\ slot \in SUBSET counted BY <1>4, <1>5
  <2> HIDE DEF slot, counted
  <2>2. /\ Cardinality(slot) <= Cardinality(counted)
        /\ Cardinality(slot) \in Nat /\ Cardinality(counted) \in Nat
    BY <2>1, FS_Subset, FS_CardinalityType
  <2> QED BY <2>2 DEF slot, counted
<1>7. Processes \in Nat BY DEF CircleAssumption
<1> QED BY <1>3, <1>6, <1>7

(* A step that launches nothing and answers nobody.                        *)
LEMMA SlotQuiet ==
    ASSUME \A c \in Cast : task[c] = "none" => task'[c] # "launched",
           \A c \in Cast : heard'[c] \subseteq heard[c]
    PROVE  WithinLimit
  BY DEF WithinLimit, Starting, Answering

LEMMA SlotInvInit == ASSUME CircleAssumption, Init PROVE SlotInv
  BY DEF Init, SlotInv, SlotOf

(* What starting what can start does to the waits.                         *)
LEMMA StartAnswered ==
    ASSUME NEW st, NEW rec, NEW oc, NEW ln, NEW tk, NEW hd,
           Start(st, rec, oc, ln, tk, hd), NEW c \in Cast
    PROVE  /\ onChildren'[c] \subseteq oc[c]
           /\ proc'[c] # "attached" => heard'[c] = hd[c]
           /\ heard'[c] \subseteq hd[c] \cup (oc[c] \ onChildren'[c])
<1>1. PICK replies \in SUBSET Due(st, rec, oc) :
        /\ onChildren' = Replied(oc, replies)
        /\ heard' = [d \in Cast |-> IF daemon = "up" /\ proc'[d] = "attached"
                           THEN hd[d] \cup {e \in Cast : <<d, e>> \in replies}
                           ELSE hd[d]]
  BY DEF Start
<1>2. \A d \in Cast : <<c, d>> \in replies => d \in oc[c]
  BY <1>1 DEF Due
<1>3. onChildren'[c] = oc[c] \ {d \in Cast : <<c, d>> \in replies}
  BY <1>1 DEF Replied
<1>4. heard'[c] = IF daemon = "up" /\ proc'[c] = "attached"
                  THEN hd[c] \cup {e \in Cast : <<c, e>> \in replies} ELSE hd[c]
  BY <1>1
<1> QED BY <1>2, <1>3, <1>4

(* One cast moves, with what it awaits, and what can start is started.     *)
LEMMA SlotKept ==
    ASSUME SlotTypes, SlotInv, left' = left, NEW c \in Cast,
           NEW tk \in [Cast -> Task], NEW ln, NEW rec, NEW oc, NEW hd,
           Start(status', rec, oc, ln, tk, hd),
           \A d \in Cast \ {c} :
               /\ proc'[d] = proc[d] /\ awaits'[d] = awaits[d]
               /\ status'[d] = status[d] /\ record'[d] = record[d]
               /\ mark'[d] = mark[d] /\ unread'[d] = unread[d]
               /\ oc[d] = onChildren[d] /\ hd[d] = heard[d] /\ tk[d] = task[d]
               /\ ln[d] # 0 => line[d] # 0,
           proc'[c] = "attached" =>
               /\ status'[c] \in {"running", "disconnected"}
               /\ hd[c] \subseteq awaits'[c]
               /\ oc[c] \subseteq awaits'[c] \ hd[c],
           proc'[c] # "attached" => hd[c] = {},
           proc'[c] \in {"silent", "detached"} =>
               \/ status'[c] \in {"running", "disconnected"}
               \/ tk[c] \in {"probing", "spawned"} /\ ln[c] = 0
               \/ c \in left /\ status'[c] = "unheard"
               \/ mark'[c] = "none",
           ln[c] # 0 \/ tk[c] # "none" \/ unread'[c] # 0 => status'[c] # "unheard",
           record'[c] = "unheard" => oc[c] = {}
    PROVE  SlotInv'
<1>1. Started(ln, tk) BY StartLine
<1>2. ASSUME NEW d \in Cast
      PROVE  /\ proc'[d] = "attached" =>
                  /\ status'[d] \in {"running", "disconnected"}
                  /\ hd[d] \subseteq awaits'[d]
                  /\ oc[d] \subseteq awaits'[d] \ hd[d]
             /\ proc'[d] # "attached" => hd[d] = {}
             /\ record'[d] = "unheard" => oc[d] = {}
             /\ ln[d] # 0 \/ tk[d] # "none" \/ unread'[d] # 0 => status'[d] # "unheard"
  BY DEF SlotInv, SlotOf
<1>3. ASSUME NEW d \in Cast, proc'[d] \in {"silent", "detached"}
      PROVE  \/ status'[d] \in {"running", "disconnected"}
             \/ tk[d] \in {"probing", "spawned"} /\ ln[d] = 0
             \/ d \in left /\ status'[d] = "unheard"
             \/ mark'[d] = "none"
  BY <1>3 DEF SlotInv, SlotOf, SlotTypes
<1>4. ASSUME NEW d \in Cast
      PROVE  /\ onChildren'[d] \subseteq oc[d]
             /\ proc'[d] # "attached" => heard'[d] = hd[d]
             /\ heard'[d] \subseteq hd[d] \cup (oc[d] \ onChildren'[d])
  BY StartAnswered
<1>5. ASSUME NEW d \in Cast PROVE SlotOf(d)'
  <2>1. /\ tk[d] \in {"probing", "spawned"} /\ ln[d] = 0 =>
              task'[d] \in {"probing", "spawned"}
        /\ line'[d] # 0 \/ task'[d] # "none" => ln[d] # 0 \/ tk[d] # "none"
    BY <1>1 DEF Started
  <2>2. proc'[d] = "attached" => /\ heard'[d] \subseteq awaits'[d]
                                 /\ onChildren'[d] \subseteq awaits'[d] \ heard'[d]
    <3>1. CASE proc'[d] = "attached"
      <4>1. /\ hd[d] \subseteq awaits'[d]
            /\ oc[d] \subseteq awaits'[d] \ hd[d]
            /\ onChildren'[d] \subseteq oc[d]
            /\ heard'[d] \subseteq hd[d] \cup (oc[d] \ onChildren'[d])
        BY <1>2, <1>4, <3>1
      <4> QED BY <4>1
    <3> QED BY <3>1
  <2>3. /\ proc'[d] # "attached" => heard'[d] = {}
        /\ record'[d] = "unheard" => onChildren'[d] = {}
    BY <1>2, <1>4
  <2>4. line'[d] # 0 \/ task'[d] # "none" \/ unread'[d] # 0 => status'[d] # "unheard"
    BY <1>2, <2>1
  <2>5. proc'[d] = "attached" => status'[d] \in {"running", "disconnected"}
    BY <1>2
  <2> QED BY <1>3, <2>1, <2>2, <2>3, <2>4, <2>5 DEF SlotOf
<1> QED BY <1>5 DEF SlotInv

(* One cast moves, and nothing starts.                                     *)
LEMMA SlotSame ==
    ASSUME SlotInv, left' = left, NEW c \in Cast, SlotOf(c)',
           \A d \in Cast \ {c} :
               /\ proc'[d] = proc[d] /\ awaits'[d] = awaits[d]
               /\ status'[d] = status[d] /\ record'[d] = record[d]
               /\ mark'[d] = mark[d] /\ unread'[d] = unread[d]
               /\ onChildren'[d] = onChildren[d] /\ heard'[d] = heard[d]
               /\ task'[d] = task[d]
               /\ line'[d] # 0 => line[d] # 0
    PROVE  SlotInv'
<1> SUFFICES ASSUME NEW d \in Cast, d # c PROVE SlotOf(d)'
  BY DEF SlotInv
<1> QED BY DEF SlotInv, SlotOf

LEMMA CastStepSlot ==
    ASSUME CircleAssumption, SlotTypes, SlotInv, NEW c \in Cast, CastStep(c)
    PROVE  SlotInv' /\ WithinLimit
<1>0. /\ Places(line) /\ left \subseteq Cast /\ line \in [Cast -> Nat]
      /\ proc \in [Cast -> Proc] /\ mark \in [Cast -> Mark]
      /\ unread \in [Cast -> Nat]
      /\ status \in [Cast -> Status] /\ record \in [Cast -> Status]
      /\ awaits \in [Cast -> SUBSET Cast]
      /\ heard \in [Cast -> SUBSET Cast]
      /\ onChildren \in [Cast -> SUBSET Cast]
      /\ task \in [Cast -> Task]
      /\ record[c] = "unheard" => proc[c] \notin Live
      /\ line[c] # 0 => task[c] = "none"
  BY DEF SlotTypes
<1>1. /\ proc[c] = "attached" =>
            /\ status[c] \in {"running", "disconnected"}
            /\ heard[c] \subseteq awaits[c]
            /\ onChildren[c] \subseteq awaits[c] \ heard[c]
      /\ proc[c] # "attached" => heard[c] = {}
      /\ proc[c] \in {"silent", "detached"} =>
            \/ status[c] \in {"running", "disconnected"}
            \/ task[c] \in {"probing", "spawned"}
            \/ c \in left /\ status[c] = "unheard"
            \/ mark[c] = "none"
      /\ line[c] # 0 \/ task[c] # "none" \/ unread[c] # 0 => status[c] # "unheard"
      /\ record[c] = "unheard" => onChildren[c] = {}
  BY DEF SlotInv, SlotOf
<1>2. CASE Typed(c) \/ (SaysHello(c) /\ daemon = "up")
  <2>1. /\ proc' = [proc EXCEPT ![c] = "attached"]
        /\ status' = [status EXCEPT ![c] = "running"]
        /\ record' = [record EXCEPT ![c] = "running"]
        /\ \/ record[c] = "unheard" /\ onChildren' = onChildren
           \/ proc[c] = "silent" /\ onChildren' = [onChildren EXCEPT ![c] = {}]
        /\ UNCHANGED <<awaits, task, line, heard, left, unread, mark>>
    BY <1>2 DEF Typed, SaysHello, queueVars
  <2>2. heard[c] = {} /\ onChildren'[c] = {}
    BY <1>0, <1>1, <2>1 DEF Live
  <2>3. SlotOf(c)' BY <1>0, <1>1, <2>1, <2>2 DEF SlotOf
  <2>4. SlotInv' BY <1>0, <2>1, <2>3, SlotSame
  <2>5. WithinLimit BY <2>1, SlotQuiet
  <2> QED BY <2>4, <2>5
<1>3. CASE AsksForTree(c) \/ Exits(c) \/ (SaysHello(c) /\ daemon # "up")
  <2>1. /\ proc[c] \in {"silent", "detached", "leaving"}
        /\ \/ \E p \in {"wantsTree", "exited"} : proc' = [proc EXCEPT ![c] = p]
           \/ proc[c] = "silent" /\ proc' = [proc EXCEPT ![c] = "detached"]
        /\ awaits' = awaits \/ awaits' = [awaits EXCEPT ![c] = {}]
        /\ UNCHANGED <<status, record, onChildren, task, line, heard, left, unread, mark>>
    BY <1>3 DEF AsksForTree, Exits, SaysHello, viewVars, queueVars
  <2>2. SlotOf(c)' BY <1>0, <1>1, <2>1 DEF SlotOf
  <2>3. SlotInv' BY <1>0, <2>1, <2>2, SlotSame
  <2>4. WithinLimit BY <2>1, SlotQuiet
  <2> QED BY <2>3, <2>4
<1>4. ASSUME NEW child \in Cast, Hears(c, child) PROVE SlotInv' /\ WithinLimit
  <2>1. /\ child \in heard[c]
        /\ heard' = [heard EXCEPT ![c] = @ \ {child}]
        /\ awaits' = [awaits EXCEPT ![c] = @ \ {child}]
        /\ UNCHANGED <<proc, status, record, onChildren, task, line, left, unread, mark>>
    BY <1>4 DEF Hears, viewVars, queueVars
  <2>2. SlotOf(c)' BY <1>0, <1>1, <2>1 DEF SlotOf
  <2>3. SlotInv' BY <1>0, <2>1, <2>2, SlotSame
  <2>4. \A d \in Cast : heard'[d] \subseteq heard[d] BY <1>0, <2>1
  <2>5. WithinLimit BY <2>1, <2>4, SlotQuiet
  <2> QED BY <2>3, <2>5
<1>5. CASE Drops(c)
  <2>1. /\ proc[c] = "attached"
        /\ proc' = [proc EXCEPT ![c] = "detached"]
        /\ heard' = [heard EXCEPT ![c] = {}]
        /\ unread' = [unread EXCEPT ![c] = @ + 1]
        /\ UNCHANGED <<awaits, status, record, onChildren, task, line, left, mark>>
    BY <1>5 DEF Drops, viewVars, queueVars
  <2>2. SlotOf(c)' BY <1>0, <1>1, <2>1 DEF SlotOf
  <2>3. SlotInv' BY <1>0, <2>1, <2>2, SlotSame
  <2>4. \A d \in Cast : heard'[d] \subseteq heard[d] BY <1>0, <2>1
  <2>5. WithinLimit BY <2>1, <2>4, SlotQuiet
  <2> QED BY <2>3, <2>5
<1>6. ASSUME NEW oc, NEW hd, Start(status', record', oc, line, task, hd),
             left' = left, mark' = mark,
             \A d \in Cast \ {c} :
                 /\ proc'[d] = proc[d] /\ awaits'[d] = awaits[d]
                 /\ status'[d] = status[d] /\ record'[d] = record[d]
                 /\ unread'[d] = unread[d]
                 /\ oc[d] = onChildren[d] /\ hd[d] = heard[d],
             hd[c] \subseteq heard[c], proc'[c] \in Live => proc[c] \in Live,
             proc'[c] = "attached" =>
                 /\ hd[c] \subseteq awaits'[c]
                 /\ oc[c] \subseteq awaits'[c] \ hd[c]
                 /\ status'[c] \in {"running", "disconnected"},
             proc'[c] # "attached" => hd[c] = {},
             proc'[c] \in {"silent", "detached"} =>
                 proc'[c] = proc[c] /\ status'[c] \in {status[c], "disconnected"},
             status'[c] # "unheard" \/ (status'[c] = status[c] /\ unread'[c] = unread[c]),
             record'[c] = "unheard" => record[c] = "unheard" /\ oc[c] = {}
      PROVE  SlotInv' /\ WithinLimit
  <2>1. /\ proc'[c] \in {"silent", "detached"} =>
              \/ status'[c] \in {"running", "disconnected"}
              \/ task[c] \in {"probing", "spawned"} /\ line[c] = 0
              \/ c \in left /\ status'[c] = "unheard"
              \/ mark'[c] = "none"
        /\ line[c] # 0 \/ task[c] # "none" \/ unread'[c] # 0 => status'[c] # "unheard"
    BY <1>0, <1>1, <1>6
  <2>2. SlotInv' BY <1>0, <1>6, <2>1, SlotKept
  <2>3. /\ \A d \in Cast : hd[d] \subseteq heard[d]
        /\ \A d \in Cast : proc'[d] \in Live => proc[d] \in Live
    BY <1>6
  <2>4. WithinLimit BY <1>0, <1>6, <2>2, <2>3, SlotStart
  <2> QED BY <2>2, <2>4
<1>7. ASSUME NEW child \in Cast, AwaitsChild(c, child)
      PROVE  SlotInv' /\ WithinLimit
  <2> DEFINE oc == [onChildren EXCEPT ![c] = @ \cup {child}]
  <2>1. /\ proc[c] = "attached" /\ child \notin awaits[c]
        /\ awaits' = [awaits EXCEPT ![c] = @ \cup {child}]
        /\ UNCHANGED <<proc, status, record, left, unread, mark>>
        /\ Start(status', record', oc, line, task, heard)
    BY <1>7 DEF AwaitsChild
  <2>2. /\ \A d \in Cast \ {c} : oc[d] = onChildren[d] /\ awaits'[d] = awaits[d]
        /\ oc[c] = onChildren[c] \cup {child}
        /\ awaits'[c] = awaits[c] \cup {child}
    BY <1>0, <2>1
  <2> HIDE DEF oc
  <2>3. /\ heard[c] \subseteq awaits'[c]
        /\ oc[c] \subseteq awaits'[c] \ heard[c]
        /\ status'[c] # "unheard" /\ status'[c] \in {"running", "disconnected"}
        /\ record'[c] # "unheard"
    BY <1>0, <1>1, <2>1, <2>2 DEF Live
  <2> QED BY <1>6, <2>1, <2>2, <2>3
<1>8. ASSUME NEW child \in Cast, Withdraws(c, child)
      PROVE  SlotInv' /\ WithinLimit
  <2> DEFINE oc == [onChildren EXCEPT ![c] = @ \ {child}]
             hd == [heard EXCEPT ![c] = @ \ {child}]
  <2>1. /\ awaits' = [awaits EXCEPT ![c] = @ \ {child}]
        /\ UNCHANGED <<proc, status, record, left, unread, mark>>
    BY <1>8 DEF Withdraws
  <2>2. CASE proc[c] = "detached" /\ UNCHANGED <<heard, onChildren, queueVars>>
    <3>1. UNCHANGED <<task, line>> BY <2>2 DEF queueVars
    <3>2. SlotOf(c)' BY <1>0, <1>1, <2>1, <2>2, <3>1 DEF SlotOf
    <3>3. SlotInv' BY <1>0, <2>1, <2>2, <3>1, <3>2, SlotSame
    <3>4. WithinLimit BY <2>2, <3>1, SlotQuiet
    <3> QED BY <3>3, <3>4
  <2>3. CASE proc[c] = "attached" /\ Start(status, record, oc, line, task, hd)
    <3>1. Start(status', record', oc, line, task, hd) BY <2>1, <2>3
    <3>2. /\ \A d \in Cast \ {c} : /\ oc[d] = onChildren[d] /\ hd[d] = heard[d]
                                   /\ awaits'[d] = awaits[d]
          /\ oc[c] = onChildren[c] \ {child}
          /\ hd[c] = heard[c] \ {child}
          /\ awaits'[c] = awaits[c] \ {child}
      BY <1>0, <2>1
    <3> HIDE DEF oc, hd
    <3>3. /\ hd[c] \subseteq awaits'[c] /\ hd[c] \subseteq heard[c]
          /\ oc[c] \subseteq awaits'[c] \ hd[c]
          /\ status'[c] # "unheard" /\ status'[c] \in {"running", "disconnected"}
          /\ record'[c] # "unheard"
      BY <1>0, <1>1, <2>1, <2>3, <3>2 DEF Live
    <3> QED BY <1>6, <2>1, <2>3, <3>1, <3>2, <3>3
  <2> QED BY <1>8, <2>2, <2>3 DEF Withdraws
<1>9. ASSUME NEW e \in {"ended", "disconnected"}, Goodbye(c, e, task, heard),
             left' = left, mark' = mark, awaits' = awaits,
             \A d \in Cast \ {c} : proc'[d] = proc[d] /\ unread'[d] = unread[d],
             \/ proc'[c] = proc[c] /\ e = "disconnected"
             \/ proc[c] = "attached" /\ proc'[c] = "leaving" /\ awaits[c] = {}
      PROVE  SlotInv' /\ WithinLimit
  <2> DEFINE oc == [onChildren EXCEPT ![c] = {}]
  <2>1. /\ status' = [status EXCEPT ![c] = e]
        /\ record' = [record EXCEPT ![c] = e]
        /\ Start(status', record', oc, line, task, heard)
    BY <1>9 DEF Goodbye
  <2>2. /\ \A d \in Cast \ {c} : /\ oc[d] = onChildren[d]
                                 /\ status'[d] = status[d] /\ record'[d] = record[d]
        /\ oc[c] = {} /\ status'[c] = e /\ record'[c] = e
    BY <1>0, <2>1
  <2> HIDE DEF oc
  <2>3. /\ proc'[c] \in Live => proc[c] \in Live
        /\ proc'[c] # "attached" => heard[c] = {}
        /\ proc'[c] = "attached" => heard[c] \subseteq awaits'[c] /\ e = "disconnected"
        /\ proc'[c] \in {"silent", "detached"} =>
              proc'[c] = proc[c] /\ e = "disconnected"
    BY <1>1, <1>9 DEF Live
  <2> QED BY <1>6, <1>9, <2>1, <2>2, <2>3
<1>10. CASE Ends(c)
  <2>1. /\ proc[c] = "attached" /\ awaits[c] = {}
        /\ proc' = [proc EXCEPT ![c] = "leaving"]
        /\ UNCHANGED <<left, mark, awaits, unread>>
        /\ Goodbye(c, "ended", task, heard)
    BY <1>10 DEF Ends
  <2> QED BY <1>0, <1>9, <2>1
<1>11. CASE Noticed(c)
  <2>1. /\ unread' = [unread EXCEPT ![c] = @ - 1]
        /\ UNCHANGED <<proc, left, mark, awaits>>
        /\ Goodbye(c, "disconnected", task, heard)
    BY <1>11 DEF Noticed
  <2> QED BY <1>0, <1>9, <2>1
<1>12. CASE Reattaches(c)
  <2> DEFINE oc == [onChildren EXCEPT ![c] = awaits[c]]
  <2>1. /\ proc[c] = "detached"
        /\ proc' = [proc EXCEPT ![c] = "attached"]
        /\ status' = [status EXCEPT ![c] = "running"]
        /\ record' = [record EXCEPT ![c] = "running"]
        /\ UNCHANGED <<left, mark, awaits, unread>>
    BY <1>12 DEF Reattaches
  <2>2. CASE awaits[c] = {}
    <3>1. onChildren' = oc /\ UNCHANGED <<task, line, heard>>
      BY <2>2, <1>12 DEF Reattaches, queueVars
    <3>2. SlotOf(c)' BY <1>0, <1>1, <2>1, <2>2, <3>1 DEF SlotOf
    <3>3. SlotInv' BY <1>0, <2>1, <3>1, <3>2, SlotSame
    <3>4. WithinLimit BY <3>1, SlotQuiet
    <3> QED BY <3>3, <3>4
  <2>3. CASE awaits[c] # {}
    <3>1. Start(status', record', oc, line, task, heard)
      BY <2>3, <1>12 DEF Reattaches
    <3>2. /\ \A d \in Cast \ {c} :
                /\ oc[d] = onChildren[d] /\ proc'[d] = proc[d]
                /\ status'[d] = status[d] /\ record'[d] = record[d]
          /\ oc[c] = awaits[c] /\ status'[c] = "running" /\ record'[c] = "running"
          /\ proc'[c] = "attached" /\ proc[c] \in Live
      BY <1>0, <2>1 DEF Live
    <3>3. heard[c] = {} BY <1>1, <2>1
    <3> HIDE DEF oc
    <3> QED BY <1>6, <2>1, <3>1, <3>2, <3>3
  <2> QED BY <2>2, <2>3
<1> QED BY <1>2, <1>3, <1>4, <1>5, <1>7, <1>8, <1>10, <1>11, <1>12 DEF CastStep

(* The end of a task, its process gone before it.                          *)
LEMMA FinishSlot ==
    ASSUME CircleAssumption, SlotTypes, SlotInv, NEW c \in Cast, NEW bl,
           Finish(c, bl), task[c] # "none", UNCHANGED <<awaits, unread, left>>,
           \A d \in Cast \ {c} : proc'[d] = proc[d] /\ mark'[d] = mark[d],
           \/ proc'[c] = "none" /\ proc[c] # "attached"
           \/ /\ proc'[c] = proc[c] /\ mark'[c] = mark[c]
              /\ task[c] \notin {"probing", "spawned"}
    PROVE  SlotInv' /\ WithinLimit
<1> DEFINE tk == [task EXCEPT ![c] = "none"]
<1>1. /\ task \in [Cast -> Task] /\ line \in [Cast -> Nat]
      /\ status \in [Cast -> Status] /\ record \in [Cast -> Status]
      /\ onChildren \in [Cast -> SUBSET Cast]
      /\ Places(line) /\ left \subseteq Cast
      /\ record[c] # "unheard" /\ line[c] = 0
  BY DEF SlotTypes
<1>2. /\ tk \in [Cast -> Task] /\ tk[c] = "none"
      /\ \A d \in Cast \ {c} : tk[d] = task[d]
  BY <1>1 DEF Task
<1>3. PICK oc :
        /\ Start(status', record', oc, line, tk, heard)
        /\ \A d \in Cast \ {c} : /\ oc[d] = onChildren[d]
                                 /\ status'[d] = status[d] /\ record'[d] = record[d]
        /\ \/ status[c] = "queued" /\ oc[c] = {}
              /\ status'[c] = "ended" /\ record'[c] = "ended"
           \/ oc[c] = onChildren[c] /\ status'[c] = status[c] /\ record'[c] = record[c]
              /\ status[c] # "queued"
  <2>1. CASE status[c] = "queued"
    <3>1. /\ Start(status', record', [onChildren EXCEPT ![c] = {}], line, tk, heard)
          /\ status' = [status EXCEPT ![c] = "ended"]
          /\ record' = [record EXCEPT ![c] = "ended"]
      BY <2>1 DEF Finish
    <3> HIDE DEF tk
    <3> WITNESS [onChildren EXCEPT ![c] = {}]
    <3> QED BY <2>1, <3>1, <1>1
  <2>2. CASE status[c] # "queued"
    <3>1. /\ Start(status', record', onChildren, line, tk, heard)
          /\ status' = status /\ record' = record
      BY <2>2 DEF Finish
    <3> HIDE DEF tk
    <3> QED BY <2>2, <3>1, <1>1
  <2> QED BY <2>1, <2>2
<1> HIDE DEF tk
<1>4. /\ proc[c] = "attached" =>
            /\ status[c] \in {"running", "disconnected"}
            /\ heard[c] \subseteq awaits[c]
            /\ onChildren[c] \subseteq awaits[c] \ heard[c]
      /\ proc[c] # "attached" => heard[c] = {}
      /\ proc[c] \in {"silent", "detached"} =>
            \/ status[c] \in {"running", "disconnected"}
            \/ task[c] \in {"probing", "spawned"}
            \/ mark[c] = "none"
      /\ status[c] # "unheard"
  BY DEF SlotInv, SlotOf
<1>5. /\ proc'[c] = "attached" =>
               /\ status'[c] \in {"running", "disconnected"}
               /\ heard[c] \subseteq awaits'[c]
               /\ oc[c] \subseteq awaits'[c] \ heard[c]
      /\ proc'[c] # "attached" => heard[c] = {}
      /\ proc'[c] \in {"silent", "detached"} =>
               \/ status'[c] \in {"running", "disconnected"}
               \/ mark'[c] = "none"
      /\ status'[c] # "unheard" /\ record'[c] # "unheard"
  BY <1>1, <1>3, <1>4
<1>6. SlotInv' BY <1>1, <1>2, <1>3, <1>5, SlotKept
<1>7. /\ \A d \in Cast : task[d] = "none" => tk[d] = "none"
      /\ \A d \in Cast : heard[d] \subseteq heard[d]
      /\ \A d \in Cast : proc'[d] \in Live => proc[d] \in Live
  BY <1>2 DEF Live
<1>8. WithinLimit BY <1>1, <1>3, <1>6, <1>7, SlotStart
<1> QED BY <1>6, <1>8

(* A task that moves on, with its own process alone.                       *)
LEMMA SlotMove ==
    ASSUME SlotTypes, SlotInv, NEW c \in Cast, task[c] # "none",
           NEW next \in Task \ {"launched"}, task' = [task EXCEPT ![c] = next],
           \A d \in Cast : line'[d] # 0 => line[d] # 0 \/ d = c,
           UNCHANGED <<awaits, status, record, onChildren, heard, unread, left>>,
           \A d \in Cast \ {c} : proc'[d] = proc[d] /\ mark'[d] = mark[d],
           \/ proc[c] # "attached" /\ proc'[c] \in {"none", "exited"}
           \/ proc[c] \notin Live /\ proc'[c] = "silent" /\ next \in {"probing", "spawned"}
           \/ /\ proc'[c] = proc[c] /\ mark'[c] = mark[c]
              /\ task[c] \notin {"probing", "spawned"}
    PROVE  SlotInv'
<1>1. task \in [Cast -> Task] /\ record[c] # "unheard"
  BY DEF SlotTypes
<1>2. SlotOf(c) BY DEF SlotInv
<1>3. SlotOf(c)' BY <1>1, <1>2 DEF SlotOf, Live
<1> QED BY <1>1, <1>3, SlotSame

(* A spawn over no process of the cast is all that keeps the rest apart.   *)
LEMMA TaskStepSlot ==
    ASSUME CircleAssumption, SlotTypes, SlotInv, NEW c \in Cast, TaskStep(c)
    PROVE  WithinLimit /\ ((Spawned(c) => proc[c] \notin Live) => SlotInv')
<1> USE DEF Task
<1>0. /\ proc \in [Cast -> Proc] /\ mark \in [Cast -> Mark]
      /\ task \in [Cast -> Task] /\ line \in [Cast -> Nat]
      /\ heard \in [Cast -> SUBSET Cast] /\ unread \in [Cast -> Nat]
      /\ awaits \in [Cast -> SUBSET Cast]
      /\ task[c] # "none" => record[c] # "unheard" /\ line[c] = 0
  BY DEF SlotTypes
<1>1. ASSUME NEW next \in Task \ {"launched"}, task' = [task EXCEPT ![c] = next],
             heard' = heard
      PROVE  WithinLimit
  BY <1>0, <1>1, SlotQuiet
<1>2. CASE Begins(c)
  <2>1. /\ task[c] = "launched"
        /\ UNCHANGED <<line, awaits, status, record, onChildren, heard, unread, left>>
    BY <1>2 DEF Begins, viewVars
  <2>2. CASE c \in needs \cup Says
    <3>1. proc' = proc /\ mark' = mark /\ task' = [task EXCEPT ![c] = "leasing"]
      BY <2>2, <1>2 DEF Begins
    <3> QED BY <2>1, <3>1, <1>0, <1>1, SlotMove
  <2>3. CASE c \notin needs \cup Says
    <3>1. /\ task' = [task EXCEPT ![c] = "probing"]
          /\ proc' \in {[proc EXCEPT ![c] = "silent"], [proc EXCEPT ![c] = "exited"]}
          /\ mark' \in {[mark EXCEPT ![c] = "writing"], [mark EXCEPT ![c] = "none"]}
      BY <2>3, <1>2 DEF Begins, Spawns
    <3>2. Spawned(c) BY <2>1, <3>1, <1>0 DEF Spawned
    <3>3. WithinLimit BY <2>1, <3>1, <1>1
    <3>4. ASSUME proc[c] \notin Live PROVE SlotInv'
      BY <2>1, <3>1, <3>4, <1>0, SlotMove DEF Live
    <3> QED BY <3>2, <3>3, <3>4
  <2> QED BY <2>2, <2>3
<1>3. CASE Probed(c)
  <2>1. /\ task[c] = "probing" /\ proc[c] \in {"exited", "wantsTree"}
        /\ proc' = [proc EXCEPT ![c] = "none"]
        /\ mark' = [mark EXCEPT ![c] = "none"]
        /\ UNCHANGED <<awaits, unread, left>>
    BY <1>3 DEF Probed
  <2>2. CASE proc[c] = "wantsTree"
    <3>1. /\ task' = [task EXCEPT ![c] = "leasing"]
          /\ UNCHANGED <<line, status, record, onChildren, heard>>
      BY <2>2, <1>3 DEF Probed, viewVars
    <3> QED BY <2>1, <3>1, <1>0, <1>1, SlotMove
  <2>3. CASE proc[c] # "wantsTree"
    <3>1. Finish(c, blocked) BY <2>3, <1>3 DEF Probed
    <3> QED BY <2>1, <3>1, <1>0, FinishSlot
  <2> QED BY <2>2, <2>3
<1>4. CASE LeaseBegins(c) \/ Leases(c) \/ WaitsForTree(c) \/ LeaseFails(c) \/ PrepareFails(c)
  <2>1. /\ task[c] \in {"leasing", "asking", "preparing"}
        /\ \E next \in Task \ {"launched"} : task' = [task EXCEPT ![c] = next]
        /\ line' = line \/ line' = AtTheFront(line, c)
        /\ UNCHANGED <<proc, mark, awaits, status, record, onChildren, heard, unread, left>>
    BY <1>4 DEF LeaseBegins, Leases, WaitsForTree, LeaseFails, PrepareFails,
                viewVars, procVars
  <2>2. \A d \in Cast : line'[d] # 0 => line[d] # 0 \/ d = c
    BY <2>1, <1>0 DEF AtTheFront
  <2> QED BY <2>1, <2>2, <1>0, <1>1, SlotMove
<1>5. CASE Prepared(c)
  <2>1. /\ task[c] = "preparing"
        /\ task' = [task EXCEPT ![c] = "spawned"]
        /\ proc' \in {[proc EXCEPT ![c] = "silent"], [proc EXCEPT ![c] = "exited"]}
        /\ mark' \in {[mark EXCEPT ![c] = "writing"], [mark EXCEPT ![c] = "none"]}
        /\ UNCHANGED <<line, awaits, status, record, onChildren, heard, unread, left>>
    BY <1>5 DEF Prepared, Spawns, viewVars
  <2>2. Spawned(c) BY <2>1, <1>0 DEF Spawned
  <2>3. WithinLimit BY <2>1, <1>1
  <2>4. ASSUME proc[c] \notin Live PROVE SlotInv'
    BY <2>1, <2>4, <1>0, SlotMove DEF Live
  <2> QED BY <2>2, <2>3, <2>4
<1>6. CASE Marks(c)
  <2>1. /\ task[c] \in {"probing", "spawned"}
        /\ UNCHANGED <<line, task, status, record, onChildren, left>>
        /\ \/ /\ mark' = [mark EXCEPT ![c] = "written"]
              /\ UNCHANGED <<proc, awaits, heard, unread>>
           \/ /\ mark' = [mark EXCEPT ![c] = "none"]
              /\ proc' = [proc EXCEPT ![c] = "exited"]
              /\ awaits' = [awaits EXCEPT ![c] = {}]
              /\ heard' = [heard EXCEPT ![c] = {}]
              /\ unread' = [unread EXCEPT ![c] =
                               IF proc[c] = "attached" THEN @ + 1 ELSE @]
    BY <1>6 DEF Marks, viewVars, queueVars
  <2>2. SlotOf(c) BY DEF SlotInv
  <2>3. record[c] # "unheard" BY <2>1, <1>0
  <2>4. SlotOf(c)' BY <2>1, <2>2, <2>3, <1>0 DEF SlotOf
  <2>5. SlotInv' BY <2>1, <2>4, <1>0, SlotSame
  <2>6. \A d \in Cast : heard'[d] \subseteq heard[d] BY <2>1, <1>0
  <2>7. WithinLimit BY <2>1, <2>6, SlotQuiet
  <2> QED BY <2>5, <2>7
<1>7. CASE Ran(c)
  <2>1. /\ task[c] = "spawned" /\ proc[c] = "exited"
        /\ proc' = [proc EXCEPT ![c] = "none"]
        /\ mark' = [mark EXCEPT ![c] = "none"]
        /\ task' = [task EXCEPT ![c] = "releasing"]
        /\ UNCHANGED <<line, awaits, status, record, onChildren, heard, unread, left>>
    BY <1>7 DEF Ran, viewVars
  <2> QED BY <2>1, <1>0, <1>1, SlotMove
<1>8. CASE Releases(c)
  <2>1. /\ task[c] \in {"releasing", "failing"}
        /\ \E bl : Finish(c, bl)
        /\ UNCHANGED <<proc, mark, awaits, unread, left>>
    BY <1>8 DEF Releases
  <2> QED BY <2>1, <1>0, FinishSlot
<1> QED BY <1>2, <1>3, <1>4, <1>5, <1>6, <1>7, <1>8 DEF TaskStep

LEMMA SlotInvStep ==
    ASSUME CircleAssumption, SlotTypes, SlotInv, [Next]_vars
    PROVE  WithinLimit /\ ((\A c \in Cast : Spawned(c) => proc[c] \notin Live) => SlotInv')
<1>1. ASSUME NEW c \in Cast, Enqueue(c) PROVE SlotInv' /\ WithinLimit
  <2> DEFINE ln == Appended(line, c)
  <2>1. /\ record[c] = "unheard"
        /\ status' = [status EXCEPT ![c] = "queued"]
        /\ record' = [record EXCEPT ![c] = "queued"]
        /\ UNCHANGED <<proc, awaits, left, unread, mark>>
        /\ Start(status', record', onChildren, ln, task, heard)
    BY <1>1 DEF Enqueue
  <2>2. /\ Places(line) /\ left \subseteq Cast
        /\ task \in [Cast -> Task]
        /\ status \in [Cast -> Status] /\ record \in [Cast -> Status]
        /\ line[c] = 0 /\ proc[c] \notin Live
    BY <2>1 DEF SlotTypes
  <2>3. /\ Places(ln)
        /\ \A d \in Cast \ {c} : ln[d] = line[d] /\ status'[d] = status[d]
                                /\ record'[d] = record[d]
        /\ status'[c] = "queued" /\ record'[c] = "queued"
    BY <2>1, <2>2, AppendedPlaces
  <2> HIDE DEF ln
  <2>4. SlotOf(c) BY DEF SlotInv
  <2>5. /\ proc'[c] \notin {"silent", "detached", "attached"}
        /\ heard[c] = {}
    BY <2>1, <2>2, <2>4 DEF SlotOf, Live
  <2>6. SlotInv'
    <3>1. \A d \in Cast \ {c} :
              /\ proc'[d] = proc[d] /\ awaits'[d] = awaits[d]
              /\ status'[d] = status[d] /\ record'[d] = record[d]
              /\ mark'[d] = mark[d] /\ unread'[d] = unread[d]
              /\ onChildren[d] = onChildren[d] /\ heard[d] = heard[d]
              /\ task[d] = task[d] /\ (ln[d] # 0 => line[d] # 0)
      BY <2>1, <2>3
    <3>2. /\ proc'[c] # "attached" /\ heard[c] = {}
          /\ proc'[c] \notin {"silent", "detached"}
          /\ status'[c] # "unheard" /\ record'[c] # "unheard"
      BY <2>3, <2>5
    <3>3. task \in [Cast -> Task] /\ left' = left BY <2>1, <2>2
    <3>4. Start(status', record', onChildren, ln, task, heard) BY <2>1
    <3> QED BY ONLY SlotTypes, SlotInv, <3>1, <3>2, <3>3, <3>4, SlotKept
  <2>7. \A d \in Cast : heard[d] \subseteq heard[d] OBVIOUS
  <2>8. WithinLimit BY <2>1, <2>2, <2>3, <2>6, <2>7, SlotStart
  <2> QED BY <2>6, <2>8
<1>2. ASSUME NEW c \in Cast, TaskStep(c)
      PROVE  WithinLimit /\ ((Spawned(c) => proc[c] \notin Live) => SlotInv')
  BY <1>2, TaskStepSlot
<1>3. ASSUME NEW c \in Cast, CastStep(c) PROVE SlotInv' /\ WithinLimit
  BY <1>3, CastStepSlot
<1>4. CASE Purify \/ PurifyBegins \/ Purified \/ CleanedByHand \/ UNCHANGED vars
  <2>1. UNCHANGED <<procVars, unread, mark, status, record, onChildren, line, task, left>>
    BY <1>4 DEF Purify, PurifyBegins, Purified, CleanedByHand, vars, viewVars,
                queueVars
  <2>2. SlotInv' BY <2>1 DEF SlotInv, SlotOf, procVars
  <2>3. WithinLimit BY <2>1, SlotQuiet DEF procVars
  <2> QED BY <2>2, <2>3
<1> QED BY <1>1, <1>2, <1>3, <1>4 DEF Next

(* Whatever starts casts or lets parents carry on leaves no more of them   *)
(* at work than the project's `processes`: one spawned and not yet heard   *)
(* from counts, one back after its old connection's late goodbye does not. *)
THEOREM StartsWithinLimitCorrect == Spec => StartsWithinLimit
<1> DEFINE Inv == TypeInv /\ SpawnInv(FALSE) /\ daemon = "up" /\ SlotInv
<1>1. Init => Inv
  BY TypeInvInit, SpawnInvInit, SlotInvInit, CircleAssumption DEF Init
<1>2. Inv /\ [Next]_vars => Inv' /\ [WithinLimit]_vars
  <2> SUFFICES ASSUME Inv, [Next]_vars PROVE Inv' /\ WithinLimit
    OBVIOUS
  <2>1. TypeInv' BY TypeInvStep, CircleAssumption
  <2>2. /\ SpawnInv(FALSE)' /\ daemon' = "up"
        /\ \A c \in Cast : Spawned(c) => proc[c] \notin Live
    BY UpSpawn, CircleAssumption DEF TypeInv, SpawnsTheDead, Stray
  <2>3. SlotInv' /\ WithinLimit
    BY <2>2, SlotInvStep, TypeInvSlot, CircleAssumption
  <2> QED BY <2>1, <2>2, <2>3
<1> QED BY <1>1, <1>2, PTL DEF Spec, StartsWithinLimit, WithinLimit

-----------------------------------------------------------------------------
(* Stops and kills of the daemon, any number of them.                      *)

(* A daemon that goes forgets every lease, and with them who held the lock. *)
LEMMA ForgetKeeps ==
    ASSUME CircleAssumption, NEW written, LeaseInv, Forget(written), UNCHANGED pool
    PROVE  LeaseInv'
<1>1. /\ task' = [c \in Cast |-> "none"]
      /\ needs' = {}
      /\ leased' = [c \in Cast |-> Root]
      /\ lock' = <<>>
      /\ purifying' = FALSE
  BY DEF Forget
<1> QED BY <1>1 DEF LeaseInv, LeaseTypes, LeasedOnce, LeasedInPool, AskersKnown,
           AskerHoldsLock, PurifierHoldsLock, Task, Roots

LEMMA RestartLeaseInvStep ==
    ASSUME CircleAssumption, LeaseInv, [RestartNext]_allVars
    PROVE  LeaseInv'
<1>0. task \in [Cast -> Task] BY DEF LeaseInv, LeaseTypes
<1>1. CASE Next
  BY <1>1, LeaseInvStep
<1>2. ASSUME NEW c \in Cast, SaysHello(c) \/ AsksForTree(c) \/ Exits(c)
      PROVE  LeaseInv'
  BY <1>2, CastStepKeeps DEF CastStep
<1>3. CASE Stop
  BY <1>3, <1>0, QuietStep DEF Stop, queueVars, gitVars
<1>4. CASE Stopped
  BY <1>4, ForgetKeeps DEF Stopped
<1>5. CASE Killed
  BY <1>5, ForgetKeeps DEF Killed, gitVars
<1>6. CASE Serve
  <2>1. \E st, ln : Start(st, record, onChildren, ln, task, heard)
    BY <1>6 DEF Serve
  <2> QED BY <1>6, <2>1, QuietStart DEF Serve, gitVars
<1>7. CASE UNCHANGED allVars
  BY <1>7, LeaseInvStep DEF allVars
<1> QED BY <1>1, <1>2, <1>3, <1>4, <1>5, <1>6, <1>7 DEF RestartNext

(* No daemon ever leases two casts the same tree, however many daemons     *)
(* were stopped or killed before it and wherever they were in their work.  *)
THEOREM LeasedOnceOverRestarts == RestartSpec => []LeasedOnce
<1>1. RestartInit => LeaseInv BY LeaseInvInit, CircleAssumption DEF RestartInit
<1>2. LeaseInv /\ [RestartNext]_allVars => LeaseInv'
  BY RestartLeaseInvStep, CircleAssumption
<1>3. LeaseInv => LeasedOnce BY DEF LeaseInv
<1> QED BY <1>1, <1>2, <1>3, PTL DEF RestartSpec

-----------------------------------------------------------------------------
(* The queue over restarts: what each daemon reads back of it.              *)

(* The journal says of no cast typed by hand that it is queued.            *)
QueuedWasAsked == \A c \in Cast : record[c] = "queued" => c \notin Hand

(* No daemon, no queue and no task.                                        *)
DownIsIdle ==
    daemon = "down" => \A c \in Cast : task[c] = "none" /\ line[c] = 0

(* The inductive invariant.  QueueInv alone does not say what the next     *)
(* daemon finds: that nothing is at work as it reads the journal's queue,  *)
(* and that it queues nothing that was typed by hand.                      *)
RestartQueueInv == QueueInv /\ QueuedWasAsked /\ DownIsIdle

(* A daemon that goes leaves no queue behind but the journal's.            *)
LEMMA ForgetQueueInv ==
    ASSUME CircleAssumption, NEW written, QueueInv, Forget(written), record' = record
    PROVE  QueueInv' /\ InOrder
<1>1. /\ status' = [c \in Cast |-> "unheard"]
      /\ line' = [c \in Cast |-> 0]
      /\ task' = [c \in Cast |-> "none"]
      /\ left' \subseteq Cast
  BY DEF Forget, LeftMarked
<1>2. Places(line')
  <2>1. InLine(line') = {} /\ line' \in [Cast -> Nat] BY <1>1 DEF InLine
  <2> QED BY <2>1 DEF Places
<1>3. QueueInv'
  BY <1>1, <1>2 DEF QueueInv, InLineIdle, TaskOfQueued, Task, Status
<1>4. InOrder BY <1>1 DEF InOrder, Starting
<1> QED BY <1>3, <1>4

LEMMA ForgetQueue ==
    ASSUME CircleAssumption, NEW written, RestartQueueInv, Forget(written), record' = record
    PROVE  RestartQueueInv' /\ InOrder
<1>1. QueueInv' /\ InOrder BY ForgetQueueInv DEF RestartQueueInv
<1>2. /\ line' = [c \in Cast |-> 0]
      /\ task' = [c \in Cast |-> "none"]
  BY DEF Forget
<1>3. QueuedWasAsked' /\ DownIsIdle'
  BY <1>2 DEF RestartQueueInv, QueuedWasAsked, DownIsIdle
<1> QED BY <1>1, <1>3 DEF RestartQueueInv

(* One place each, from the first on: a queue.                             *)
LEMMA ReadBackPlaces ==
    ASSUME CircleAssumption, NEW waiting \in SUBSET Cast,
           NEW place \in [waiting -> 1..Cardinality(waiting)],
           \A c, d \in waiting : place[c] = place[d] => c = d
    PROVE  LET ln == [c \in Cast |-> IF c \in waiting THEN place[c] ELSE 0]
           IN  /\ Places(ln)
               /\ \A c \in Cast : ln[c] > 0 <=> c \in waiting
               /\ \A c \in Cast : ln[c] # 0 <=> c \in waiting
<1> DEFINE n == Cardinality(waiting)
           ln == [c \in Cast |-> IF c \in waiting THEN place[c] ELSE 0]
<1>1. n \in Nat
  BY FS_Subset, FS_CardinalityType DEF CircleAssumption
<1>2. \A c \in waiting : place[c] \in Nat /\ place[c] > 0 /\ place[c] <= n
  <2> HIDE DEF n
  <2>1. \A c \in waiting : place[c] \in 1..n BY DEF n
  <2> QED BY <1>1, <2>1
<1>3. /\ ln \in [Cast -> Nat]
      /\ \A c \in waiting : ln[c] = place[c]
      /\ \A c \in Cast \ waiting : ln[c] = 0
  BY <1>2
<1> HIDE DEF ln
<1>4. InLine(ln) = waiting
  BY <1>2, <1>3 DEF InLine
<1>5. Places(ln)
  BY <1>2, <1>3, <1>4 DEF Places
<1>6. \A c \in Cast : (ln[c] > 0 <=> c \in waiting) /\ (ln[c] # 0 <=> c \in waiting)
  BY <1>2, <1>3
<1> QED BY <1>5, <1>6 DEF ln

(* What the next daemon queues again.                                      *)
LEMMA ServeQueue ==
    ASSUME CircleAssumption, RestartQueueInv, Serve
    PROVE  RestartQueueInv' /\ InOrder
<1> DEFINE waiting == Waiting \ LeftLive(status)
<1>1. /\ daemon = "down"
      /\ daemon' = "up"
      /\ status' = [c \in Cast |-> IF c \in waiting THEN "queued" ELSE "unheard"]
      /\ UNCHANGED <<record, left>>
  BY DEF Serve
<1>2. PICK place \in [waiting -> 1..Cardinality(waiting)] :
        /\ \A c, d \in waiting : place[c] = place[d] => c = d
        /\ Start(status', record, onChildren,
                 [c \in Cast |-> IF c \in waiting THEN place[c] ELSE 0], task, heard)
  BY DEF Serve
<1>3. waiting \in SUBSET Cast /\ \A c \in waiting : record[c] = "queued"
  BY DEF Waiting
<1>4. /\ \A c \in Cast : task[c] = "none" /\ line[c] = 0
      /\ task \in [Cast -> Task]
      /\ record \in [Cast -> Status]
      /\ left \subseteq Cast
      /\ QueuedWasAsked
  BY <1>1 DEF RestartQueueInv, QueueInv, DownIsIdle
<1> DEFINE ln == [c \in Cast |-> IF c \in waiting THEN place[c] ELSE 0]
<1> HIDE DEF waiting
<1>5. /\ Places(ln)
      /\ \A c \in Cast : ln[c] > 0 <=> c \in waiting
      /\ \A c \in Cast : ln[c] # 0 <=> c \in waiting
  BY <1>2, <1>3, ReadBackPlaces
<1>6. status' \in [Cast -> Status] /\ \A c \in Cast : status'[c] = "queued" => c \in waiting
  BY <1>1 DEF Status
<1>7. Start(status', record, onChildren, ln, task, heard)
  BY <1>2
<1> HIDE DEF ln
<1>8. QueueInv'
  <2>1. \A c \in Cast : ln[c] # 0 =>
            task[c] = "none" /\ c \notin Hand /\ record'[c] # "unheard"
    BY <1>1, <1>3, <1>4, <1>5 DEF QueuedWasAsked
  <2>2. \A c \in Cast : task[c] # "none" => c \notin Hand /\ record'[c] # "unheard"
    BY <1>4
  <2>3. \A c \in Cast : status'[c] = "queued" => ln[c] > 0 \/ task[c] # "none"
    BY <1>5, <1>6
  <2>4. record' \in [Cast -> Status] /\ left' = left
    BY <1>1, <1>4
  <2> QED BY <2>1, <2>2, <2>3, <2>4, <1>4, <1>5, <1>6, <1>7, QueueStart
<1>9. QueuedWasAsked' /\ DownIsIdle'
  BY <1>1, <1>4 DEF QueuedWasAsked, DownIsIdle
<1>10. InOrder
  BY <1>4 DEF InOrder, InLine
<1> QED BY <1>8, <1>9, <1>10 DEF RestartQueueInv

LEMMA RestartQueueInvStep ==
    ASSUME CircleAssumption, RestartQueueInv, [RestartNext]_allVars
    PROVE  RestartQueueInv' /\ InOrder
<1>0. QueueInv /\ record \in [Cast -> Status]
  BY DEF RestartQueueInv, QueueInv
<1>1. ASSUME [Next]_vars, daemon # "down" \/ (UNCHANGED <<task, line>>)
      PROVE  RestartQueueInv' /\ InOrder
  <2>1. QueueInv' /\ InOrder BY <1>0, <1>1, QueueInvStep
  <2>2. /\ daemon' = daemon
        /\ \A d \in Cast : record'[d] = "queued" => record[d] = "queued" \/ d \notin Hand
    BY <1>0, <1>1, NextRecords
  <2>3. QueuedWasAsked' /\ DownIsIdle'
    BY <1>1, <2>2 DEF RestartQueueInv, QueuedWasAsked, DownIsIdle
  <2> QED BY <2>1, <2>3 DEF RestartQueueInv
<1>2. CASE Next /\ daemon # "down"
  BY <1>1, <1>2
<1>3. ASSUME NEW c \in Cast, SaysHello(c) \/ AsksForTree(c) \/ Exits(c)
      PROVE  RestartQueueInv' /\ InOrder
  <2>1. UNCHANGED <<task, line>>
    BY <1>3 DEF SaysHello, AsksForTree, Exits, queueVars
  <2>2. Next BY <1>3 DEF Next, CastStep
  <2> QED BY <1>1, <2>1, <2>2
<1>4. CASE Stop
  <2>1. /\ UNCHANGED <<line, task, record, status, left>>
        /\ daemon' = "stopping"
    BY <1>4 DEF Stop, queueVars, viewVars
  <2>2. QueueInv' BY <1>0, <2>1 DEF QueueInv, InLineIdle, TaskOfQueued
  <2>3. QueuedWasAsked' /\ DownIsIdle'
    BY <2>1 DEF RestartQueueInv, QueuedWasAsked, DownIsIdle
  <2>4. InOrder BY <2>1 DEF InOrder, Starting
  <2> QED BY <2>2, <2>3, <2>4 DEF RestartQueueInv
<1>5. CASE Stopped
  BY <1>5, ForgetQueue DEF Stopped
<1>6. CASE Killed
  BY <1>6, ForgetQueue DEF Killed
<1>7. CASE Serve
  BY <1>7, ServeQueue
<1>8. CASE UNCHANGED allVars
  <2>1. UNCHANGED vars /\ UNCHANGED <<task, line>> BY <1>8 DEF allVars, vars, queueVars
  <2> QED BY <1>1, <2>1
<1> QED BY <1>2, <1>3, <1>4, <1>5, <1>6, <1>7, <1>8 DEF RestartNext

LEMMA RestartQueueInvInit ==
    ASSUME CircleAssumption, RestartInit PROVE RestartQueueInv
<1>1. Init /\ QueueInv BY QueueInvInit DEF RestartInit
<1> QED BY <1>1 DEF RestartQueueInv, QueuedWasAsked, DownIsIdle, Init

(* Whichever daemon reads it back from the journal, a queued cast is in    *)
(* the queue or has a task, and not both, and no two share a place.        *)
THEOREM QueuedOnceOverRestarts == RestartSpec => []QueuedOnce
<1>1. RestartInit => RestartQueueInv BY RestartQueueInvInit, CircleAssumption
<1>2. RestartQueueInv /\ [RestartNext]_allVars => RestartQueueInv'
  BY RestartQueueInvStep, CircleAssumption
<1>3. RestartQueueInv => QueuedOnce BY QueueInvQueuedOnce DEF RestartQueueInv
<1> QED BY <1>1, <1>2, <1>3, PTL DEF RestartSpec

(* No daemon, the one that reads the queue back included, launches a cast  *)
(* over one that stood before it and stays.                                *)
THEOREM StartsInOrderOverRestarts == RestartSpec => StartsInOrder
<1>1. RestartInit => RestartQueueInv BY RestartQueueInvInit, CircleAssumption
<1>2. RestartQueueInv /\ [RestartNext]_allVars => RestartQueueInv'
  BY RestartQueueInvStep, CircleAssumption
<1>3. RestartQueueInv /\ [RestartNext]_allVars => [InOrder]_vars
  BY RestartQueueInvStep, CircleAssumption
<1> QED BY <1>1, <1>2, <1>3, PTL DEF RestartSpec, StartsInOrder, InOrder

-----------------------------------------------------------------------------
(* Spawns over restarts: no cast is spawned over a process of it that an   *)
(* earlier daemon marked and left alive.                                   *)

(* The next daemon spawns nothing that the marks say is alive.             *)
LEMMA ServeSpawn ==
    ASSUME CircleAssumption, RestartQueueInv, SpawnInv(TRUE), Serve
    PROVE  SpawnInv(TRUE)' /\ SpawnsTheDead(TRUE)
<1> DEFINE waiting == Waiting \ LeftLive(status)
<1>1. /\ daemon = "down" /\ daemon' = "up"
      /\ UNCHANGED <<record, proc, mark>>
  BY DEF Serve
<1>2. PICK place \in [waiting -> 1..Cardinality(waiting)] :
        /\ \A c, d \in waiting : place[c] = place[d] => c = d
        /\ \E st : Start(st, record, onChildren,
                         [c \in Cast |-> IF c \in waiting THEN place[c] ELSE 0],
                         task, heard)
  BY DEF Serve
<1>3. \A c \in waiting : proc[c] \notin Live \/ mark[c] = "none"
  BY <1>1 DEF SpawnInv, DownIsMarked, Waiting, LeftLive
<1>4. /\ waiting \in SUBSET Cast
      /\ task \in [Cast -> Task]
      /\ \A c \in Cast : task[c] = "none"
  BY <1>1 DEF Waiting, RestartQueueInv, QueueInv, DownIsIdle
<1> DEFINE ln == [c \in Cast |-> IF c \in waiting THEN place[c] ELSE 0]
<1> HIDE DEF waiting
<1>5. \A c \in Cast : ln[c] # 0 <=> c \in waiting
  BY <1>2, <1>4, ReadBackPlaces
<1>6. \E st : Start(st, record, onChildren, ln, task, heard)
  BY <1>2
<1> HIDE DEF ln
<1>7. Started(ln, task) BY <1>4, <1>6, StartLine
<1>8. \A c \in Cast : ToSpawn(ln, task, c) =>
          proc'[c] \notin Live \/ (TRUE /\ mark'[c] = "none")
  BY <1>1, <1>3, <1>4, <1>5 DEF ToSpawn
<1>9. /\ proc' \in [Cast -> Proc] /\ mark' \in [Cast -> Mark]
      /\ \A c \in Cast : record'[c] = "unheard" => proc'[c] \notin Live
      /\ DownIsMarked'
  BY <1>1 DEF SpawnInv, DownIsMarked
<1> QED BY <1>7, <1>8, <1>9, StartSpawns

(* A daemon that goes leaves nobody on the way to a spawn, and of whatever *)
(* it spawned that is alive a mark, or none.                               *)
LEMMA ForgetSpawn ==
    ASSUME CircleAssumption, NEW written, SpawnInv(TRUE), Forget(written),
           record' = record, proc' \in [Cast -> Proc],
           \A c \in Cast : proc'[c] \in Live => proc[c] \in Live
    PROVE  SpawnInv(TRUE)' /\ SpawnsTheDead(TRUE)
<1>1. /\ status' = [c \in Cast |-> "unheard"]
      /\ line' = [c \in Cast |-> 0]
      /\ task' = [c \in Cast |-> "none"]
      /\ left' = {c \in Cast : mark'[c] = "written" /\ proc[c] \in Live}
      /\ mark' = [c \in Cast |->
                     IF proc[c] \in Live /\ (mark[c] = "written" \/ c \in written)
                     THEN "written" ELSE "none"]
  BY DEF Forget, LeftMarked
<1>2. \A c \in Cast : ~ToSpawn(line', task', c)
  BY <1>1 DEF ToSpawn
<1>3. mark' \in [Cast -> Mark] BY <1>1 DEF Mark
<1>4. DownIsMarked' BY <1>1 DEF DownIsMarked
<1>5. SpawnsTheDead(TRUE) BY <1>1 DEF SpawnsTheDead, Spawned
<1> QED BY <1>2, <1>3, <1>4, <1>5 DEF SpawnInv

LEMMA SpawnInvStep ==
    ASSUME CircleAssumption, RestartQueueInv, SpawnInv(TRUE), [RestartNext]_allVars
    PROVE  SpawnInv(TRUE)' /\ SpawnsTheDead(TRUE)
<1>0. /\ QueueInv
      /\ proc \in [Cast -> Proc]
      /\ record \in [Cast -> Status]
  BY DEF RestartQueueInv, QueueInv, SpawnInv
<1>1. CASE Next /\ daemon # "down"
  <2>1. daemon' = daemon BY <1>0, <1>1, NextRecords
  <2>2. DownIsMarked' BY <1>1, <2>1 DEF DownIsMarked
  <2> QED BY <1>0, <1>1, <2>2, NextSpawn
<1>2. ASSUME daemon = "down", NEW c \in Cast,
             SaysHello(c) \/ AsksForTree(c) \/ Exits(c)
      PROVE  SpawnInv(TRUE)' /\ SpawnsTheDead(TRUE)
  <2>1. CastStep(c) BY <1>2 DEF CastStep
  <2>2. /\ UNCHANGED <<status, left, daemon, mark>>
        /\ \A d \in Cast : proc'[d] \in Live => proc[d] \in Live
    BY <1>2, <1>0 DEF SaysHello, AsksForTree, Exits, viewVars, Live
  <2>3. DownIsMarked' BY <2>2 DEF SpawnInv, DownIsMarked
  <2> QED BY <2>1, <2>3, <1>0, CastStepSpawn
<1>3. CASE Stop
  <2>1. UNCHANGED <<proc, mark, record, line, task>> /\ daemon' = "stopping"
    BY <1>3 DEF Stop, procVars, viewVars, queueVars
  <2> QED BY <2>1 DEF SpawnInv, SpawnsTheDead, Spawned, Stray, DownIsMarked
<1>4. CASE Stopped \/ Killed
  <2>1. /\ (\E written : Forget(written)) /\ record' = record
        /\ proc' \in [Cast -> Proc]
        /\ \A c \in Cast : proc'[c] \in Live => proc[c] \in Live
    BY <1>4, <1>0 DEF Stopped, Killed, Live, Proc
  <2> QED BY <2>1, ForgetSpawn
<1>5. CASE Serve
  BY <1>5, ServeSpawn
<1>6. CASE UNCHANGED allVars
  <2>1. UNCHANGED <<proc, mark, record, line, task, daemon, status, left>>
    BY <1>6 DEF allVars, vars, procVars, viewVars, queueVars
  <2> QED BY <2>1 DEF SpawnInv, SpawnsTheDead, Spawned, Stray, DownIsMarked
<1> QED BY <1>1, <1>2, <1>3, <1>4, <1>5, <1>6 DEF RestartNext

(* No cast is spawned while a process of it is alive whose mark was        *)
(* written, whichever daemon spawned that one, and whenever the daemons    *)
(* were stopped or killed.                                                 *)
THEOREM SpawnedOnceCorrect == RestartSpec => SpawnedOnce
<1>1. RestartInit => RestartQueueInv /\ SpawnInv(TRUE)
  BY RestartQueueInvInit, SpawnInvInit, CircleAssumption DEF RestartInit
<1>2. RestartQueueInv /\ [RestartNext]_allVars => RestartQueueInv'
  BY RestartQueueInvStep, CircleAssumption
<1>3. RestartQueueInv /\ SpawnInv(TRUE) /\ [RestartNext]_allVars
      => SpawnInv(TRUE)' /\ [SpawnsTheDead(TRUE)]_allVars
  BY SpawnInvStep, CircleAssumption
<1>4. SpawnsTheDead(TRUE) =>
        \A c \in Cast : Spawned(c) => proc[c] \notin Live \/ mark[c] = "none"
  BY DEF SpawnsTheDead, Stray
<1> QED BY <1>1, <1>2, <1>3, <1>4, PTL DEF RestartSpec, SpawnedOnce

-----------------------------------------------------------------------------
(* Types over restarts.                                                     *)

(* What a daemon that goes leaves of the types: what a cancelled task      *)
(* gives back is a tree it held.                                           *)
LEMMA ForgetTypes ==
    ASSUME CircleAssumption, NEW written, TypeInv, Forget(written),
           proc' \in [Cast -> Proc], parked' \subseteq parked \cup GivenBack,
           UNCHANGED <<cwd, awaits, record, pool, dirty, counters>>
    PROVE  TypeInv'
<1>0. /\ LeaseInv /\ QueueInv /\ WaitTypes /\ PlaceTypes /\ OtherTypes
      /\ MarkTypes /\ HasItsTree
  BY DEF TypeInv
<1>1. LeaseInv' BY <1>0, ForgetKeeps
<1>2. QueueInv' BY <1>0, ForgetQueueInv
<1>3. GivenBack \subseteq pool
  BY <1>0 DEF GivenBack, HasItsTree, LeaseInv, LeaseTypes, LeasedInPool
<1>4. WaitTypes' BY <1>0 DEF Forget, WaitTypes
<1>5. PlaceTypes' BY <1>0, <1>3 DEF Forget, PlaceTypes
<1>6. OtherTypes' BY <1>0 DEF Forget, OtherTypes, Roots, counters
<1>7. HasItsTree' BY DEF Forget, HasItsTree
<1>8. MarkTypes' BY DEF Forget, MarkTypes, Mark
<1> QED BY <1>1, <1>2, <1>4, <1>5, <1>6, <1>7, <1>8 DEF TypeInv

LEMMA RestartTypeInvStep ==
    ASSUME CircleAssumption, RestartQueueInv, TypeInv, [RestartNext]_allVars
    PROVE  TypeInv'
<1>0. /\ LeaseInv' /\ QueueInv' /\ WaitTypes /\ PlaceTypes /\ OtherTypes
      /\ MarkTypes /\ HasItsTree
      /\ task \in [Cast -> Task] /\ task' \in [Cast -> Task]
  BY RestartLeaseInvStep, RestartQueueInvStep
     DEF TypeInv, RestartQueueInv, QueueInv
<1>1. CASE [Next]_vars
  BY <1>1, TypeInvStep
<1>2. ASSUME NEW c \in Cast, SaysHello(c) \/ AsksForTree(c) \/ Exits(c)
      PROVE  TypeInv'
  BY <1>2, TypeInvStep DEF Next, CastStep
<1>3. CASE Stop
  <2>1. /\ UNCHANGED <<procVars, viewVars, queueVars, leaseVars, gitVars, counters,
                       unread, mark>>
        /\ daemon' = "stopping"
    BY <1>3 DEF Stop
  <2>2. WaitTypes' /\ PlaceTypes' /\ OtherTypes' /\ MarkTypes' /\ HasItsTree'
    BY <1>0, <2>1 DEF WaitTypes, PlaceTypes, OtherTypes, MarkTypes, HasItsTree, procVars,
       viewVars, queueVars, leaseVars, gitVars, counters
  <2> QED BY <1>0, <2>2 DEF TypeInv
<1>4. CASE Stopped \/ Killed
  <2>1. /\ \E written : Forget(written)
        /\ proc' \in [Cast -> Proc]
        /\ parked' \subseteq parked \cup GivenBack
        /\ UNCHANGED <<cwd, awaits, record, pool, dirty, counters>>
    BY <1>0, <1>4 DEF Stopped, Killed, PlaceTypes, Proc, Live, gitVars
  <2> QED BY <2>1, ForgetTypes
<1>5. CASE Serve
  <2>1. /\ \E st, ln : Start(st, record, onChildren, ln, task, heard)
        /\ daemon' = "up"
        /\ UNCHANGED <<proc, cwd, awaits, blocked, leaseVars, gitVars, counters,
                       unread, mark>>
    BY <1>5 DEF Serve
  <2>2. WaitTypes' BY <1>0, <2>1, StartWaits DEF WaitTypes
  <2>3. PlaceTypes' BY <1>0, <2>1 DEF PlaceTypes, gitVars
  <2>4. OtherTypes' BY <1>0, <2>1 DEF OtherTypes, leaseVars, counters
  <2>5. HasItsTree' BY <1>0, <2>1, StartPreparing DEF leaseVars
  <2>6. MarkTypes' BY <1>0, <2>1 DEF MarkTypes
  <2> QED BY <1>0, <2>2, <2>3, <2>4, <2>5, <2>6 DEF TypeInv
<1>6. CASE UNCHANGED allVars
  <2>1. UNCHANGED vars BY <1>6 DEF allVars
  <2> QED BY <1>1, <2>1
<1> QED BY <1>1, <1>2, <1>3, <1>4, <1>5, <1>6 DEF RestartNext

(* Every variable keeps its type over restarts, and no tree is parked or   *)
(* dirty that was never made, whatever a task was at when it was cut off.  *)
THEOREM TypeOverRestarts == RestartSpec => []RestartTypeOK
<1> DEFINE Bounds == twice \in BOOLEAN /\ stops \in 0..MaxStops /\ kills \in 0..MaxKills
<1>1. RestartInit => RestartQueueInv /\ TypeInv /\ Bounds
  <2>1. RestartInit => RestartQueueInv /\ TypeInv
    BY RestartQueueInvInit, TypeInvInit, CircleAssumption DEF RestartInit
  <2>2. RestartInit => stops \in 0..MaxStops /\ kills \in 0..MaxKills
    BY RestartAssumption DEF RestartInit, RestartAssumption
  <2>3. RestartInit => twice \in BOOLEAN BY DEF RestartInit
  <2> QED BY <2>1, <2>2, <2>3
<1>2. RestartQueueInv /\ [RestartNext]_allVars => RestartQueueInv'
  BY RestartQueueInvStep, CircleAssumption
<1>3. RestartQueueInv /\ TypeInv /\ [RestartNext]_allVars => TypeInv'
  BY RestartTypeInvStep, CircleAssumption
<1>4. Bounds /\ [RestartNext]_allVars => Bounds'
  <2>1. ASSUME Bounds, [RestartNext]_allVars
        PROVE  stops' \in 0..MaxStops /\ kills' \in 0..MaxKills
    <3>1. \/ UNCHANGED <<stops, kills>>
          \/ stops < MaxStops /\ stops' = stops + 1 /\ UNCHANGED kills
          \/ kills < MaxKills /\ kills' = kills + 1 /\ UNCHANGED stops
      <4>1. CASE Stop BY <4>1 DEF Stop
      <4>2. CASE Stopped BY <4>2 DEF Stopped
      <4>3. CASE Killed BY <4>3 DEF Killed
      <4>4. CASE Serve BY <4>4 DEF Serve
      <4>5. CASE UNCHANGED allVars BY <4>5 DEF allVars, restartVars
      <4> QED BY <2>1, <4>1, <4>2, <4>3, <4>4, <4>5 DEF RestartNext
    <3> QED BY <2>1, <3>1, RestartAssumption DEF RestartAssumption
  <2>2. ASSUME Bounds, [RestartNext]_allVars PROVE twice' \in BOOLEAN
    <3>1. CASE RestartNext
      <4>1. twice' = \E c \in Cast : Spawned(c) /\ proc[c] \in Live
        BY <3>1 DEF RestartNext
      <4> QED BY <4>1, Zenon
    <3>2. CASE UNCHANGED allVars BY <2>2, <3>2 DEF allVars, restartVars
    <3> QED BY <2>2, <3>1, <3>2
  <2> QED BY <2>1, <2>2
<1>5. TypeInv /\ Bounds => RestartTypeOK
  BY TypeInvTypes, CircleAssumption DEF RestartTypeOK
<1> QED BY <1>1, <1>2, <1>3, <1>4, <1>5, PTL DEF RestartSpec

-----------------------------------------------------------------------------
(* Answers over restarts: no await is told over of a cast still to start.   *)

(* A view says what the journal does.                                      *)
ViewAsRecord == \A c \in Cast : status[c] # "unheard" => record[c] = status[c]

(* Only a cast that was queued or heard of is awaited.                     *)
AwaitedKnown ==
    \A c \in Cast : \A d \in onChildren[c] \cup awaits[c] : record[d] # "unheard"

(* An ending kept for want of a slot is of a cast that is not to start.    *)
EndedRan == \A p \in ended : record[p[2]] \notin {"unheard", "queued"}

(* The inductive invariant, with TypeInv.  The answers go by the views and *)
(* the journal, and AnsweredOnceRun speaks of the queue: it rests on the   *)
(* two agreeing, and on what is no longer queued leaving the queue in the  *)
(* step that answers of it.                                                *)
AnswerInv == ViewAsRecord /\ AwaitedKnown /\ EndedRan

(* What AnsweredOnceRun says of a step.                                    *)
AnswersRun ==
    \A c, d \in Cast : d \in heard'[c] \ heard[c] =>
        /\ record'[d] # "queued"
        /\ line'[d] = 0

(* No record goes back to what it was.                                     *)
RecordsOn ==
    \A d \in Cast :
        /\ record[d] # "unheard" => record'[d] # "unheard"
        /\ record[d] \notin {"unheard", "queued"} =>
               record'[d] \notin {"unheard", "queued"}

LEMMA StillKnown ==
    ASSUME TypeInv, AnswerInv, RecordsOn
    PROVE  /\ \A c \in Cast : \A d \in onChildren[c] \cup awaits[c] :
                  record'[d] # "unheard"
           /\ \A p \in ended : record'[p[2]] \notin {"unheard", "queued"}
<1>1. /\ \A c \in Cast : onChildren[c] \subseteq Cast /\ awaits[c] \subseteq Cast
      /\ \A p \in ended : p[2] \in Cast
  BY DEF TypeInv, WaitTypes
<1> QED BY <1>1 DEF AnswerInv, AwaitedKnown, EndedRan, RecordsOn

(* Starting what can start answers of what ran, if all else is in order.   *)
LEMMA StartAnswers ==
    ASSUME CircleAssumption, NEW oc \in [Cast -> SUBSET Cast],
           NEW ln \in [Cast -> Nat], NEW tk \in [Cast -> Task], NEW hd \in [Cast -> SUBSET Cast],
           Start(status', record', oc, ln, tk, hd),
           \A c \in Cast : hd[c] \subseteq heard[c],
           ViewAsRecord',
           \A c \in Cast : \A d \in oc[c] \cup awaits'[c] : record'[d] # "unheard",
           \A p \in ended : record'[p[2]] \notin {"unheard", "queued"}
    PROVE  AnswerInv' /\ AnswersRun
<1> DEFINE due == Due(status', record', oc)
<1>1. PICK replies \in SUBSET due :
        /\ onChildren' = Replied(oc, replies)
        /\ heard' = [c \in Cast |->
                        IF daemon = "up" /\ proc'[c] = "attached"
                        THEN hd[c] \cup {d \in Cast : <<c, d>> \in replies}
                        ELSE hd[c]]
        /\ ended' = due \ replies
        /\ \E gone : InLine(ln) \ Queued(status', ln) \subseteq gone
                    /\ line' = Without(ln, gone)
  BY DEF Start
<1>2. \A d \in Cast : status'[d] # "queued" => line'[d] = 0
  <2>1. PICK gone : InLine(ln) \ Queued(status', ln) \subseteq gone
                    /\ line' = Without(ln, gone)
    BY <1>1
  <2>2. \A d \in Cast : status'[d] # "queued" => d \in gone \/ ln[d] = 0
    BY <2>1 DEF InLine, Queued
  <2> QED BY <2>1, <2>2 DEF Without
<1>4. ASSUME NEW p \in due PROVE record'[p[2]] \notin {"unheard", "queued"}
  <2>1. /\ p[1] \in Cast /\ p[2] \in Cast /\ p[2] \in oc[p[1]]
        /\ p \in ended \/ HasEnded(status', record', p[2])
    BY DEF Due, CircleAssumption
  <2>2. record'[p[2]] # "unheard" BY <2>1
  <2> QED BY <2>1, <2>2 DEF HasEnded, ViewAsRecord
<1>5. EndedRan' BY <1>1, <1>4 DEF EndedRan
<1>6. AwaitedKnown'
  <2>1. \A c \in Cast : onChildren'[c] \subseteq oc[c] BY <1>1 DEF Replied
  <2> QED BY <2>1 DEF AwaitedKnown
<1>7. AnswersRun
  <2>1. SUFFICES ASSUME NEW c \in Cast, NEW d \in Cast, d \in heard'[c] \ heard[c]
                 PROVE  record'[d] # "queued" /\ line'[d] = 0
    BY DEF AnswersRun
  <2>2. <<c, d>> \in due BY <1>1, <2>1
  <2>3. record'[d] # "queued" BY <1>4, <2>2
  <2>4. status'[d] # "queued" BY <2>3 DEF ViewAsRecord
  <2> QED BY <1>2, <2>3, <2>4
<1> QED BY <1>5, <1>6, <1>7 DEF AnswerInv

(* A step that answers nobody.                                             *)
LEMMA AnswerQuiet ==
    ASSUME TypeInv, AnswerInv, RecordsOn, ended' = ended, ViewAsRecord',
           \A c \in Cast : heard'[c] \subseteq heard[c],
           \A c \in Cast : awaits'[c] \subseteq awaits[c],
           \A c \in Cast : onChildren'[c] \subseteq onChildren[c] \cup awaits[c]
    PROVE  AnswerInv' /\ AnswersRun
<1>1. AwaitedKnown' /\ EndedRan' BY StillKnown DEF AwaitedKnown, EndedRan
<1>2. AnswersRun BY DEF AnswersRun
<1> QED BY <1>1, <1>2 DEF AnswerInv

LEMMA CastStepAnswers ==
    ASSUME CircleAssumption, TypeInv, AnswerInv, NEW c \in Cast, CastStep(c)
    PROVE  AnswerInv' /\ AnswersRun
<1> USE DEF Status
<1>0. /\ task \in [Cast -> Task]
      /\ record \in [Cast -> Status] /\ status \in [Cast -> Status]
      /\ proc \in [Cast -> Proc]
      /\ onChildren \in [Cast -> SUBSET Cast] /\ awaits \in [Cast -> SUBSET Cast]
      /\ heard \in [Cast -> SUBSET Cast]
      /\ line \in [Cast -> Nat]
      /\ ViewAsRecord
  BY DEF TypeInv, QueueInv, Places, WaitTypes, PlaceTypes, AnswerInv
<1>2. CASE Typed(c) \/ SaysHello(c)
  <2>1. /\ UNCHANGED <<awaits, heard, ended>>
        /\ \/ /\ record' = [record EXCEPT ![c] = "running"]
              /\ status' = [status EXCEPT ![c] = "running"]
           \/ UNCHANGED <<record, status>>
        /\ onChildren' = onChildren \/ onChildren' = [onChildren EXCEPT ![c] = {}]
    BY <1>2 DEF Typed, SaysHello, queueVars, viewVars
  <2>2. ViewAsRecord' /\ RecordsOn BY <1>0, <2>1 DEF ViewAsRecord, RecordsOn
  <2>3. \A d \in Cast : onChildren'[d] \subseteq onChildren[d] BY <1>0, <2>1
  <2> QED BY <2>1, <2>2, <2>3, AnswerQuiet
<1>3. CASE AsksForTree(c) \/ Exits(c)
  <2>1. /\ \A d \in Cast : awaits'[d] \subseteq awaits[d]
        /\ UNCHANGED <<record, status, onChildren, heard, ended>>
    BY <1>3, <1>0 DEF AsksForTree, Exits, viewVars, queueVars
  <2>2. ViewAsRecord' /\ RecordsOn BY <1>0, <2>1 DEF ViewAsRecord, RecordsOn
  <2> QED BY <2>1, <2>2, AnswerQuiet
<1>4. CASE Drops(c)
  <2>1. /\ heard' = [heard EXCEPT ![c] = {}]
        /\ UNCHANGED <<awaits, record, status, onChildren, ended>>
    BY <1>4 DEF Drops, viewVars, queueVars
  <2>2. \A d \in Cast : heard'[d] \subseteq heard[d] BY <1>0, <2>1
  <2>3. ViewAsRecord' /\ RecordsOn BY <1>0, <2>1 DEF ViewAsRecord, RecordsOn
  <2> QED BY <2>1, <2>2, <2>3, AnswerQuiet
<1>5. ASSUME NEW child \in Cast, Hears(c, child) PROVE AnswerInv' /\ AnswersRun
  <2>1. /\ heard' = [heard EXCEPT ![c] = @ \ {child}]
        /\ awaits' = [awaits EXCEPT ![c] = @ \ {child}]
        /\ UNCHANGED <<proc, record, status, onChildren, line, task, ended>>
    BY <1>5 DEF Hears, viewVars, queueVars
  <2>2. \A d \in Cast : heard'[d] \subseteq heard[d] /\ awaits'[d] \subseteq awaits[d]
    BY <1>0, <2>1
  <2>3. ViewAsRecord' /\ RecordsOn BY <1>0, <2>1 DEF ViewAsRecord, RecordsOn
  <2> QED BY <2>1, <2>2, <2>3, AnswerQuiet
<1>6. ASSUME NEW child \in Cast, AwaitsChild(c, child)
      PROVE  AnswerInv' /\ AnswersRun
  <2> DEFINE oc == [onChildren EXCEPT ![c] = @ \cup {child}]
  <2>1. /\ record[child] # "unheard"
        /\ awaits' = [awaits EXCEPT ![c] = @ \cup {child}]
        /\ UNCHANGED <<proc, status, record>>
        /\ Start(status', record', oc, line, task, heard)
    BY <1>6 DEF AwaitsChild
  <2>2. ViewAsRecord' /\ RecordsOn BY <1>0, <2>1 DEF ViewAsRecord, RecordsOn
  <2>3. oc \in [Cast -> SUBSET Cast]
        /\ \A d \in Cast : \A e \in oc[d] \cup awaits'[d] :
              e = child \/ e \in onChildren[d] \cup awaits[d]
    BY <1>0, <2>1
  <2> HIDE DEF oc
  <2>4. \A d \in Cast : \A e \in oc[d] \cup awaits'[d] : record'[e] # "unheard"
    BY <2>1, <2>2, <2>3, StillKnown
  <2>6. \A p \in ended : record'[p[2]] \notin {"unheard", "queued"}
    BY <2>2, StillKnown
  <2>7. /\ Start(status', record', oc, line, task, heard)
        /\ oc \in [Cast -> SUBSET Cast] /\ ViewAsRecord'
        /\ task \in [Cast -> Task] /\ heard \in [Cast -> SUBSET Cast]
        /\ \A d \in Cast : heard[d] \subseteq heard[d]
    BY <1>0, <2>1, <2>2, <2>3
  <2> QED BY <1>0, <2>4, <2>6, <2>7, StartAnswers
<1>7. ASSUME NEW child \in Cast, Withdraws(c, child)
      PROVE  AnswerInv' /\ AnswersRun
  <2> DEFINE oc == [onChildren EXCEPT ![c] = @ \ {child}]
             hd == [heard EXCEPT ![c] = @ \ {child}]
  <2>1. /\ awaits' = [awaits EXCEPT ![c] = @ \ {child}]
        /\ UNCHANGED <<proc, status, record>>
        /\ \/ Start(status', record', oc, line, task, hd)
           \/ UNCHANGED <<heard, onChildren, line, task, ended>>
    BY <1>7 DEF Withdraws, queueVars
  <2>2. ViewAsRecord' /\ RecordsOn BY <1>0, <2>1 DEF ViewAsRecord, RecordsOn
  <2>3. /\ oc \in [Cast -> SUBSET Cast]
        /\ hd \in [Cast -> SUBSET Cast] /\ \A d \in Cast : hd[d] \subseteq heard[d]
        /\ \A d \in Cast : awaits'[d] \subseteq awaits[d] /\ oc[d] \subseteq onChildren[d]
    BY <1>0, <2>1
  <2> HIDE DEF oc, hd
  <2>5. CASE Start(status', record', oc, line, task, hd)
    <3>1. \A d \in Cast : \A e \in oc[d] \cup awaits'[d] : record'[e] # "unheard"
      BY <2>2, <2>3, StillKnown
    <3>2. \A p \in ended : record'[p[2]] \notin {"unheard", "queued"}
      BY <2>2, StillKnown
    <3> QED BY <1>0, <2>2, <2>3, <2>5, <3>1, <3>2, StartAnswers
  <2>6. CASE UNCHANGED <<heard, onChildren, line, task, ended>>
    BY <2>2, <2>3, <2>6, AnswerQuiet
  <2> QED BY <2>1, <2>5, <2>6
(* What is heard of it changes its word, and its view's.                   *)
<1>8. ASSUME NEW word \in {"running", "ended", "disconnected"},
             NEW oc \in [Cast -> SUBSET Cast], NEW hd \in [Cast -> SUBSET Cast],
             status' = [status EXCEPT ![c] = word],
             record' = [record EXCEPT ![c] = word],
             awaits' = awaits,
             \A d \in Cast : oc[d] \subseteq onChildren[d] \cup awaits[d],
             \A d \in Cast : hd[d] \subseteq heard[d],
             \/ Start(status', record', oc, line, task, hd)
             \/ /\ onChildren' = oc
                /\ UNCHANGED <<heard, line, task, ended>>
      PROVE  AnswerInv' /\ AnswersRun
  <2>1. ViewAsRecord' /\ RecordsOn BY <1>0, <1>8 DEF ViewAsRecord, RecordsOn
  <2>3. CASE Start(status', record', oc, line, task, hd)
    <3>1. \A d \in Cast : \A e \in oc[d] \cup awaits'[d] : record'[e] # "unheard"
      BY <1>8, <2>1, StillKnown
    <3>2. \A p \in ended : record'[p[2]] \notin {"unheard", "queued"}
      BY <2>1, StillKnown
    <3>3. task \in [Cast -> Task] /\ ViewAsRecord' BY <1>0, <2>1
    <3>4. \A d \in Cast : hd[d] \subseteq heard[d] BY <1>8
    <3> QED BY <1>0, <2>3, <3>1, <3>2, <3>3, <3>4, StartAnswers
  <2>4. CASE onChildren' = oc /\ UNCHANGED <<heard, line, task, ended>>
    BY <1>8, <2>1, <2>4, AnswerQuiet
  <2> QED BY <1>8, <2>3, <2>4
<1>9. /\ [onChildren EXCEPT ![c] = {}] \in [Cast -> SUBSET Cast]
      /\ [onChildren EXCEPT ![c] = awaits[c]] \in [Cast -> SUBSET Cast]
      /\ [heard EXCEPT ![c] = {}] \in [Cast -> SUBSET Cast]
      /\ \A d \in Cast :
            /\ [onChildren EXCEPT ![c] = {}][d] \subseteq onChildren[d] \cup awaits[d]
            /\ [onChildren EXCEPT ![c] = awaits[c]][d]
                  \subseteq onChildren[d] \cup awaits[d]
            /\ [heard EXCEPT ![c] = {}][d] \subseteq heard[d]
  BY <1>0
<1>10. CASE Ends(c) \/ Noticed(c)
  <2>1. PICK word \in {"ended", "disconnected"} : Goodbye(c, word, task, heard)
    BY <1>10 DEF Ends, Noticed
  <2>2. /\ status' = [status EXCEPT ![c] = word]
        /\ record' = [record EXCEPT ![c] = word]
        /\ Start(status', record', [onChildren EXCEPT ![c] = {}], line, task, heard)
    BY <2>1 DEF Goodbye
  <2>3. awaits' = awaits BY <1>10 DEF Ends, Noticed
  <2> QED BY <1>0, <1>8, <1>9, <2>2, <2>3
<1>12. CASE Reattaches(c)
  <2>1. /\ status' = [status EXCEPT ![c] = "running"]
        /\ record' = [record EXCEPT ![c] = "running"]
        /\ awaits' = awaits
        /\ \/ Start(status', record', [onChildren EXCEPT ![c] = awaits[c]], line,
                    task, heard)
           \/ /\ onChildren' = [onChildren EXCEPT ![c] = awaits[c]]
              /\ UNCHANGED <<heard, line, task, ended>>
    BY <1>12 DEF Reattaches, queueVars
  <2> QED BY <1>0, <1>8, <1>9, <2>1
<1> QED BY <1>2, <1>3, <1>4, <1>5, <1>6, <1>7, <1>10, <1>12 DEF CastStep

(* The end of a task: whoever it leaves queued has failed.                 *)
LEMMA FinishAnswers ==
    ASSUME CircleAssumption, TypeInv, AnswerInv, NEW c \in Cast, NEW bl,
           Finish(c, bl), task[c] # "none", awaits' = awaits
    PROVE  AnswerInv' /\ AnswersRun
<1> USE DEF Status
<1> DEFINE tk == [task EXCEPT ![c] = "none"]
           oc == IF status[c] = "queued" THEN [onChildren EXCEPT ![c] = {}]
                 ELSE onChildren
<1>0. /\ task \in [Cast -> Task]
      /\ record \in [Cast -> Status] /\ status \in [Cast -> Status]
      /\ onChildren \in [Cast -> SUBSET Cast]
      /\ heard \in [Cast -> SUBSET Cast]
      /\ line \in [Cast -> Nat]
      /\ ViewAsRecord
  BY DEF TypeInv, QueueInv, Places, WaitTypes, AnswerInv
<1>1. /\ status' = IF status[c] = "queued" THEN [status EXCEPT ![c] = "ended"]
                   ELSE status
      /\ record' = IF status[c] = "queued" THEN [record EXCEPT ![c] = "ended"]
                   ELSE record
      /\ Start(status', record', oc, line, tk, heard)
  BY DEF Finish
<1>2. ViewAsRecord' /\ RecordsOn
  BY <1>0, <1>1 DEF ViewAsRecord, RecordsOn
<1>3. /\ tk \in [Cast -> Task] /\ tk[c] = "none"
      /\ \A d \in Cast \ {c} : tk[d] = task[d] /\ record'[d] = record[d]
      /\ oc \in [Cast -> SUBSET Cast]
      /\ \A d \in Cast : oc[d] \subseteq onChildren[d]
      /\ \A d \in Cast : heard[d] \subseteq heard[d]
  BY <1>0, <1>1 DEF Task
<1> HIDE DEF tk, oc
<1>5. /\ \A d \in Cast : \A e \in oc[d] \cup awaits'[d] : record'[e] # "unheard"
      /\ \A p \in ended : record'[p[2]] \notin {"unheard", "queued"}
  BY <1>2, <1>3, StillKnown
<1> QED BY <1>0, <1>1, <1>2, <1>3, <1>5, StartAnswers

LEMMA TaskStepAnswers ==
    ASSUME CircleAssumption, TypeInv, AnswerInv, NEW c \in Cast, TaskStep(c)
    PROVE  AnswerInv' /\ AnswersRun
<1>0. /\ onChildren \in [Cast -> SUBSET Cast]
      /\ awaits \in [Cast -> SUBSET Cast]
      /\ heard \in [Cast -> SUBSET Cast]
      /\ ViewAsRecord
  BY DEF TypeInv, WaitTypes, AnswerInv
(* Nobody is answered.                                                     *)
<1>1. ASSUME UNCHANGED <<record, status, onChildren, ended>>,
             \A d \in Cast : heard'[d] \subseteq heard[d],
             \A d \in Cast : awaits'[d] \subseteq awaits[d]
      PROVE  AnswerInv' /\ AnswersRun
  <2>1. ViewAsRecord' /\ RecordsOn BY <1>0, <1>1 DEF ViewAsRecord, RecordsOn
  <2> QED BY <1>1, <2>1, AnswerQuiet
<1>2. CASE (Probed(c) /\ proc[c] # "wantsTree") \/ Releases(c)
  <2>1. /\ \E bl : Finish(c, bl)
        /\ task[c] # "none" /\ awaits' = awaits
    BY <1>2 DEF Probed, Releases
  <2> QED BY <2>1, FinishAnswers
<1>3. CASE Marks(c)
  <2>1. /\ UNCHANGED <<record, status, onChildren, ended>>
        /\ \/ UNCHANGED <<awaits, heard>>
           \/ /\ awaits' = [awaits EXCEPT ![c] = {}]
              /\ heard' = [heard EXCEPT ![c] = {}]
    BY <1>3 DEF Marks, viewVars, queueVars
  <2>2. \A d \in Cast : heard'[d] \subseteq heard[d] /\ awaits'[d] \subseteq awaits[d]
    BY <1>0, <2>1
  <2> QED BY <1>1, <2>1, <2>2
<1>4. CASE ~(Probed(c) /\ proc[c] # "wantsTree") /\ ~Releases(c) /\ ~Marks(c)
  <2>1. UNCHANGED <<awaits, heard, record, status, onChildren, ended>>
    BY <1>4 DEF TaskStep, Begins, Probed, LeaseBegins, Leases, WaitsForTree,
                LeaseFails, Prepared, PrepareFails, Ran, procVars, viewVars
  <2> QED BY <1>1, <2>1
<1> QED BY <1>2, <1>3, <1>4

(* What the next daemon answers as it starts.                              *)
LEMMA ServeAnswers ==
    ASSUME CircleAssumption, TypeInv, RestartQueueInv, AnswerInv, Serve
    PROVE  AnswerInv' /\ AnswersRun
<1> DEFINE waiting == Waiting \ LeftLive(status)
<1>1. /\ daemon = "down"
      /\ status' = [c \in Cast |-> IF c \in waiting THEN "queued" ELSE "unheard"]
      /\ UNCHANGED <<record, proc, awaits>>
  BY DEF Serve
<1>2. PICK place \in [waiting -> 1..Cardinality(waiting)] :
        /\ \A c, d \in waiting : place[c] = place[d] => c = d
        /\ Start(status', record', onChildren,
                 [c \in Cast |-> IF c \in waiting THEN place[c] ELSE 0], task, heard)
  BY <1>1 DEF Serve
<1>3. waiting \in SUBSET Cast /\ \A c \in waiting : record[c] = "queued"
  BY DEF Waiting
<1> DEFINE ln == [c \in Cast |-> IF c \in waiting THEN place[c] ELSE 0]
<1> HIDE DEF waiting
<1>5. ln \in [Cast -> Nat]
  BY <1>2, <1>3, ReadBackPlaces DEF Places
<1>6. Start(status', record', onChildren, ln, task, heard)
  BY <1>2
<1> HIDE DEF ln
<1>8. ViewAsRecord' /\ RecordsOn
  BY <1>1, <1>3 DEF ViewAsRecord, RecordsOn
<1>9. /\ \A c \in Cast : \A d \in onChildren[c] \cup awaits'[c] : record'[d] # "unheard"
      /\ \A p \in ended : record'[p[2]] \notin {"unheard", "queued"}
  BY <1>1, <1>8, StillKnown
<1>10. /\ task \in [Cast -> Task] /\ onChildren \in [Cast -> SUBSET Cast]
       /\ heard \in [Cast -> SUBSET Cast]
       /\ \A c \in Cast : heard[c] \subseteq heard[c]
  BY DEF TypeInv, QueueInv, WaitTypes
<1> QED BY <1>5, <1>6, <1>8, <1>9, <1>10, StartAnswers

LEMMA AnswerInvStep ==
    ASSUME CircleAssumption, TypeInv, RestartQueueInv, AnswerInv,
           [RestartNext]_allVars
    PROVE  AnswerInv' /\ AnswersRun
<1>0. /\ task \in [Cast -> Task]
      /\ record \in [Cast -> Status] /\ status \in [Cast -> Status]
      /\ line \in [Cast -> Nat]
      /\ onChildren \in [Cast -> SUBSET Cast]
      /\ heard \in [Cast -> SUBSET Cast]
      /\ ViewAsRecord
  BY DEF TypeInv, QueueInv, Places, WaitTypes, AnswerInv
<1>1. ASSUME NEW c \in Cast, Enqueue(c) PROVE AnswerInv' /\ AnswersRun
  <2> DEFINE ln == Appended(line, c)
  <2>1. /\ record[c] = "unheard"
        /\ status' = [status EXCEPT ![c] = "queued"]
        /\ record' = [record EXCEPT ![c] = "queued"]
        /\ UNCHANGED <<proc, awaits>>
        /\ Start(status', record', onChildren, ln, task, heard)
    BY <1>1 DEF Enqueue
  <2>2. /\ record'[c] = "queued" /\ status'[c] = "queued"
        /\ \A d \in Cast \ {c} : record'[d] = record[d] /\ status'[d] = status[d]
        /\ ln \in [Cast -> Nat]
    BY <1>0, <2>1, AppendedPlaces DEF Places, TypeInv, QueueInv, InLineIdle
  <2> HIDE DEF ln
  <2>3. ViewAsRecord' /\ RecordsOn
    BY <1>0, <2>1, <2>2 DEF ViewAsRecord, RecordsOn
  <2>5. /\ \A d \in Cast : \A e \in onChildren[d] \cup awaits'[d] : record'[e] # "unheard"
        /\ \A p \in ended : record'[p[2]] \notin {"unheard", "queued"}
    BY <2>1, <2>3, StillKnown
  <2>6. \A d \in Cast : heard[d] \subseteq heard[d] OBVIOUS
  <2> QED BY <1>0, <2>1, <2>2, <2>3, <2>5, <2>6, StartAnswers
<1>2. ASSUME NEW c \in Cast, TaskStep(c) PROVE AnswerInv' /\ AnswersRun
  BY <1>2, TaskStepAnswers
<1>3. ASSUME NEW c \in Cast, CastStep(c) PROVE AnswerInv' /\ AnswersRun
  BY <1>3, CastStepAnswers
<1>4. CASE \/ Purify \/ PurifyBegins \/ Purified \/ CleanedByHand
           \/ Stop \/ UNCHANGED allVars
  <2>1. UNCHANGED <<proc, awaits, heard, record, status, onChildren, line, task, ended>>
    BY <1>4 DEF Purify, PurifyBegins, Purified, CleanedByHand, Stop, allVars, vars,
                procVars, viewVars, queueVars
  <2>2. AnswerInv' BY <2>1 DEF AnswerInv, ViewAsRecord, AwaitedKnown, EndedRan
  <2>3. AnswersRun BY <2>1 DEF AnswersRun
  <2> QED BY <2>2, <2>3
<1>5. CASE Stopped \/ Killed
  <2>1. /\ status' = [c \in Cast |-> "unheard"]
        /\ onChildren' = [c \in Cast |-> {}]
        /\ line' = [c \in Cast |-> 0]
        /\ task' = [c \in Cast |-> "none"]
        /\ heard' = [c \in Cast |-> {}]
        /\ ended' = {}
        /\ UNCHANGED <<record, awaits>>
    BY <1>5 DEF Stopped, Killed, Forget
  <2>3. ViewAsRecord' BY <2>1 DEF ViewAsRecord
  <2>4. AwaitedKnown' /\ EndedRan'
    BY <2>1 DEF AnswerInv, AwaitedKnown, EndedRan
  <2>5. AnswersRun BY <2>1 DEF AnswersRun
  <2> QED BY <2>3, <2>4, <2>5 DEF AnswerInv
<1>6. CASE Serve
  BY <1>6, ServeAnswers
<1>7. ASSUME NEW c \in Cast, SaysHello(c) \/ AsksForTree(c) \/ Exits(c)
      PROVE  AnswerInv' /\ AnswersRun
  BY <1>3, <1>7 DEF CastStep
<1> QED BY <1>1, <1>2, <1>3, <1>4, <1>5, <1>6, <1>7 DEF RestartNext, Next

LEMMA AnswerInvInit == ASSUME RestartInit PROVE AnswerInv
  BY DEF RestartInit, Init, AnswerInv, ViewAsRecord, AwaitedKnown, EndedRan

(* An await is told over of a cast that has run or was failed, never of    *)
(* one still to start, whichever daemon took the await, read the queue     *)
(* back or answers.                                                        *)
THEOREM AnsweredOnceRunCorrect == RestartSpec => AnsweredOnceRun
<1>1. RestartInit => RestartQueueInv /\ TypeInv /\ AnswerInv
  BY RestartQueueInvInit, TypeInvInit, AnswerInvInit, CircleAssumption
     DEF RestartInit
<1>2. RestartQueueInv /\ [RestartNext]_allVars => RestartQueueInv'
  BY RestartQueueInvStep, CircleAssumption
<1>3. RestartQueueInv /\ TypeInv /\ [RestartNext]_allVars => TypeInv'
  BY RestartTypeInvStep, CircleAssumption
<1>4. TypeInv /\ RestartQueueInv /\ AnswerInv /\ [RestartNext]_allVars
      => AnswerInv' /\ [AnswersRun]_vars
  BY AnswerInvStep, CircleAssumption
<1> QED BY <1>1, <1>2, <1>3, <1>4, PTL DEF RestartSpec, AnsweredOnceRun, AnswersRun

-----------------------------------------------------------------------------
(* The limit over restarts: those left behind count.                        *)

(* With no daemon nobody is attached, and no connection is left to read.   *)
DownIsQuiet ==
    daemon = "down" => \A c \in Cast : proc[c] # "attached" /\ unread[c] = 0

(* The inductive invariant, with the types and SpawnInv(TRUE).  The casts  *)
(* in a slot are those counted up to the step that spawns a cast beside    *)
(* itself, with which a behaviour ends: the two would share one view.      *)
RestartSlotInv == (twice \/ SlotInv) /\ DownIsQuiet

(* A daemon that goes leaves a mark of each process, or counts it no more. *)
LEMMA ForgetSlot ==
    ASSUME NEW written, Forget(written),
           \A c \in Cast : /\ proc'[c] # "attached"
                           /\ proc'[c] \in Live => proc[c] \in Live
    PROVE  SlotInv' /\ DownIsQuiet' /\ WithinLimit
<1>1. /\ status' = [c \in Cast |-> "unheard"]
      /\ line' = [c \in Cast |-> 0]
      /\ unread' = [c \in Cast |-> 0]
      /\ task' = [c \in Cast |-> "none"]
      /\ heard' = [c \in Cast |-> {}]
      /\ onChildren' = [c \in Cast |-> {}]
      /\ left' = {c \in Cast : mark'[c] = "written" /\ proc[c] \in Live}
      /\ mark' = [c \in Cast |->
                     IF proc[c] \in Live /\ (mark[c] = "written" \/ c \in written)
                     THEN "written" ELSE "none"]
  BY DEF Forget, LeftMarked
<1>2. ASSUME NEW c \in Cast PROVE SlotOf(c)'
  <2>1. proc'[c] \in {"silent", "detached"} => c \in left' \/ mark'[c] = "none"
    BY <1>1 DEF Live
  <2> QED BY <1>1, <2>1 DEF SlotOf
<1>3. SlotInv' BY <1>2 DEF SlotInv
<1>4. DownIsQuiet' BY <1>1 DEF DownIsQuiet
<1>5. WithinLimit BY <1>1, SlotQuiet
<1> QED BY <1>3, <1>4, <1>5

(* The next daemon starts no more than those left behind leave slots for.  *)
LEMMA ServeSlot ==
    ASSUME CircleAssumption, TypeInv, RestartQueueInv, SpawnInv(TRUE), SlotInv,
           DownIsQuiet, Serve
    PROVE  SlotInv' /\ DownIsQuiet' /\ WithinLimit
<1> DEFINE waiting == Waiting \ LeftLive(status)
<1>1. /\ daemon = "down" /\ daemon' = "up"
      /\ status' = [c \in Cast |-> IF c \in waiting THEN "queued" ELSE "unheard"]
      /\ UNCHANGED <<record, proc, left, mark, unread>>
  BY DEF Serve
<1>2. PICK place \in [waiting -> 1..Cardinality(waiting)] :
        /\ \A c, d \in waiting : place[c] = place[d] => c = d
        /\ Start(status', record, onChildren,
                 [c \in Cast |-> IF c \in waiting THEN place[c] ELSE 0], task, heard)
  BY <1>1 DEF Serve
<1>3. waiting \in SUBSET Cast /\ waiting \cap LeftLive(status) = {}
  BY DEF Waiting
<1>4. /\ \A c \in Cast : /\ task[c] = "none" /\ status[c] = "unheard"
                         /\ proc[c] # "attached" /\ unread[c] = 0
      /\ task \in [Cast -> Task] /\ left \subseteq Cast
  BY <1>1 DEF RestartQueueInv, DownIsIdle, SpawnInv, DownIsMarked, DownIsQuiet,
              TypeInv, QueueInv
<1> DEFINE ln == [c \in Cast |-> IF c \in waiting THEN place[c] ELSE 0]
<1> HIDE DEF waiting
<1>5. Places(ln) /\ \A c \in Cast : ln[c] # 0 <=> c \in waiting
  BY <1>2, <1>3, ReadBackPlaces
<1>6. Start(status', record, onChildren, ln, task, heard)
  BY <1>2
<1> HIDE DEF ln
<1>7. Started(ln, task) BY <1>4, <1>6, StartLine
<1>8. ASSUME NEW c \in Cast PROVE SlotOf(c)'
  <2>1. SlotOf(c) BY DEF SlotInv
  <2>2. /\ proc'[c] # "attached" /\ heard'[c] = {}
        /\ onChildren'[c] \subseteq onChildren[c]
    <3>1. /\ onChildren'[c] \subseteq onChildren[c]
          /\ proc'[c] # "attached" => heard'[c] = heard[c]
      BY <1>6, StartAnswered
    <3> QED BY <1>1, <1>4, <2>1, <3>1 DEF SlotOf
  <2>3. proc'[c] \in {"silent", "detached"} =>
            (c \in left' /\ status'[c] = "unheard") \/ mark'[c] = "none"
    <3>1. proc[c] \in {"silent", "detached"} => c \in left \/ mark[c] = "none"
      BY <1>4, <2>1 DEF SlotOf
    <3>2. c \in left /\ proc[c] \in {"silent", "detached"} => c \notin waiting
      BY <1>3, <1>4 DEF LeftLive, Live
    <3> QED BY <1>1, <3>1, <3>2
  <2>4. line'[c] # 0 \/ task'[c] # "none" \/ unread'[c] # 0 => status'[c] # "unheard"
    <3>1. line'[c] # 0 \/ task'[c] # "none" => ln[c] # 0
      BY <1>4, <1>7 DEF Started
    <3> QED BY <1>1, <1>4, <1>5, <3>1
  <2>5. record'[c] = "unheard" => onChildren'[c] = {}
    BY <1>1, <2>1, <2>2 DEF SlotOf
  <2> QED BY <2>2, <2>3, <2>4, <2>5 DEF SlotOf
<1>9. SlotInv' BY <1>8 DEF SlotInv
<1>10. /\ \A c \in Cast : proc'[c] \in Live => proc[c] \in Live
       /\ \A c \in Cast : heard[c] \subseteq heard[c]
       /\ \A c \in Cast : task[c] = "none" => task[c] = "none"
  BY <1>1
<1>11. WithinLimit BY <1>1, <1>4, <1>5, <1>6, <1>9, <1>10, SlotStart
<1> QED BY <1>1, <1>9, <1>11 DEF DownIsQuiet

LEMMA RestartSlotInvStep ==
    ASSUME CircleAssumption, TypeInv, RestartQueueInv, SpawnInv(TRUE), RestartSlotInv,
           [RestartNext]_allVars
    PROVE  RestartSlotInv' /\ WithinLimit
<1>1. CASE UNCHANGED allVars
  <2>1. UNCHANGED <<procVars, status, record, onChildren, line, task, left, unread, mark,
                    daemon, twice>>
    BY <1>1 DEF allVars, vars, viewVars, queueVars, restartVars
  <2>2. WithinLimit BY <2>1, SlotQuiet DEF procVars
  <2>3. SlotInv => SlotInv' BY <2>1 DEF SlotInv, SlotOf, procVars
  <2> QED BY <2>1, <2>2, <2>3 DEF RestartSlotInv, DownIsQuiet, procVars
<1>2. CASE RestartNext
  <2>1. SlotInv /\ DownIsQuiet BY <1>2 DEF RestartNext, RestartSlotInv
  <2>2. twice' \/ \A c \in Cast : Spawned(c) => proc[c] \notin Live
    BY <1>2 DEF RestartNext
  <2>3. SlotTypes BY TypeInvSlot
  <2>4. SUFFICES DownIsQuiet' /\ WithinLimit
                 /\ ((\A c \in Cast : Spawned(c) => proc[c] \notin Live) => SlotInv')
    BY <2>2 DEF RestartSlotInv
  <2>5. CASE daemon # "down" /\ Next
    <3>1. daemon' = daemon
      BY <2>3, <2>5, NextRecords DEF SlotTypes
    <3>2. DownIsQuiet' BY <2>5, <3>1 DEF DownIsQuiet
    <3> QED BY <2>1, <2>3, <2>5, <3>2, SlotInvStep
  <2>6. ASSUME daemon = "down", NEW c \in Cast,
               SaysHello(c) \/ AsksForTree(c) \/ Exits(c)
        PROVE  SlotInv' /\ DownIsQuiet' /\ WithinLimit
    <3>1. SlotInv' /\ WithinLimit
      BY <2>1, <2>3, <2>6, CastStepSlot DEF CastStep
    <3>2. UNCHANGED unread /\ \A d \in Cast : proc'[d] = "attached" => proc[d] = "attached"
      BY <2>3, <2>6 DEF SaysHello, AsksForTree, Exits, SlotTypes
    <3> QED BY <2>1, <2>6, <3>1, <3>2 DEF DownIsQuiet
  <2>7. CASE Stop
    <3>1. /\ UNCHANGED <<procVars, status, record, onChildren, line, task, left, unread,
                         mark>>
          /\ daemon' = "stopping"
      BY <2>7 DEF Stop, viewVars, queueVars
    <3>2. SlotInv' BY <2>1, <3>1 DEF SlotInv, SlotOf, procVars
    <3>3. WithinLimit BY <3>1, SlotQuiet DEF procVars
    <3> QED BY <3>1, <3>2, <3>3 DEF DownIsQuiet
  <2>8. CASE Stopped \/ Killed
    <3>1. /\ \E written : Forget(written)
          /\ \A c \in Cast : /\ proc'[c] # "attached"
                             /\ proc'[c] \in Live => proc[c] \in Live
      BY <2>8 DEF Stopped, Killed, Live
    <3> QED BY <3>1, ForgetSlot
  <2>9. CASE Serve
    BY <2>1, <2>9, ServeSlot
  <2> QED BY <1>2, <2>5, <2>6, <2>7, <2>8, <2>9 DEF RestartNext
<1> QED BY <1>1, <1>2

(* Whichever daemon starts casts or lets parents carry on, it leaves no    *)
(* more of them at work than the project's `processes`, those an earlier   *)
(* daemon left running and marked included.                                *)
THEOREM StartsWithinLimitOverRestarts == RestartSpec => StartsWithinLimit
<1>1. RestartInit => RestartQueueInv /\ SpawnInv(TRUE) /\ TypeInv /\ RestartSlotInv
  BY RestartQueueInvInit, SpawnInvInit, TypeInvInit, SlotInvInit, CircleAssumption
     DEF RestartInit, RestartSlotInv, DownIsQuiet, Init
<1>2. RestartQueueInv /\ [RestartNext]_allVars => RestartQueueInv'
  BY RestartQueueInvStep, CircleAssumption
<1>3. RestartQueueInv /\ SpawnInv(TRUE) /\ [RestartNext]_allVars => SpawnInv(TRUE)'
  BY SpawnInvStep, CircleAssumption
<1>4. RestartQueueInv /\ TypeInv /\ [RestartNext]_allVars => TypeInv'
  BY RestartTypeInvStep, CircleAssumption
<1>5. TypeInv /\ RestartQueueInv /\ SpawnInv(TRUE) /\ RestartSlotInv
      /\ [RestartNext]_allVars
      => RestartSlotInv' /\ [WithinLimit]_vars
  BY RestartSlotInvStep, CircleAssumption
<1> QED BY <1>1, <1>2, <1>3, <1>4, <1>5, PTL
        DEF RestartSpec, StartsWithinLimit, WithinLimit

-----------------------------------------------------------------------------
(* Parents first.                                                           *)

(* A launch leaves no answer to be given for want of a slot, since each    *)
(* parent answered takes the slot it was answered for; and the view that   *)
(* an answer goes by says what the record does: ViewAsRecord is inductive  *)
(* as it stands, whatever goodbye comes when.                              *)

(* What ParentsFirst says of a step.                                       *)
AnsweredFirst ==
    (\E c \in Cast : Starting(c)) =>
        \A p \in Awaiting :
            p[2] \in onChildren'[p[1]] => record'[p[2]] \in {"queued", "running"}

(* Each parent answered of the last it awaited takes a slot.               *)
LEMMA UnparkedCounts ==
    ASSUME CircleAssumption, left \subseteq Cast, NEW st, NEW oc, NEW tk, NEW replies
    PROVE  Busy(st, Replied(oc, replies), tk)
               = Busy(st, oc, tk) + Cardinality(Unparked(st, oc, tk, replies))
<1> DEFINE own(o) == {c \in Cast : /\ st[c] # "unheard"
                                   /\ o[c] = {}
                                   /\ st[c] = "running" \/ tk[c] # "none"}
           before == own(oc)
           after == own(Replied(oc, replies))
           taken == Unparked(st, oc, tk, replies)
           marked == LeftLive(st)
<1>1. /\ Busy(st, oc, tk) = Cardinality(before) + Cardinality(marked)
      /\ Busy(st, Replied(oc, replies), tk) = Cardinality(after) + Cardinality(marked)
  BY DEF Busy
<1>2. after = before \cup taken /\ before \cap taken = {}
  BY DEF Unparked, Replied
<1>3. IsFiniteSet(before) /\ IsFiniteSet(taken) /\ IsFiniteSet(marked)
  <2>1. before \in SUBSET Cast /\ taken \in SUBSET Cast /\ marked \in SUBSET Cast
    BY DEF Unparked, LeftLive
  <2> HIDE DEF before, taken, marked
  <2> QED BY <2>1, FS_Subset DEF CircleAssumption
<1> HIDE DEF before, after, taken, marked
<1>4. Cardinality(after) = Cardinality(before) + Cardinality(taken)
  <2>1. Cardinality(before \cup taken)
            = Cardinality(before) + Cardinality(taken) - Cardinality(before \cap taken)
    BY <1>3, FS_Union
  <2>2. Cardinality(before \cap taken) = 0 BY <1>2, FS_EmptySet
  <2>3. Cardinality(before) \in Nat /\ Cardinality(taken) \in Nat
    BY <1>3, FS_CardinalityType
  <2> QED BY <1>2, <2>1, <2>2, <2>3
<1>5. /\ Cardinality(before) \in Nat /\ Cardinality(taken) \in Nat
      /\ Cardinality(marked) \in Nat
  BY <1>3, FS_CardinalityType
<1> QED BY <1>1, <1>4, <1>5 DEF taken

(* Starting what can start launches nobody while an answer waits.          *)
LEMMA StartAnswersFirst ==
    ASSUME CircleAssumption, left \subseteq Cast, NEW st, NEW rec, NEW oc, NEW ln,
           Places(ln), NEW tk, NEW hd, Start(st, rec, oc, ln, tk, hd),
           \A c \in Cast : st[c] # "unheard" => rec[c] = st[c],
           \E c \in Cast : task'[c] # tk[c]
    PROVE  \A p \in Awaiting :
               p[2] \in onChildren'[p[1]] => rec[p[2]] \in {"queued", "running"}
<1> DEFINE due == Due(st, rec, oc)
<1>1. PICK replies \in SUBSET due :
        LET answered == Replied(oc, replies)
            free == Processes - Busy(st, answered, tk)
            starting == Launched(st, ln, free)
        IN /\ Delivers(st, oc, tk, due, replies)
           /\ onChildren' = answered
           /\ task' = [c \in Cast |-> IF c \in starting THEN "launched" ELSE tk[c]]
  BY DEF Start
<1> DEFINE free == Processes - Busy(st, oc, tk)
           now == Processes - Busy(st, Replied(oc, replies), tk)
           taken == Cardinality(Unparked(st, oc, tk, replies))
<1>2. /\ Busy(st, oc, tk) \in Nat
      /\ Busy(st, Replied(oc, replies), tk) \in Nat
      /\ Busy(st, Replied(oc, replies), tk) = Busy(st, oc, tk) + taken
      /\ Processes \in Nat
  BY BusyCounts, UnparkedCounts DEF CircleAssumption
<1>3. taken \in Nat
  <2>1. Unparked(st, oc, tk, replies) \in SUBSET Cast BY DEF Unparked
  <2> QED BY <2>1, FS_Subset, FS_CardinalityType DEF CircleAssumption
<1>4. now > 0
  <2>1. Launched(st, ln, now) # {} BY <1>1
  <2>2. now \in Int BY <1>2
  <2> HIDE DEF now
  <2> QED BY <2>1, <2>2, LaunchedNumber
<1>5. now = free - taken
  <2> HIDE DEF taken
  <2> QED BY <1>2, <1>3
<1>6. replies = due
  <2>1. \/ free <= 0
        \/ free > 0 /\ (replies = due \/ taken = free)
    BY <1>1 DEF Delivers
  <2> HIDE DEF free, taken, now, due
  <2>2. free \in Int BY <1>2 DEF free
  <2> QED BY <1>3, <1>4, <1>5, <2>1, <2>2
<1>7. SUFFICES ASSUME NEW p \in Awaiting, p[2] \in onChildren'[p[1]]
               PROVE  rec[p[2]] \in {"queued", "running"}
  OBVIOUS
<1>8. p[1] \in Cast /\ p[2] \in Cast /\ p = <<p[1], p[2]>>
  BY DEF CircleAssumption
<1>9. p[2] \in oc[p[1]] /\ p \notin due
  <2>1. onChildren'[p[1]] = oc[p[1]] \ {d \in Cast : <<p[1], d>> \in due}
    <3> HIDE DEF due
    <3> QED BY <1>1, <1>6, <1>8 DEF Replied
  <2> HIDE DEF due
  <2>2. p[2] \in oc[p[1]] /\ <<p[1], p[2]>> \notin due
    BY <1>7, <1>8, <2>1
  <2> QED BY <1>8, <2>2
<1>10. ~HasEnded(st, rec, p[2])
  BY <1>9 DEF Due
<1> QED BY <1>8, <1>10 DEF HasEnded

(* A step that starts what can start, of tasks that hide no start.         *)
LEMMA ParentStart ==
    ASSUME CircleAssumption, left \subseteq Cast, ViewAsRecord', NEW oc, NEW ln,
           Places(ln), NEW tk, NEW hd, Start(status', record', oc, ln, tk, hd),
           \A c \in Cast : task[c] = "none" => tk[c] = "none"
    PROVE  AnsweredFirst
<1>1. ASSUME \E c \in Cast : Starting(c)
      PROVE  \A p \in Awaiting :
                 p[2] \in onChildren'[p[1]] => record'[p[2]] \in {"queued", "running"}
  <2>1. \E c \in Cast : task'[c] # tk[c] BY <1>1 DEF Starting
  <2>2. \A c \in Cast : status'[c] # "unheard" => record'[c] = status'[c]
    BY DEF ViewAsRecord
  <2>3. Start(status', record', oc, ln, tk, hd) OBVIOUS
  <2> QED BY ONLY CircleAssumption, left \subseteq Cast, Places(ln), <2>1, <2>2, <2>3,
             StartAnswersFirst
<1> QED BY <1>1 DEF AnsweredFirst

(* A step that launches nobody.                                            *)
LEMMA ParentQuiet ==
    ASSUME \A c \in Cast : task[c] = "none" => task'[c] # "launched"
    PROVE  AnsweredFirst
  BY DEF AnsweredFirst, Starting

LEMMA CastStepParents ==
    ASSUME CircleAssumption, TypeInv, ViewAsRecord, NEW c \in Cast, CastStep(c)
    PROVE  ViewAsRecord' /\ AnsweredFirst
<1>0. /\ Places(line) /\ left \subseteq Cast
      /\ status \in [Cast -> Status] /\ record \in [Cast -> Status]
      /\ \A d \in Cast : task[d] = "none" => task[d] = "none" /\ task[d] # "launched"
  BY DEF TypeInv, QueueInv, WaitTypes
(* The view and the record move together, if they move.                    *)
<1>1. ASSUME \/ UNCHANGED <<status, record>>
             \/ \E st : /\ status' = [status EXCEPT ![c] = st]
                        /\ record' = [record EXCEPT ![c] = st]
      PROVE  ViewAsRecord'
  BY <1>0, <1>1 DEF ViewAsRecord
(* Nobody is launched, or what can start is started.                       *)
<1>2. ASSUME ViewAsRecord',
             task' = task \/ \E oc, hd : Start(status', record', oc, line, task, hd)
      PROVE  AnsweredFirst
  <2>1. CASE task' = task BY <1>0, <2>1, ParentQuiet
  <2>2. CASE \E oc, hd : Start(status', record', oc, line, task, hd)
    <3>1. PICK oc, hd : Start(status', record', oc, line, task, hd) BY <2>2
    <3> QED BY <1>0, <1>2, <3>1, ParentStart
  <2> QED BY <1>2, <2>1, <2>2
<1>3. CASE Typed(c) \/ SaysHello(c) \/ AsksForTree(c) \/ Exits(c) \/ Drops(c)
  <2>1. /\ task' = task
        /\ \/ UNCHANGED <<status, record>>
           \/ \E st : /\ status' = [status EXCEPT ![c] = st]
                      /\ record' = [record EXCEPT ![c] = st]
    BY <1>3 DEF Typed, SaysHello, AsksForTree, Exits, Drops, viewVars, queueVars
  <2> QED BY <1>1, <1>2, <2>1
<1>4. ASSUME NEW child \in Cast,
             AwaitsChild(c, child) \/ Withdraws(c, child) \/ Hears(c, child)
      PROVE  ViewAsRecord' /\ AnsweredFirst
  <2>1. /\ UNCHANGED <<status, record>>
        /\ task' = task \/ \E oc, hd : Start(status, record, oc, line, task, hd)
    BY <1>4 DEF AwaitsChild, Withdraws, Hears, viewVars, queueVars
  <2> QED BY <1>1, <1>2, <2>1
<1>5. CASE Ends(c) \/ Noticed(c)
  <2>1. \E ending : Goodbye(c, ending, task, heard)
    BY <1>5 DEF Ends, Noticed
  <2>2. PICK ending : Goodbye(c, ending, task, heard) BY <2>1
  <2>3. /\ status' = [status EXCEPT ![c] = ending]
        /\ record' = [record EXCEPT ![c] = ending]
        /\ Start(status', record', [onChildren EXCEPT ![c] = {}], line, task, heard)
    BY <2>2 DEF Goodbye
  <2> QED BY <1>1, <1>2, <2>3
<1>6. CASE Reattaches(c)
  <2>1. /\ status' = [status EXCEPT ![c] = "running"]
        /\ record' = [record EXCEPT ![c] = "running"]
        /\ task' = task \/ \E oc, hd : Start(status', record', oc, line, task, hd)
    BY <1>6 DEF Reattaches, queueVars
  <2> QED BY <1>1, <1>2, <2>1
<1> QED BY <1>3, <1>4, <1>5, <1>6 DEF CastStep

(* The end of a task: whoever it leaves queued has failed.                 *)
LEMMA FinishParents ==
    ASSUME CircleAssumption, TypeInv, ViewAsRecord, NEW c \in Cast, NEW bl, Finish(c, bl)
    PROVE  ViewAsRecord' /\ AnsweredFirst
<1> DEFINE tk == [task EXCEPT ![c] = "none"]
<1>0. /\ Places(line) /\ left \subseteq Cast
      /\ task \in [Cast -> Task]
      /\ status \in [Cast -> Status] /\ record \in [Cast -> Status]
  BY DEF TypeInv, QueueInv, WaitTypes
<1>1. /\ status' = IF status[c] = "queued" THEN [status EXCEPT ![c] = "ended"]
                   ELSE status
      /\ record' = IF status[c] = "queued" THEN [record EXCEPT ![c] = "ended"]
                   ELSE record
      /\ \E oc : Start(status', record', oc, line, tk, heard)
  BY DEF Finish
<1>2. ViewAsRecord' BY <1>0, <1>1 DEF ViewAsRecord
<1>3. \A d \in Cast : task[d] = "none" => tk[d] = "none"
  BY <1>0
<1> HIDE DEF tk
<1> QED BY <1>0, <1>1, <1>2, <1>3, ParentStart

LEMMA TaskStepParents ==
    ASSUME CircleAssumption, TypeInv, ViewAsRecord, NEW c \in Cast, TaskStep(c)
    PROVE  ViewAsRecord' /\ AnsweredFirst
<1>0. task \in [Cast -> Task] BY DEF TypeInv, QueueInv
<1>1. CASE Releases(c) \/ (Probed(c) /\ proc[c] # "wantsTree")
  BY <1>1, FinishParents DEF Releases, Probed
<1>2. CASE Marks(c)
  <2>1. UNCHANGED <<status, record, task>>
    BY <1>2 DEF Marks, viewVars, queueVars
  <2> QED BY <2>1, ParentQuiet DEF ViewAsRecord
<1>3. CASE ~Releases(c) /\ ~(Probed(c) /\ proc[c] # "wantsTree") /\ ~Marks(c)
  <2>1. /\ UNCHANGED <<status, record>>
        /\ \E next \in Task \ {"launched"} : task' = [task EXCEPT ![c] = next]
    BY <1>3 DEF TaskStep, Begins, Probed, LeaseBegins, Leases, WaitsForTree,
       LeaseFails, Prepared, PrepareFails, Ran, viewVars, Task
  <2>2. ViewAsRecord' BY <2>1 DEF ViewAsRecord
  <2>3. \A d \in Cast : task[d] = "none" => task'[d] # "launched"
    BY <1>0, <2>1
  <2> QED BY <2>2, <2>3, ParentQuiet
<1> QED BY <1>1, <1>2, <1>3

LEMMA ParentInvStep ==
    ASSUME CircleAssumption, TypeInv, ViewAsRecord, [Next]_vars
    PROVE  ViewAsRecord' /\ AnsweredFirst
<1>1. ASSUME NEW c \in Cast, Enqueue(c) PROVE ViewAsRecord' /\ AnsweredFirst
  <2> DEFINE ln == Appended(line, c)
  <2>1. /\ record[c] = "unheard"
        /\ status' = [status EXCEPT ![c] = "queued"]
        /\ record' = [record EXCEPT ![c] = "queued"]
        /\ Start(status', record', onChildren, ln, task, heard)
    BY <1>1 DEF Enqueue
  <2>2. /\ Places(line) /\ left \subseteq Cast /\ line[c] = 0
        /\ status \in [Cast -> Status] /\ record \in [Cast -> Status]
    BY <2>1 DEF TypeInv, QueueInv, InLineIdle
  <2>3. Places(ln) BY <2>2, AppendedPlaces
  <2>4. ViewAsRecord' BY <2>1, <2>2 DEF ViewAsRecord
  <2>5. \A d \in Cast : task[d] = "none" => task[d] = "none"
    OBVIOUS
  <2> HIDE DEF ln
  <2> QED BY <2>1, <2>2, <2>3, <2>4, <2>5, ParentStart
<1>2. ASSUME NEW c \in Cast, TaskStep(c) PROVE ViewAsRecord' /\ AnsweredFirst
  BY <1>2, TaskStepParents
<1>3. ASSUME NEW c \in Cast, CastStep(c) PROVE ViewAsRecord' /\ AnsweredFirst
  BY <1>3, CastStepParents
<1>4. CASE Purify \/ PurifyBegins \/ Purified \/ CleanedByHand \/ UNCHANGED vars
  <2>1. UNCHANGED <<status, record, task>>
    BY <1>4 DEF Purify, PurifyBegins, Purified, CleanedByHand, vars, viewVars, queueVars
  <2> QED BY <2>1, ParentQuiet DEF ViewAsRecord
<1> QED BY <1>1, <1>2, <1>3, <1>4 DEF Next

(* A parent comes back before anything queued starts: a step that launches *)
(* a cast leaves no await unanswered whose child has ended.                *)
THEOREM ParentsFirstCorrect == Spec => ParentsFirst
<1>1. Init => TypeInv /\ ViewAsRecord
  BY TypeInvInit, CircleAssumption DEF Init, ViewAsRecord
<1>2. TypeInv /\ [Next]_vars => TypeInv' BY TypeInvStep, CircleAssumption
<1>3. TypeInv /\ ViewAsRecord /\ [Next]_vars => ViewAsRecord' /\ [AnsweredFirst]_vars
  BY ParentInvStep, CircleAssumption
<1> QED BY <1>1, <1>2, <1>3, PTL DEF Spec, ParentsFirst, AnsweredFirst

LEMMA RestartParentInvStep ==
    ASSUME CircleAssumption, TypeInv, ViewAsRecord, [RestartNext]_allVars
    PROVE  ViewAsRecord' /\ AnsweredFirst
<1>1. ASSUME [Next]_vars PROVE ViewAsRecord' /\ AnsweredFirst
  BY <1>1, ParentInvStep
<1>2. ASSUME NEW c \in Cast, SaysHello(c) \/ AsksForTree(c) \/ Exits(c)
      PROVE  ViewAsRecord' /\ AnsweredFirst
  BY <1>2, CastStepParents DEF CastStep
<1>3. CASE Stop
  <2>1. UNCHANGED <<status, record, task>>
    BY <1>3 DEF Stop, viewVars, queueVars
  <2> QED BY <2>1, ParentQuiet DEF ViewAsRecord
<1>4. CASE Stopped \/ Killed
  <2>1. /\ status' = [c \in Cast |-> "unheard"]
        /\ task' = [c \in Cast |-> "none"]
    BY <1>4 DEF Stopped, Killed, Forget
  <2> QED BY <2>1, ParentQuiet DEF ViewAsRecord
<1>5. CASE Serve
  <2> DEFINE waiting == Waiting \ LeftLive(status)
  <2>1. /\ status' = [c \in Cast |-> IF c \in waiting THEN "queued" ELSE "unheard"]
        /\ record' = record
    BY <1>5 DEF Serve
  <2>2. PICK place \in [waiting -> 1..Cardinality(waiting)] :
          /\ \A c, d \in waiting : place[c] = place[d] => c = d
          /\ Start(status', record', onChildren,
                   [c \in Cast |-> IF c \in waiting THEN place[c] ELSE 0], task, heard)
    BY <1>5, <2>1 DEF Serve
  <2>3. waiting \in SUBSET Cast /\ \A c \in waiting : record[c] = "queued"
    BY DEF Waiting
  <2> DEFINE ln == [c \in Cast |-> IF c \in waiting THEN place[c] ELSE 0]
  <2> HIDE DEF waiting
  <2>4. Places(ln) BY <2>2, <2>3, ReadBackPlaces
  <2>5. Start(status', record', onChildren, ln, task, heard) BY <2>2
  <2> HIDE DEF ln
  <2>6. ViewAsRecord' BY <2>1, <2>3 DEF ViewAsRecord
  <2>7. left \subseteq Cast /\ \A c \in Cast : task[c] = "none" => task[c] = "none"
    BY DEF TypeInv, QueueInv
  <2> QED BY <2>4, <2>5, <2>6, <2>7, ParentStart
<1>6. CASE UNCHANGED allVars
  BY <1>1, <1>6 DEF allVars
<1> QED BY <1>1, <1>2, <1>3, <1>4, <1>5, <1>6 DEF RestartNext

(* Whichever daemon took the await, and however it starts what it read     *)
(* back, no cast is launched while a parent whose child has ended waits.   *)
THEOREM ParentsFirstOverRestarts == RestartSpec => ParentsFirst
<1>1. RestartInit => RestartQueueInv /\ TypeInv /\ ViewAsRecord
  BY RestartQueueInvInit, TypeInvInit, CircleAssumption
     DEF RestartInit, Init, ViewAsRecord
<1>2. RestartQueueInv /\ [RestartNext]_allVars => RestartQueueInv'
  BY RestartQueueInvStep, CircleAssumption
<1>3. RestartQueueInv /\ TypeInv /\ [RestartNext]_allVars => TypeInv'
  BY RestartTypeInvStep, CircleAssumption
<1>4. TypeInv /\ ViewAsRecord /\ [RestartNext]_allVars
      => ViewAsRecord' /\ [AnsweredFirst]_vars
  BY RestartParentInvStep, CircleAssumption
<1> QED BY <1>1, <1>2, <1>3, <1>4, PTL DEF RestartSpec, ParentsFirst, AnsweredFirst
=============================================================================
