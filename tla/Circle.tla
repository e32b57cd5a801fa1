------------------------------- MODULE Circle -------------------------------
(***************************************************************************)
(* One project's circle: the daemon's scheduler (Circle), the leases it    *)
(* takes in the pool of worktrees (Leasing over GitTrees), the casts that  *)
(* wait on other casts (Awaits) and those an earlier daemon left running   *)
(* (LeftBehind), src/vekna/mills/circle.py.                                *)
(*                                                                         *)
(* The daemon is one thread: an action is what it does between two awaits, *)
(* the handlers a message reaches included.  A cast is a process of its    *)
(* own, and reaches the daemon through its connection.                     *)
(***************************************************************************)
EXTENDS Integers, FiniteSets, Sequences

CONSTANTS
    Cast,       \* the casts of the project
    Hand,       \* those typed by hand; every other one is queued
    Needs,      \* those whose ritual is declared worktree=True
    Says,       \* of them, those whose hello already says so when queued
    Awaiting,   \* <<parent, child>>: which casts may await which
    Untidy,     \* those that may leave their tree dirty
    Unready,    \* those whose lease or `prepare` may fail in git or the shell
    Worktrees,  \* `[circle] worktrees`: the pool's trees are 1..Worktrees
    Processes,  \* `[circle] processes`
    HandRoots,  \* where a cast may be typed: Root or a tree of the pool
    Purifier,   \* stands in the lease lock's line for `vekna purify`
    MaxDrops,   \* bound: connections lost while the daemon runs
    MaxWithdrawals, \* bound: waits a cast gives up on
    MaxPurifies \* bound: `vekna purify` commands

(* The directory casts are asked from, which no lease ever hands out.      *)
Root == 0
Trees == 1..Worktrees
Roots == {Root} \cup Trees

ASSUME CircleAssumption ==
    /\ IsFiniteSet(Cast)
    /\ Hand \subseteq Cast
    /\ Needs \subseteq Cast
    /\ Says \subseteq Needs
    /\ Awaiting \subseteq {p \in Cast \X Cast : p[1] # p[2]}
    /\ Untidy \subseteq Cast
    /\ Unready \subseteq Cast
    /\ Worktrees \in Nat \ {0}
    /\ Processes \in Nat \ {0}
    /\ HandRoots \subseteq Roots
    /\ Purifier \notin Cast
    /\ MaxDrops \in Nat
    /\ MaxWithdrawals \in Nat
    /\ MaxPurifies \in Nat

VARIABLES
    \* the cast processes
    proc,       \* where each process is in its life
    cwd,        \* the directory it stands in: its hello's `project_root`
    awaits,     \* the children it is waiting on
    heard,      \* of them, those whose ending is on the wire to it
    unread,     \* connections it lost that the daemon has yet to read to the end
    mark,       \* its `spawned.json`: "none", "writing" or "written"
    \* the journal
    record,     \* the status in each cast's run.json
    \* the hub's views
    daemon,     \* "up" while the daemon serves
    status,     \* each view's status, "unheard" while there is no view
    onChildren, \* each view's `on_children`
    blocked,    \* the tree each view says it left blocked, or Root
    \* the circle
    line,       \* each cast's place in `_queue`, 0 while it is not in it
    task,       \* where each cast's `_run` task is: `_launching` are the others
    ended,      \* the endings `Awaits` has found and not yet delivered
    left,       \* the casts an earlier daemon left running
    \* the leasing
    needs,      \* the keys of `_needs_tree`
    leased,     \* their trees, Root while they hold none
    lock,       \* the project's lease lock: its holder, then who waits for it
    asked,      \* the `held` the lock's holder read when it asked git
    purifying,  \* whether the holder is a purify that has asked
    \* git
    pool,       \* the trees made so far
    parked,     \* those on their parking branch
    dirty,      \* those with uncommitted changes or an operation open
    drops, withdrawals, purifies    \* how far each bound is used

procVars == <<proc, cwd, awaits, heard>>
viewVars == <<record, status, onChildren, blocked>>
queueVars == <<line, task, ended>>
leaseVars == <<needs, leased, lock, asked, purifying>>
gitVars == <<pool, parked, dirty>>
counters == <<drops, withdrawals, purifies>>
vars == <<procVars, viewVars, queueVars, leaseVars, gitVars, counters, daemon, left, unread, mark>>

Live == {"silent", "attached", "detached", "leaving"}
Proc == {"none", "exited", "wantsTree"} \cup Live
Status == {"unheard", "queued", "running", "ended", "disconnected"}
Mark == {"none", "writing", "written"}
Task == {"none", "launched", "probing", "leasing", "asking", "preparing",
         "spawned", "releasing", "failing"}

TypeOK ==
    /\ proc \in [Cast -> Proc]
    /\ cwd \in [Cast -> Roots]
    /\ awaits \in [Cast -> SUBSET Cast]
    /\ heard \in [Cast -> SUBSET Cast]
    /\ unread \in [Cast -> Nat]
    /\ mark \in [Cast -> Mark]
    /\ record \in [Cast -> Status]
    /\ daemon \in {"up", "stopping", "down"}
    /\ status \in [Cast -> Status]
    /\ onChildren \in [Cast -> SUBSET Cast]
    /\ blocked \in [Cast -> Roots]
    /\ line \in [Cast -> Nat]
    /\ task \in [Cast -> Task]
    /\ ended \subseteq Cast \X Cast
    /\ left \subseteq Cast
    /\ needs \subseteq Cast
    /\ leased \in [Cast -> Roots]
    /\ lock \in Seq(Cast \cup {Purifier})
    /\ asked \subseteq Trees
    /\ purifying \in BOOLEAN
    /\ pool \subseteq Trees
    /\ parked \subseteq pool
    /\ dirty \subseteq pool
    /\ drops \in Nat
    /\ withdrawals \in Nat
    /\ purifies \in Nat

-----------------------------------------------------------------------------
(* What the daemon reads off its views, its tasks and the marks.           *)

InLine(ln) == {c \in Cast : ln[c] > 0}

(* Mutant: the casts left behind are forgotten.                            *)
LeftForgotten(st) == {}

(* LeftBehind._live: a view stands in for it from its first hello on.      *)
LeftLive(st) == {c \in left : st[c] = "unheard" /\ proc[c] \in Live}

(* Circle._busy.                                                           *)
Busy(st, oc, tk) ==
    Cardinality({c \in Cast : /\ st[c] # "unheard"
                              /\ oc[c] = {}
                              /\ st[c] = "running" \/ tk[c] # "none"})
    + Cardinality(LeftLive(st))

(* LeftBehind.trees: where every running cast stands, as its view says or  *)
(* its mark.                                                               *)
TreesOfRunning ==
    {cwd[c] : c \in {d \in Cast : status[d] = "running"} \cup LeftLive(status)}

(* Mutant: a tree leased to a cast still preparing it is not held.         *)
HeldOnceSpawned == TreesOfRunning \ {Root}

(* Mutant: the casts that hold no tree yet are counted in.                 *)
HeldByAll == TreesOfRunning \cup {leased[c] : c \in needs}

(* Leasing._held.  The trees casts were asked from are none of the pool's. *)
Held == (TreesOfRunning \cup {leased[c] : c \in needs}) \ {Root}

(* LeftBehind.awaiting: the trees of the casts awaiting one of these.      *)
TreesAwaiting(children) ==
    {cwd[c] : c \in {d \in Cast : onChildren[d] \cap children # {}}}

(* Mutant: whatever is not running has ended.                              *)
NotRunning(st, rec, c) ==
    IF st[c] # "unheard" THEN st[c] # "running" ELSE rec[c] # "running"

(* Awaits._ending: off the view if there is one, else off the journal; a   *)
(* cast neither knows of never began.                                      *)
HasEnded(st, rec, c) ==
    IF st[c] # "unheard" THEN st[c] \notin {"queued", "running"}
                         ELSE rec[c] \notin {"queued", "running"}

(* Awaits.due, with the endings kept from the last time it was asked.      *)
Due(st, rec, oc) ==
    {p \in Awaiting : /\ p[2] \in oc[p[1]]
                      /\ p \in ended \/ HasEnded(st, rec, p[2])}

-----------------------------------------------------------------------------
(* The queue.                                                              *)

(* `_queue` once `gone` has left it.                                       *)
Without(ln, gone) ==
    [c \in Cast |-> IF c \in gone \/ ln[c] = 0 THEN 0
                    ELSE ln[c] - Cardinality({d \in gone \cap InLine(ln) :
                                                  ln[d] < ln[c]})]

Appended(ln, c) == [ln EXCEPT ![c] = Cardinality(InLine(ln)) + 1]

(* Mutant: a cast that found no tree is forgotten.                         *)
NotBack(ln, c) == ln

AtTheFront(ln, c) ==
    [d \in Cast |-> IF d = c THEN 1 ELSE IF ln[d] > 0 THEN ln[d] + 1 ELSE 0]

Replied(oc, replies) ==
    [c \in Cast |-> oc[c] \ {d \in Cast : <<c, d>> \in replies}]

(* The parents a set of replies leaves awaiting nothing, so busy again:    *)
(* all but those whose view a goodbye closed, unless there is a task.      *)
Unparked(st, oc, tk, replies) ==
    {c \in Cast : /\ oc[c] # {} /\ Replied(oc, replies)[c] = {}
                  /\ st[c] # "unheard"
                  /\ st[c] = "running" \/ tk[c] # "none"}

(* Mutant: a parent may be passed over for the queue.                      *)
DeliversSome(st, oc, tk, due, replies) ==
    Cardinality(Unparked(st, oc, tk, replies)) <= Processes - Busy(st, oc, tk)

(* The loop over `due`: in the order of the views, which the model leaves  *)
(* open, each reply goes out while a slot is free.                         *)
Delivers(st, oc, tk, due, replies) ==
    LET free == Processes - Busy(st, oc, tk)
        taken == Cardinality(Unparked(st, oc, tk, replies))
    IN  \/ /\ free <= 0
           /\ replies = {}
        \/ /\ free > 0
           /\ taken <= free
           /\ replies = due \/ taken = free

(* The loop over the queue: what is no longer queued leaves it, and each   *)
(* of the rest is launched, in order, while a slot is free.                *)
Queued(st, ln) == {c \in InLine(ln) : st[c] = "queued"}

(* Mutant: the last queued is the first launched.                          *)
LaunchedLastFirst(st, ln, free) ==
    {c \in Queued(st, ln) :
        Cardinality({d \in Queued(st, ln) : ln[d] > ln[c]}) < free}

Launched(st, ln, free) ==
    {c \in Queued(st, ln) :
        Cardinality({d \in Queued(st, ln) : ln[d] < ln[c]}) < free}

(* Circle._start, once the rest of the event has come to the views `st`    *)
(* and `oc`, the journal `rec`, the queue `ln` and the tasks `tk`.  A      *)
(* reply to a connection that is lost, or that the daemon is closing, gets *)
(* nowhere, though the hub has it answered.                                *)
Start(st, rec, oc, ln, tk, hd) ==
    LET due == Due(st, rec, oc) IN
    \E replies \in SUBSET due :
        LET answered == Replied(oc, replies)
            free == Processes - Busy(st, answered, tk)
            starting == Launched(st, ln, free)
            gone == starting \cup (InLine(ln) \ Queued(st, ln))
        IN /\ Delivers(st, oc, tk, due, replies)
           /\ onChildren' = answered
           /\ heard' = [c \in Cast |-> IF daemon = "up" /\ proc'[c] = "attached"
                           THEN hd[c] \cup {d \in Cast : <<c, d>> \in replies}
                           ELSE hd[c]]
           /\ ended' = due \ replies
           /\ line' = Without(ln, gone)
           /\ task' = [c \in Cast |-> IF c \in starting THEN "launched" ELSE tk[c]]

-----------------------------------------------------------------------------
(* What a cast's process does, and the daemon's handler when it hears.     *)

(* A cast typed by hand says hello at once; a hello starts nothing.        *)
Typed(c) ==
    /\ c \in Hand
    /\ record[c] = "unheard"
    /\ daemon = "up"
    /\ \E dir \in HandRoots :
          /\ dir \in {Root} \cup pool
          /\ cwd' = [cwd EXCEPT ![c] = dir]
          /\ parked' = parked \ {dir}
    /\ proc' = [proc EXCEPT ![c] = "attached"]
    /\ record' = [record EXCEPT ![c] = "running"]
    /\ status' = [status EXCEPT ![c] = "running"]
    /\ UNCHANGED <<awaits, heard, onChildren, blocked, queueVars, leaseVars,
                   pool, dirty, counters, daemon, left, unread, mark>>

(* Only a queued cast spawned where it was asked from asks for a tree.     *)
WantsTree(c) == c \in Needs /\ cwd[c] = Root

(* The hello of a spawned cast: a fresh view, running.  With no daemon to  *)
(* say it to, the cast runs on and tries again later.  From here on it     *)
(* works in its tree, on a branch of its own.                              *)
SaysHello(c) ==
    /\ proc[c] = "silent"
    /\ ~WantsTree(c)
    /\ parked' = parked \ {cwd[c]}
    /\ IF daemon = "up"
       THEN /\ proc' = [proc EXCEPT ![c] = "attached"]
            /\ record' = [record EXCEPT ![c] = "running"]
            /\ status' = [status EXCEPT ![c] = "running"]
            /\ onChildren' = [onChildren EXCEPT ![c] = {}]
            /\ blocked' = [blocked EXCEPT ![c] = Root]
       ELSE /\ proc' = [proc EXCEPT ![c] = "detached"]
            /\ UNCHANGED viewVars
    /\ UNCHANGED <<cwd, awaits, heard, queueVars, leaseVars, pool, dirty,
                   counters, daemon, left, unread, mark>>

(* It exits NEEDS_TREE before its hello.                                   *)
AsksForTree(c) ==
    /\ proc[c] = "silent"
    /\ WantsTree(c)
    /\ proc' = [proc EXCEPT ![c] = "wantsTree"]
    /\ UNCHANGED <<cwd, awaits, heard, viewVars, queueVars, leaseVars, gitVars,
                   counters, daemon, left, unread, mark>>

(* It is gone: before its hello, cut off from the daemon, or once it has   *)
(* said goodbye.                                                           *)
Exits(c) ==
    /\ proc[c] \in {"silent", "detached", "leaving"}
    /\ proc' = [proc EXCEPT ![c] = "exited"]
    /\ awaits' = [awaits EXCEPT ![c] = {}]
    /\ UNCHANGED <<cwd, heard, viewVars, queueVars, leaseVars, gitVars, counters,
                   daemon, left, unread, mark>>

(* AwaitRequested, of a cast the daemon has said is queued.                *)
AwaitsChild(c, child) ==
    /\ <<c, child>> \in Awaiting
    /\ record[child] # "unheard"
    /\ proc[c] = "attached"
    /\ child \notin awaits[c]
    /\ awaits' = [awaits EXCEPT ![c] = @ \cup {child}]
    /\ UNCHANGED proc
    /\ Start(status, record, [onChildren EXCEPT ![c] = @ \cup {child}],
             line, task, heard)
    /\ UNCHANGED <<cwd, record, status, blocked, leaseVars, gitVars,
                   counters, daemon, left, unread, mark>>

(* AwaitWithdrawn: dropped by a hub that has answered already, and the     *)
(* circle woken all the same.  Cut off, the cast has nobody to tell.       *)
Withdraws(c, child) ==
    /\ child \in awaits[c]
    /\ withdrawals < MaxWithdrawals
    /\ withdrawals' = withdrawals + 1
    /\ awaits' = [awaits EXCEPT ![c] = @ \ {child}]
    /\ UNCHANGED proc
    /\ \/ /\ proc[c] = "attached"
          /\ Start(status, record, [onChildren EXCEPT ![c] = @ \ {child}],
                   line, task, [heard EXCEPT ![c] = @ \ {child}])
       \/ /\ proc[c] = "detached"
          /\ UNCHANGED <<heard, onChildren, queueVars>>
    /\ UNCHANGED <<cwd, record, status, blocked, leaseVars, gitVars,
                   drops, purifies, daemon, left, unread, mark>>

(* AwaitEnded reaches the cast that was waiting.                           *)
Hears(c, child) ==
    /\ child \in heard[c]
    /\ heard' = [heard EXCEPT ![c] = @ \ {child}]
    /\ awaits' = [awaits EXCEPT ![c] = @ \ {child}]
    /\ UNCHANGED <<proc, cwd, viewVars, queueVars, leaseVars, gitVars, counters,
                   daemon, left, unread, mark>>

(* What a goodbye does, said by the cast or for it: the view's ending, the *)
(* journal's, and the circle woken.                                        *)
Goodbye(c, ending, tk, hd) ==
    LET st == [status EXCEPT ![c] = ending]
        rec == [record EXCEPT ![c] = ending]
        oc == [onChildren EXCEPT ![c] = {}]
    IN  /\ status' = st
        /\ record' = rec
        /\ Start(st, rec, oc, line, tk, hd)

(* Its own goodbye, its work done and whatever it left in its tree.        *)
Ends(c) ==
    /\ proc[c] = "attached"
    /\ awaits[c] = {}
    /\ proc' = [proc EXCEPT ![c] = "leaving"]
    /\ Goodbye(c, "ended", task, heard)
    /\ \/ UNCHANGED dirty
       \/ /\ c \in Untidy
          /\ cwd[c] # Root
          /\ dirty' = dirty \cup {cwd[c]}
    /\ UNCHANGED <<cwd, awaits, blocked, leaseVars, pool, parked, counters,
                   daemon, left, unread, mark>>

(* Its connection goes without one, and what was on the wire with it; the  *)
(* daemon is not there yet in what it reads.                               *)
Drops(c) ==
    /\ proc[c] = "attached"
    /\ \/ /\ daemon = "up"
          /\ drops < MaxDrops
          /\ drops' = drops + 1
       \/ /\ daemon = "stopping"
          /\ UNCHANGED drops
    /\ proc' = [proc EXCEPT ![c] = "detached"]
    /\ heard' = [heard EXCEPT ![c] = {}]
    /\ unread' = [unread EXCEPT ![c] = @ + 1]
    /\ UNCHANGED <<cwd, awaits, viewVars, queueVars, leaseVars, gitVars, withdrawals,
                   purifies, daemon, left, mark>>

(* The old connection read to its end, and a goodbye made up for it, of    *)
(* whatever the view says by now: the cast may be back on another, or have *)
(* said its own.                                                           *)
Noticed(c) ==
    /\ unread[c] > 0
    /\ unread' = [unread EXCEPT ![c] = @ - 1]
    /\ UNCHANGED proc
    /\ Goodbye(c, "disconnected", task, heard)
    /\ UNCHANGED <<cwd, awaits, blocked, leaseVars, gitVars, counters, daemon, left, mark>>

(* Mutant: a cast that reattaches does not say its awaits again.           *)
ReattachesAlone(c) ==
    /\ proc[c] = "detached"
    /\ daemon = "up"
    /\ proc' = [proc EXCEPT ![c] = "attached"]
    /\ status' = [status EXCEPT ![c] = "running"]
    /\ record' = [record EXCEPT ![c] = "running"]
    /\ onChildren' = [onChildren EXCEPT ![c] = {}]
    /\ blocked' = [blocked EXCEPT ![c] = Root]
    /\ UNCHANGED <<cwd, awaits, heard, queueVars, leaseVars, gitVars, counters, daemon, left,
                   unread, mark>>

(* keep_attached: the hello again and every await still open, one write    *)
(* the daemon reads through without a pause.                               *)
Reattaches(c) ==
    /\ proc[c] = "detached"
    /\ daemon = "up"
    /\ proc' = [proc EXCEPT ![c] = "attached"]
    /\ blocked' = [blocked EXCEPT ![c] = Root]
    /\ LET st == [status EXCEPT ![c] = "running"]
           rec == [record EXCEPT ![c] = "running"]
           oc == [onChildren EXCEPT ![c] = awaits[c]]
       IN  /\ status' = st
           /\ record' = rec
           /\ IF awaits[c] = {}
              THEN onChildren' = oc /\ UNCHANGED <<heard, queueVars>>
              ELSE Start(st, rec, oc, line, task, heard)
    /\ UNCHANGED <<cwd, awaits, leaseVars, gitVars, counters, daemon, left, unread, mark>>

-----------------------------------------------------------------------------
(* Circle.enqueue, and the task it leads to.                               *)

Enqueue(c) ==
    /\ c \notin Hand
    /\ record[c] = "unheard"
    /\ daemon = "up"
    /\ UNCHANGED proc
    /\ LET st == [status EXCEPT ![c] = "queued"]
           rec == [record EXCEPT ![c] = "queued"]
       IN  /\ status' = st
           /\ record' = rec
           /\ Start(st, rec, onChildren, Appended(line, c), task, heard)
    /\ UNCHANGED <<cwd, awaits, blocked, leaseVars, gitVars, counters,
                   daemon, left, unread, mark>>

(* The spawn itself; one the system refuses leaves no process.  Its mark   *)
(* is written from here on, by a thread.                                   *)
Spawns(c, dir) ==
    /\ cwd' = [cwd EXCEPT ![c] = dir]
    /\ \/ /\ proc' = [proc EXCEPT ![c] = "silent"]
          /\ mark' = [mark EXCEPT ![c] = "writing"]
       \/ /\ c \in Unready
          /\ proc' = [proc EXCEPT ![c] = "exited"]
          /\ mark' = [mark EXCEPT ![c] = "none"]

(* The mark is written, whatever the process came to meanwhile; or it      *)
(* cannot be, and the process is killed.                                   *)
Marks(c) ==
    /\ task[c] \in {"probing", "spawned"}
    /\ mark[c] = "writing"
    /\ \/ /\ mark' = [mark EXCEPT ![c] = "written"]
          /\ UNCHANGED <<proc, awaits, heard, unread>>
       \/ /\ c \in Unready
          /\ mark' = [mark EXCEPT ![c] = "none"]
          /\ proc' = [proc EXCEPT ![c] = "exited"]
          /\ awaits' = [awaits EXCEPT ![c] = {}]
          /\ heard' = [heard EXCEPT ![c] = {}]
          /\ unread' = [unread EXCEPT ![c] = IF proc[c] = "attached" THEN @ + 1 ELSE @]
    /\ UNCHANGED <<cwd, viewVars, queueVars, leaseVars, gitVars, counters, daemon, left>>

(* Leasing.run: a cast not known to need a tree is spawned where it was    *)
(* asked from, to find out; any other asks for its lease.                  *)
Begins(c) ==
    /\ task[c] = "launched"
    /\ IF c \in needs \cup Says
       THEN /\ needs' = needs \cup {c}
            /\ lock' = Append(lock, c)
            /\ task' = [task EXCEPT ![c] = "leasing"]
            /\ UNCHANGED <<proc, cwd, mark>>
       ELSE /\ Spawns(c, Root)
            /\ task' = [task EXCEPT ![c] = "probing"]
            /\ UNCHANGED <<needs, lock>>
    /\ UNCHANGED <<awaits, heard, viewVars, line, ended, leased, asked, purifying,
                   gitVars, counters, daemon, left, unread>>

(* Mutant: the end of a task starts nothing.                               *)
FinishQuietly(c, bl) ==
    LET failed == status[c] = "queued"
    IN  /\ status' = IF failed THEN [status EXCEPT ![c] = "ended"] ELSE status
        /\ record' = IF failed THEN [record EXCEPT ![c] = "ended"] ELSE record
        /\ onChildren' = IF failed THEN [onChildren EXCEPT ![c] = {}]
                         ELSE onChildren
        /\ blocked' = bl
        /\ task' = [task EXCEPT ![c] = "none"]
        /\ UNCHANGED <<heard, line, ended>>

(* The end of Circle._run: the task is over, a cast that never said hello  *)
(* is failed for it, and the circle starts what it can.                    *)
Finish(c, bl) ==
    LET failed == status[c] = "queued"
        st == IF failed THEN [status EXCEPT ![c] = "ended"] ELSE status
        rec == IF failed THEN [record EXCEPT ![c] = "ended"] ELSE record
        oc == IF failed THEN [onChildren EXCEPT ![c] = {}] ELSE onChildren
    IN  /\ status' = st
        /\ record' = rec
        /\ blocked' = bl
        /\ Start(st, rec, oc, line, [task EXCEPT ![c] = "none"], heard)

(* The probe's process is gone, asking for a tree or for good.             *)
Probed(c) ==
    /\ task[c] = "probing"
    /\ proc[c] \in {"exited", "wantsTree"}
    /\ mark[c] # "writing" /\ mark' = [mark EXCEPT ![c] = "none"]
    /\ proc' = [proc EXCEPT ![c] = "none"]
    /\ IF proc[c] = "wantsTree"
       THEN /\ needs' = needs \cup {c}
            /\ lock' = Append(lock, c)
            /\ task' = [task EXCEPT ![c] = "leasing"]
            /\ UNCHANGED <<heard, viewVars, line, ended>>
       ELSE /\ Finish(c, blocked)
            /\ UNCHANGED <<needs, lock>>
    /\ UNCHANGED <<cwd, awaits, leased, asked, purifying, gitVars, counters,
                   daemon, left, unread>>

(* asyncio.Lock: whoever waits for it gets it in turn.                     *)
HasLock(who) == lock # <<>> /\ lock[1] = who

(* Leasing._lease, up to its call on git.                                  *)
LeaseBegins(c) ==
    /\ task[c] = "leasing"
    /\ HasLock(c)
    /\ asked' = Held
    /\ task' = [task EXCEPT ![c] = "asking"]
    /\ UNCHANGED <<procVars, viewVars, line, ended, needs, leased, lock, purifying,
                   gitVars, counters, daemon, left, unread, mark>>

(* GitTrees.lease: the first tree nobody held that parks, or a new one.    *)
Free == (pool \ asked) \ dirty
Least(trees) == CHOOSE t \in trees : \A u \in trees : t <= u

Found == IF Free # {} THEN Least(Free) ELSE Least(Trees \ pool)
Full == Free = {} /\ pool = Trees

(* Mutant: casts that wait on each other's trees are never seen to.        *)
NeverStuck == FALSE

(* Every tree a cast holds is held by one awaiting a cast that itself      *)
(* waits for a tree.                                                       *)
Stuck == pool \cap asked \subseteq TreesAwaiting({d \in needs : leased[d] = Root})

(* Mutant: the word of a blocked tree is never taken back.                 *)
NotFreed(trees) == blocked

(* Circle._freed: whatever cast left these trees blocked hears it is over. *)
Freed(trees) == [c \in Cast |-> IF blocked[c] \in trees THEN Root ELSE blocked[c]]

Leases(c) ==
    /\ task[c] = "asking"
    /\ ~Full
    /\ leased' = [leased EXCEPT ![c] = Found]
    /\ pool' = pool \cup {Found}
    /\ parked' = parked \cup {Found}
    /\ blocked' = Freed({Found})
    /\ lock' = Tail(lock)
    /\ asked' = {}
    /\ task' = [task EXCEPT ![c] = "preparing"]
    /\ UNCHANGED <<procVars, record, status, onChildren, line, ended, needs,
                   purifying, dirty, counters, daemon, left, unread, mark>>

(* Back in line, ahead of everything: what frees a tree, or sticks them    *)
(* all, is to start the queue again.                                       *)
WaitsForTree(c) ==
    /\ task[c] = "asking"
    /\ Full
    /\ ~Stuck
    /\ task' = [task EXCEPT ![c] = "none"]
    /\ line' = AtTheFront(line, c)
    /\ lock' = Tail(lock)
    /\ asked' = {}
    /\ UNCHANGED <<procVars, viewVars, ended, needs, leased, purifying, gitVars,
                   counters, daemon, left, unread, mark>>

(* TreeError: every tree stuck, every tree blocked, or git refusing.       *)
LeaseFails(c) ==
    /\ task[c] = "asking"
    /\ c \in Unready \/ (Full /\ Stuck)
    /\ task' = [task EXCEPT ![c] = "failing"]
    /\ lock' = Append(Tail(lock), c)
    /\ asked' = {}
    /\ UNCHANGED <<procVars, viewVars, line, ended, needs, leased, purifying,
                   gitVars, counters, daemon, left, unread, mark>>

(* `prepare` is done with the tree, and the cast is spawned in it.         *)
Prepared(c) ==
    /\ task[c] = "preparing"
    /\ Spawns(c, leased[c])
    /\ task' = [task EXCEPT ![c] = "spawned"]
    /\ UNCHANGED <<awaits, heard, viewVars, line, ended, leaseVars, gitVars,
                   counters, daemon, left, unread>>

PrepareFails(c) ==
    /\ task[c] = "preparing"
    /\ c \in Unready
    /\ \/ UNCHANGED dirty
       \/ dirty' = dirty \cup {leased[c]}
    /\ lock' = Append(lock, c)
    /\ task' = [task EXCEPT ![c] = "failing"]
    /\ UNCHANGED <<procVars, viewVars, line, ended, needs, leased, asked,
                   purifying, pool, parked, counters, daemon, left, unread, mark>>

(* Mutant: the tree is given back at the goodbye, before the exit.         *)
RanAtGoodbye(c) ==
    /\ task[c] = "spawned"
    /\ proc[c] \in {"leaving", "exited"}
    /\ mark[c] # "writing" /\ mark' = [mark EXCEPT ![c] = "none"]
    /\ proc' = [proc EXCEPT ![c] = IF @ = "exited" THEN "none" ELSE @]
    /\ lock' = Append(lock, c)
    /\ task' = [task EXCEPT ![c] = "releasing"]
    /\ UNCHANGED <<cwd, awaits, heard, viewVars, line, ended, needs, leased, asked,
                   purifying, gitVars, counters, daemon, left, unread>>

(* The cast's process is gone: its tree is to be given back.               *)
Ran(c) ==
    /\ task[c] = "spawned"
    /\ proc[c] = "exited"
    /\ mark[c] # "writing" /\ mark' = [mark EXCEPT ![c] = "none"]
    /\ proc' = [proc EXCEPT ![c] = "none"]
    /\ lock' = Append(lock, c)
    /\ task' = [task EXCEPT ![c] = "releasing"]
    /\ UNCHANGED <<cwd, awaits, heard, viewVars, line, ended, needs, leased, asked,
                   purifying, gitVars, counters, daemon, left, unread>>

(* Leasing._release, and the end of the task: a clean tree is parked, and  *)
(* one that is not is said blocked, unless the lease itself had failed.    *)
Releases(c) ==
    /\ task[c] \in {"releasing", "failing"}
    /\ HasLock(c)
    /\ lock' = Tail(lock)
    /\ needs' = needs \ {c}
    /\ UNCHANGED proc
    /\ leased' = [leased EXCEPT ![c] = Root]
    /\ LET tree == leased[c]
           clean == tree # Root /\ tree \notin dirty
       IN  /\ parked' = IF clean THEN parked \cup {tree} ELSE parked
           /\ Finish(c, IF clean THEN Freed({tree})
                        ELSE IF tree # Root /\ task[c] = "releasing"
                        THEN [blocked EXCEPT ![c] = tree] ELSE blocked)
    /\ UNCHANGED <<cwd, awaits, asked, purifying, pool, dirty, counters,
                   daemon, left, unread, mark>>

-----------------------------------------------------------------------------
(* `vekna purify`: under the lease lock, it cleans and parks every tree    *)
(* nobody held when it asked, those that will not come clean excepted.     *)

Purify ==
    /\ purifies < MaxPurifies
    /\ daemon = "up"
    /\ purifies' = purifies + 1
    /\ lock' = Append(lock, Purifier)
    /\ UNCHANGED <<procVars, viewVars, queueVars, needs, leased, asked, purifying,
                   gitVars, drops, withdrawals, daemon, left, unread, mark>>

PurifyBegins ==
    /\ HasLock(Purifier)
    /\ ~purifying
    /\ purifying' = TRUE
    /\ asked' = Held
    /\ UNCHANGED <<procVars, viewVars, queueVars, needs, leased, lock, gitVars,
                   counters, daemon, left, unread, mark>>

Purified ==
    /\ purifying
    /\ \E cleaned \in SUBSET (pool \ asked) :
          /\ dirty' = dirty \ cleaned
          /\ parked' = parked \cup cleaned
          /\ blocked' = Freed(cleaned)
    /\ purifying' = FALSE
    /\ asked' = {}
    /\ lock' = Tail(lock)
    /\ UNCHANGED <<procVars, record, status, onChildren, queueVars, needs, leased,
                   pool, counters, daemon, left, unread, mark>>

(* The user cleans a blocked tree themselves, and tells nobody.            *)
CleanedByHand ==
    /\ \E tree \in dirty :
          /\ \A c \in Cast : leased[c] # tree
          /\ dirty' = dirty \ {tree}
    /\ UNCHANGED <<procVars, viewVars, queueVars, leaseVars, pool, parked,
                   counters, daemon, left, unread, mark>>

-----------------------------------------------------------------------------

Init ==
    /\ proc = [c \in Cast |-> "none"]
    /\ cwd = [c \in Cast |-> Root]
    /\ awaits = [c \in Cast |-> {}]
    /\ heard = [c \in Cast |-> {}]
    /\ unread = [c \in Cast |-> 0]
    /\ mark = [c \in Cast |-> "none"]
    /\ record = [c \in Cast |-> "unheard"]
    /\ daemon = "up"
    /\ status = [c \in Cast |-> "unheard"]
    /\ onChildren = [c \in Cast |-> {}]
    /\ blocked = [c \in Cast |-> Root]
    /\ line = [c \in Cast |-> 0]
    /\ task = [c \in Cast |-> "none"]
    /\ ended = {}
    /\ left = {}
    /\ needs = {}
    /\ leased = [c \in Cast |-> Root]
    /\ lock = <<>>
    /\ asked = {}
    /\ purifying = FALSE
    /\ pool = {}
    /\ parked = {}
    /\ dirty = {}
    /\ drops = 0
    /\ withdrawals = 0
    /\ purifies = 0

(* What the daemon's own tasks do next for a cast.                         *)
TaskStep(c) ==
    \/ Begins(c)
    \/ Probed(c)
    \/ LeaseBegins(c)
    \/ Leases(c)
    \/ WaitsForTree(c)
    \/ LeaseFails(c)
    \/ Prepared(c)
    \/ Marks(c)
    \/ PrepareFails(c)
    \/ Ran(c)
    \/ Releases(c)

CastStep(c) ==
    \/ Typed(c)
    \/ SaysHello(c)
    \/ AsksForTree(c)
    \/ Exits(c)
    \/ \E child \in Cast : AwaitsChild(c, child)
    \/ \E child \in Cast : Withdraws(c, child)
    \/ \E child \in Cast : Hears(c, child)
    \/ Ends(c)
    \/ Drops(c)
    \/ Noticed(c)
    \/ Reattaches(c)

Next ==
    \/ \E c \in Cast : Enqueue(c) \/ TaskStep(c) \/ CastStep(c)
    \/ Purify
    \/ PurifyBegins
    \/ Purified
    \/ CleanedByHand

Spec == Init /\ [][Next]_vars

(* The daemon's loop always comes round to its own tasks, git and a        *)
(* `prepare` come back, and a connection lost is made again.  A cast says  *)
(* hello or dies, and once nothing holds it up it ends: rituals terminate, *)
(* which is theirs to see to and not the daemon's.                         *)
Fairness ==
    /\ \A c \in Cast :
          /\ WF_vars(TaskStep(c))
          /\ WF_vars(SaysHello(c) \/ AsksForTree(c))
          /\ \A child \in Cast : WF_vars(Hears(c, child))
          /\ SF_vars(Ends(c))
          /\ WF_vars(Exits(c))
          /\ WF_vars(Reattaches(c))
          /\ WF_vars(Noticed(c))
    /\ WF_vars(PurifyBegins)
    /\ WF_vars(Purified)

FairSpec == Spec /\ Fairness

-----------------------------------------------------------------------------
(* Properties.                                                             *)

(* Two casts the daemon runs never hold the same tree, however their       *)
(* leases, releases and failures interleave: the promise of the lock and   *)
(* of the `held` each lease reads under it (circle.py:154-262).            *)
LeasedOnce ==
    \A c, d \in needs : leased[c] = leased[d] /\ leased[c] # Root => c = d

(* The same of the processes themselves, from the spawn to the exit: no    *)
(* tree is handed on, parked or purified while the cast that was given it  *)
(* is alive, though its goodbye came earlier.                              *)
OneCastPerTree ==
    \A c, d \in Cast :
        /\ proc[c] \in Live
        /\ proc[d] \in Live
        /\ cwd[c] = cwd[d]
        /\ cwd[c] # Root
        => c = d

(* A queued cast is in the queue or has a task, and not both, and no two   *)
(* share a place: none is forgotten, and none is started twice.            *)
QueuedOnce ==
    /\ \A c \in Cast : status[c] = "queued" => (line[c] > 0) # (task[c] # "none")
    /\ \A c \in Cast : line[c] > 0 => task[c] = "none"
    /\ \A c, d \in InLine(line) : line[c] = line[d] => c = d

(* A process that works: alive, and waiting on no child whose ending it is *)
(* not already being told.                                                 *)
AtWork(c) ==
    /\ proc[c] \in {"silent", "attached", "detached"}
    /\ awaits[c] \subseteq heard[c]

(* Those the daemon has lost sight of: the view of one was closed over a   *)
(* lost connection; one gave up its waits while cut off; one was left by   *)
(* an earlier daemon that had not marked it yet.                           *)
Overlooked(c) ==
    \/ status[c] = "disconnected"
    \/ proc[c] # "attached" /\ onChildren[c] # {}
    \/ proc[c] # "attached" /\ mark[c] = "none" /\ status[c] # "running"

(* The casts in a slot: at work or about to be, whoever started them, but  *)
(* for those overlooked.                                                   *)
InASlot ==
    {c \in Cast : \/ task[c] # "none" /\ onChildren[c] = {}
                  \/ AtWork(c) /\ ~Overlooked(c)}

Starting(c) == task[c] = "none" /\ task'[c] = "launched"
Answering == \E c \in Cast : heard'[c] \ heard[c] # {}

(* Whatever event starts casts or lets parents carry on, and however many, *)
(* it leaves no more of them at work than the project's `processes`; a     *)
(* cast between its spawn and its hello counts, one left behind, and one   *)
(* cut off that the daemon has yet to find gone.                           *)
StartsWithinLimit ==
    [][(\E c \in Cast : Starting(c)) \/ Answering
         => Cardinality(InASlot') <= Processes]_vars

(* "Every running cast of the project counts, whether the daemon spawned   *)
(* it or somebody typed `vekna cast`" (circle.py:266-267): no cast is      *)
(* started when those attached and at work, with those the daemon has yet  *)
(* to spawn or see gone, fill the slots.  Not so: one whose view a goodbye *)
(* made up late has closed is counted no more (see the README).            *)
EveryRunningCounts ==
    [][(\E c \in Cast : Starting(c))
         => Cardinality({c \in Cast : \/ task[c] # "none" /\ onChildren[c] = {}
                                      \/ proc[c] = "attached" /\ AtWork(c)}')
                <= Processes]_vars

(* A parent comes back before anything queued starts: a step that launches *)
(* a cast leaves no await unanswered whose child has ended.                *)
ParentsFirst ==
    [][(\E c \in Cast : Starting(c)) =>
         \A p \in Awaiting :
             p[2] \in onChildren'[p[1]] => record'[p[2]] \in {"queued", "running"}]_vars

(* Started in the order of the queue: no cast is launched over one that    *)
(* stood before it and stays.                                              *)
StartsInOrder ==
    [][\A c \in Cast : Starting(c) =>
         \A d \in InLine(line) \cap InLine(line') :
             line[c] > 0 /\ line[c] < line[d]]_vars

(* An await is answered of a child that has run, or was failed: it is      *)
(* never told over while it waits to start, read back from the journal or  *)
(* not.                                                                    *)
AnsweredOnceRun ==
    [][\A c, d \in Cast : d \in heard'[c] \ heard[c] =>
         /\ record'[d] # "queued"
         /\ line'[d] = 0]_vars

(* A tree some window shows blocked is not in use: whether purify, its     *)
(* next lease or its user cleaned it, the word is taken back before a cast *)
(* is given it.                                                            *)
BlockedNotLeased ==
    \A c \in Cast, d \in needs :
        blocked[c] # Root => leased[d] # blocked[c]

(* "Back in line: the release that frees a tree, or an await that sticks   *)
(* every tree, is what starts the queue again" (circle.py:365-366): every  *)
(* queued cast starts, or is told why it never will.  Not so, of a tree    *)
(* let go of by the goodbye of a cast typed in it while a lease asks git.  *)
QueueStarts ==
    \A c \in Cast : status[c] = "queued" ~> status[c] # "queued"

(* A lease at work still has as held only what is held.                    *)
AskedIsHeld == purifying \/ asked \subseteq Held

(* Attached, and closed over a connection it had lost before.              *)
Closed(c) == proc[c] = "attached" /\ status[c] = "disconnected"

(* "A parent's `on_children` holds each request until it is answered or    *)
(* withdrawn, or the parent ends" (circle.py:89-91), however often it lost *)
(* its connection and whatever daemon it comes back to: what an attached   *)
(* cast waits for, the daemon holds or has answered, unless it has closed  *)
(* the view of that cast.                                                  *)
AwaitHeld ==
    daemon = "up" =>
        \A p \in Awaiting :
            proc[p[1]] = "attached" /\ p[2] \in awaits[p[1]]
                => p[2] \in onChildren[p[1]] \cup heard[p[1]] \/ Closed(p[1])

(* The same, as far as the code sees to it: as long as no tree is let go   *)
(* of under a lease that has read it as held, and no cast is closed that   *)
(* goes on, every queued cast starts or is failed.                         *)
QueueDrains ==
    []AskedIsHeld =>
        \A c \in Cast :
            status[c] = "queued" ~> status[c] # "queued" \/ \E p \in Cast : Closed(p)

(* Every wait ends: its child runs, or fails, however many of the slots    *)
(* and the trees are held by casts that wait.  One whose parent is closed  *)
(* while attached is the daemon's to forget.                               *)
AwaitsAnswered ==
    []AskedIsHeld =>
        \A p \in Awaiting :
            p[2] \in awaits[p[1]] ~> p[2] \notin awaits[p[1]] \/ Closed(p[1])
=============================================================================
