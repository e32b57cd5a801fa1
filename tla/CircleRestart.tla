---------------------------- MODULE CircleRestart ----------------------------
(***************************************************************************)
(* The circle over the daemon's own end: `vekna stop`, a daemon killed,    *)
(* and the next one reading back what they left (_serving,                 *)
(* src/vekna/inits/daemon.py, with Spawner's marks and the journal's       *)
(* queue).  The casts run on meanwhile.                                    *)
(***************************************************************************)
EXTENDS Circle

CONSTANTS
    MaxStops,   \* bound: `vekna stop` commands
    MaxKills    \* bound: how many times the daemon is killed

ASSUME RestartAssumption == MaxStops \in Nat /\ MaxKills \in Nat

VARIABLES
    twice,          \* whether some cast has been spawned beside itself
    stops, kills    \* how far each bound is used

restartVars == <<twice, stops, kills>>
allVars == <<vars, restartVars>>

(* StopRequested: the socket closes, and the connections with it, each     *)
(* read loop saying its cast's goodbye as it goes (Drops, then Noticed).   *)
(* The loop runs on until the last of them has.                            *)
Stop ==
    /\ daemon = "up"
    /\ stops < MaxStops
    /\ stops' = stops + 1
    /\ daemon' = "stopping"
    /\ UNCHANGED <<procVars, viewVars, queueVars, leaseVars, gitVars, counters,
                   left, unread, mark, kills>>

(* Spawner.left_behind: the casts whose mark reads back, of a process that *)
(* is alive.                                                               *)
LeftMarked(marks) == {c \in Cast : marks[c] = "written" /\ proc[c] \in Live}

(* What a daemon held in memory goes with it; the marks stay, of those     *)
(* being written the ones that are by then.                                *)
Forget(written) ==
    /\ daemon' = "down"
    /\ mark' = [c \in Cast |->
                   IF proc[c] \in Live /\ (mark[c] = "written" \/ c \in written)
                   THEN "written" ELSE "none"]
    /\ unread' = [c \in Cast |-> 0]
    /\ status' = [c \in Cast |-> "unheard"]
    /\ onChildren' = [c \in Cast |-> {}]
    /\ blocked' = [c \in Cast |-> Root]
    /\ line' = [c \in Cast |-> 0]
    /\ task' = [c \in Cast |-> "none"]
    /\ ended' = {}
    /\ left' = LeftMarked(mark')
    /\ needs' = {}
    /\ leased' = [c \in Cast |-> Root]
    /\ lock' = <<>>
    /\ asked' = {}
    /\ purifying' = FALSE
    /\ heard' = [c \in Cast |-> {}]

(* The trees a cancelled task still gives back: the cancellation is one of *)
(* the BaseExceptions Leasing.run releases on.                             *)
GivenBack ==
    {leased[c] : c \in {d \in needs : task[d] \in {"preparing", "spawned"}}} \ dirty

(* The last connection read to its end, every task is cancelled; a thread  *)
(* that writes a mark may come to its end first, or not have begun.        *)
Stopped ==
    /\ daemon = "stopping"
    /\ \A c \in Cast : proc[c] # "attached" /\ unread[c] = 0
    /\ \E written \in SUBSET {c \in Cast : mark[c] = "writing"} : Forget(written)
    /\ parked' = parked \cup GivenBack
    /\ proc' = [c \in Cast |-> IF proc[c] \in Live THEN proc[c] ELSE "none"]
    /\ UNCHANGED <<cwd, awaits, record, pool, dirty, counters, stops, kills>>

(* The daemon is killed: nobody says goodbye and nothing is given back.    *)
Killed ==
    /\ daemon # "down"
    /\ kills < MaxKills
    /\ kills' = kills + 1
    /\ Forget({})
    /\ proc' = [c \in Cast |-> IF proc[c] = "attached" THEN "detached"
                               ELSE IF proc[c] \in Live THEN proc[c] ELSE "none"]
    /\ UNCHANGED <<cwd, awaits, record, gitVars, counters, stops>>

(* What the journal's records say is queued.                               *)
Waiting == {c \in Cast : record[c] = "queued"}

(* Mutant: what runs already is queued again all the same.                 *)
ServeAll ==
    LET waiting == Waiting
        st == [c \in Cast |-> IF c \in waiting THEN "queued" ELSE "unheard"]
    IN  /\ daemon = "down"
        /\ daemon' = "up"
        /\ status' = st
        /\ UNCHANGED proc
        /\ \E place \in [waiting -> 1..Cardinality(waiting)] :
              /\ \A c, d \in waiting : place[c] = place[d] => c = d
              /\ Start(st, record, onChildren,
                       [c \in Cast |-> IF c \in waiting THEN place[c] ELSE 0],
                       task, heard)
        /\ UNCHANGED <<cwd, awaits, record, blocked, leaseVars, gitVars,
                       counters, left, unread, mark, stops, kills>>

(* What waited in the journal is queued again, in an order of its own,     *)
(* less what runs already.                                                 *)
Serve ==
    LET waiting == Waiting \ LeftLive(status)
        st == [c \in Cast |-> IF c \in waiting THEN "queued" ELSE "unheard"]
    IN  /\ daemon = "down"
        /\ daemon' = "up"
        /\ status' = st
        /\ UNCHANGED proc
        /\ \E place \in [waiting -> 1..Cardinality(waiting)] :
              /\ \A c, d \in waiting : place[c] = place[d] => c = d
              /\ Start(st, record, onChildren,
                       [c \in Cast |-> IF c \in waiting THEN place[c] ELSE 0],
                       task, heard)
        /\ UNCHANGED <<cwd, awaits, record, blocked, leaseVars, gitVars,
                       counters, left, unread, mark, stops, kills>>

RestartTypeOK ==
    /\ TypeOK
    /\ twice \in BOOLEAN
    /\ stops \in 0..MaxStops
    /\ kills \in 0..MaxKills

RestartInit == Init /\ twice = FALSE /\ stops = 0 /\ kills = 0

(* A cast's process is spawned, on a probe or in its tree.                 *)
Spawned(c) == task'[c] # task[c] /\ task'[c] \in {"probing", "spawned"}

(* The model has one process for each cast: it ends where a second is      *)
(* spawned beside the first.                                               *)
RestartNext ==
    /\ ~twice
    /\ \/ /\ daemon # "down"
          /\ Next
          /\ UNCHANGED <<stops, kills>>
       \/ /\ daemon = "down"
          /\ \E c \in Cast : SaysHello(c) \/ AsksForTree(c) \/ Exits(c)
          /\ UNCHANGED <<stops, kills>>
       \/ Stop
       \/ Stopped
       \/ Killed
       \/ Serve
    /\ twice' = \E c \in Cast : Spawned(c) /\ proc[c] \in Live

RestartSpec == RestartInit /\ [][RestartNext]_allVars

-----------------------------------------------------------------------------

(* No two casts work in one tree, whichever daemon leased it to each: of   *)
(* those at least that are marked as running.                              *)
OneWorkingCastPerTree ==
    \A c, d \in {e \in Cast : mark[e] = "written"} :
        /\ proc[c] \in {"silent", "attached", "detached"}
        /\ proc[d] \in {"silent", "attached", "detached"}
        /\ cwd[c] = cwd[d]
        /\ cwd[c] # Root
        => c = d

(* "Unmarked, it is a cast the next daemon could lease a tree from under,  *)
(* so it does not run at all" (spawner.py:86-87): no cast is spawned while *)
(* a process of it is alive, whichever daemon spawned that one.  Not so:   *)
(* the process runs before its mark is written (see the README).           *)
SpawnedAlone ==
    [][\A c \in Cast : Spawned(c) => proc[c] \notin Live]_allVars

(* The same of every process whose mark was written: wherever in its life  *)
(* a daemon left it, and however that daemon ended, the next ones let it   *)
(* be.                                                                     *)
SpawnedOnce ==
    [][\A c \in Cast : Spawned(c) => proc[c] \notin Live \/ mark[c] = "none"]_allVars
=============================================================================
