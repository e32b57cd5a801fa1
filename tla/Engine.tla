------------------------------- MODULE Engine -------------------------------
(***************************************************************************)
(* A cast's own work: the trampoline over a ritual's steps                 *)
(* (src/vekna/lexicon/_mills/engine.py, dispatch.py), the mediums they     *)
(* call one after the other, together or in a race (bounds.py), what is    *)
(* journaled of it, and the resume of a cast cut short off that journal    *)
(* (ledger.py, src/vekna/lexicon/_links/resume.py).  Calls of an agent are *)
(* on threads: each names the session it left, which a later one carries   *)
(* on (src/vekna/folio/coding/_mills.py).                                  *)
(*                                                                         *)
(* A ritual is what its author wrote: for each payload, the calls of the   *)
(* step that takes it, in branches that run together, and where the step   *)
(* goes by the result it reads.  It is the same when it is run again, and  *)
(* so walks the same way for as long as its calls return the same.         *)
(***************************************************************************)
EXTENDS Journal

CONSTANTS
    Payload, First,     \* the payloads, and the one the ritual enters by
    Done, Raise, None,
    StepOf,     \* [Payload -> the step that takes it]
    Recovery,   \* [Payload -> `Failure` of it where a step takes it, or None]
    Body,       \* [Payload -> its branches, each a sequence of calls]
    Racing,     \* the payloads whose branches race; the others' are a group
    Medium,     \* [call -> the name of the medium it calls]
    Answers,    \* [call -> what it may return]
    Thread,     \* [call of an agent -> the key of its thread, or None]
    Continues,  \* those that carry on: `Session.CONTINUE`
    Exit,       \* [Payload -> [what it reads -> Payload, Done or Raise]]
    Timed,      \* the payloads whose step has a timeout
    MaxVisits,  \* [step -> how often one cast may enter it]
    MaxSteps,
    MaxResumes, \* bound: resumes; the last one is followed by no daemon
    MaxLost     \* bound: daemons and connections that end

Branches == UNION {DOMAIN Body[p] : p \in Payload}

ASSUME EngineAssumption ==
    /\ First \in Payload
    /\ \A p \in Payload : Body[p] \in Seq(Seq(DOMAIN Medium))
    /\ Recovery \in [Payload -> Payload \cup {None}]
    /\ {Racing, Timed} \subseteq SUBSET Payload
    /\ Continues \subseteq DOMAIN Thread
    /\ \A p \in Payload : StepOf[p] \in DOMAIN MaxVisits
    /\ {MaxSteps, MaxResumes, MaxLost} \subseteq Nat

ASSUME VisitsAssumption == \A s \in DOMAIN MaxVisits : MaxVisits[s] \in Nat

VARIABLES
    phase,      \* "between" steps, in a "body", or "done", "failed", "killed"
    payload,    \* the transition: what the next step takes, or Done
    steps, visits,
    counter,    \* the grimoire's: the last rite's number
    grimoire,   \* every event of this cast, in order
    doing,      \* each branch: "ready" to call, "live" or "replayed" in a call, then how it ended
    pos,        \* the call each branch is at
    got,        \* what each branch's last call returned, and its rite
    turn,       \* the branch running: a task runs on until it awaits
    outer,      \* a "timeout" or a "cancel" that cuts the step
    sessions,   \* the book: by key the session last filed, under None the latest of all
    carried,    \* history: what each call that carried on was given, and by which cast
    ledger,     \* the record being replayed: entries, or None in a first run
    recorded,   \* what a resume found recorded, the ledger before it is spent
    attached, resumes, daemons

walk == <<payload, steps, visits>>
tasks == <<doing, pos, got, turn, outer>>
book == <<sessions, carried>>
memory == <<ledger, recorded, resumes, book>>
vars == <<phase, payload, steps, visits, counter, grimoire, doing, pos, got, turn, outer,
          sessions, carried, ledger, recorded, attached, resumes, daemons,
          record, log, gapped, unmarked, fails>>

Nothing == [result |-> None, rite |-> 0]
Idle == [b \in Branches |-> "done"]
NoSessions == [k \in {Thread[c] : c \in DOMAIN Thread} \cup {None} |-> None]

Init ==
    /\ phase = "between" /\ payload = First
    /\ steps = 0 /\ visits = [s \in DOMAIN MaxVisits |-> 0]
    /\ counter = 0 /\ grimoire = <<>>
    /\ doing = Idle /\ pos = [b \in Branches |-> 1]
    /\ got = [b \in Branches |-> Nothing] /\ turn = None /\ outer = None
    /\ sessions = NoSessions /\ carried = {}
    /\ JournalInit
    /\ ledger = None /\ recorded = {}
    /\ attached = FALSE /\ resumes = 0 /\ daemons = 0

-----------------------------------------------------------------------------
(* The grimoire, and the wire it is teed to.                               *)

Began(id, name, of) == [event |-> "began", rite |-> id, name |-> name, of |-> of]
Ended(id, status, result, session) ==
    [event |-> "ended", rite |-> id, status |-> status, result |-> result, session |-> session]

Hello == [event |-> "hello"]

(* An event: journaled by a daemon that hears of it, kept for one that     *)
(* will.                                                                   *)
Emit(event) ==
    /\ grimoire' = Append(grimoire, event)
    /\ IF attached THEN RecordsRite(event) ELSE UNCHANGED journal

(* What a daemon that arrives is told.                                     *)
Backlog == grimoire

Attaches ==
    /\ ~attached /\ phase \in {"between", "body"} /\ resumes < MaxResumes
    /\ RecordsHello(Hello, Backlog)
    /\ attached' = TRUE
    /\ UNCHANGED <<phase, walk, counter, grimoire, tasks, memory, daemons>>

(* The daemon ends, and the next one starts.                               *)
Restarts ==
    /\ phase \in {"between", "body"} /\ daemons < MaxLost /\ daemons' = daemons + 1
    /\ attached' = FALSE
    /\ Restarted
    /\ UNCHANGED <<phase, walk, counter, grimoire, tasks, memory>>

(* The connection alone is lost, and the goodbye made up for it.           *)
Drops ==
    /\ attached /\ daemons < MaxLost /\ daemons' = daemons + 1
    /\ attached' = FALSE
    /\ RecordsGoodbye("disconnected")
    /\ UNCHANGED <<phase, walk, counter, grimoire, tasks, memory>>

-----------------------------------------------------------------------------
(* The trampoline.                                                         *)

Finishes(how) ==
    /\ phase' = how
    /\ IF attached THEN RecordsGoodbye(IF how = "done" THEN "ok" ELSE "error")
       ELSE UNCHANGED journal
    /\ attached' = FALSE

(* Mutant: a step asks the ledger too.                                     *)
EntersAsking ==
    LET s == StepOf[payload]
    IN  /\ phase = "between" /\ payload # Done
        /\ steps < MaxSteps /\ visits[s] < MaxVisits[s]
        /\ phase' = "body"
        /\ steps' = steps + 1 /\ visits' = [visits EXCEPT ![s] = @ + 1]
        /\ counter' = counter + 1
        /\ Emit(Began(counter', s, <<payload, steps', 0, 0>>))
        /\ ledger' = IF ledger = None THEN None ELSE {}
        /\ doing' = [b \in Branches |-> IF b \in DOMAIN Body[payload] THEN "ready" ELSE "done"]
        /\ pos' = [b \in Branches |-> 1] /\ got' = [b \in Branches |-> Nothing]
        /\ UNCHANGED <<payload, turn, outer, recorded, resumes, book, attached, daemons>>

(* Mutant: a step may be entered once more than it may be.                 *)
EntersOnceMore ==
    LET s == StepOf[payload]
    IN  /\ phase = "between" /\ payload # Done
        /\ steps < MaxSteps /\ visits[s] <= MaxVisits[s]
        /\ phase' = "body"
        /\ steps' = steps + 1 /\ visits' = [visits EXCEPT ![s] = @ + 1]
        /\ counter' = counter + 1
        /\ Emit(Began(counter', s, <<payload, steps', 0, 0>>))
        /\ doing' = [b \in Branches |-> IF b \in DOMAIN Body[payload] THEN "ready" ELSE "done"]
        /\ pos' = [b \in Branches |-> 1] /\ got' = [b \in Branches |-> Nothing]
        /\ UNCHANGED <<payload, turn, outer, memory, attached, daemons>>

(* A step entered: its rite opened, its branches started.                  *)
Enters ==
    LET s == StepOf[payload]
    IN  /\ phase = "between" /\ payload # Done
        /\ steps < MaxSteps /\ visits[s] < MaxVisits[s]
        /\ phase' = "body"
        /\ steps' = steps + 1 /\ visits' = [visits EXCEPT ![s] = @ + 1]
        /\ counter' = counter + 1
        /\ Emit(Began(counter', s, <<payload, steps', 0, 0>>))
        /\ doing' = [b \in Branches |-> IF b \in DOMAIN Body[payload] THEN "ready" ELSE "done"]
        /\ pos' = [b \in Branches |-> 1] /\ got' = [b \in Branches |-> Nothing]
        /\ UNCHANGED <<payload, turn, outer, memory, attached, daemons>>

(* Done, or over a budget.                                                 *)
Ends ==
    /\ phase = "between"
    /\ \/ payload = Done /\ Finishes("done")
       \/ /\ payload # Done
          /\ steps = MaxSteps \/ visits[StepOf[payload]] = MaxVisits[StepOf[payload]]
          /\ Finishes("failed")
    /\ UNCHANGED <<walk, counter, grimoire, tasks, memory, daemons>>

Mine == DOMAIN Body[payload]
Racers(how) == {b \in Mine : doing[b] = how}

(* The branches still at work are being cancelled: by what cuts the step,  *)
(* by one of a group that failed, by one of a race that returned.          *)
Cutting ==
    \/ outer # None
    \/ payload \notin Racing /\ Racers("failed") # {}
    \/ payload \in Racing /\ Racers("done") # {}

(* The loop runs one task at a time, the newly made in the order made.     *)
HasTurn(b) ==
    \/ turn = b
    \/ turn = None /\ \A a \in Mine : a < b => doing[a] # "ready"

(* What is recorded of a rite, if it was of a medium of that name.         *)
Take(id, name) == {e \in ledger : e.rite = id /\ e.name = name}

(* Mutant: a rite it cannot find leaves the rest to be taken.              *)
LeftUnspent(id, name) == ledger

(* What a call leaves of it: nothing, if it was not in it.                 *)
Left(id, name) == IF Take(id, name) = {} THEN {} ELSE ledger

Call(b) == Body[payload][b][pos[b]]

(* A call whose like is not in what a resume found recorded.               *)
Missed(id) ==
    \E i \in DOMAIN grimoire :
        /\ grimoire[i].event = "began" /\ grimoire[i].rite = id /\ grimoire[i].of[3] # 0
        /\ ~\E e \in recorded : e.rite = id /\ e.of = grimoire[i].of

(* The session a call carries on: its thread's, or the last of any.        *)
Resumed(call) == IF call \in Continues THEN sessions[Thread[call]] ELSE None

(* A medium called: its rite is opened, and the ledger asked for it.  What *)
(* it finds is returned without awaiting anything.                         *)
Calls(b) ==
    LET name == Medium[Call(b)]
        of == <<payload, steps, b, pos[b]>>
        found == ledger # None /\ Take(counter', name) # {}
    IN  /\ phase = "body" /\ doing[b] = "ready" /\ HasTurn(b)
        /\ counter' = counter + 1
        /\ Emit(Began(counter', name, of))
        /\ doing' = [doing EXCEPT ![b] = IF found THEN "replayed" ELSE "live"]
        /\ turn' = IF found THEN b ELSE None
        /\ ledger' = IF ledger = None THEN None ELSE Left(counter', name)
        /\ got' = [got EXCEPT ![b] = [result |-> None, rite |-> counter']]
        /\ carried' = IF Call(b) \in Continues
                      THEN carried \cup {[cast |-> resumes, of |-> of, session |-> Resumed(Call(b))]}
                      ELSE carried
        /\ UNCHANGED <<phase, walk, pos, outer, recorded, resumes, sessions, attached, daemons>>

Starting == \E b \in Mine : doing[b] = "ready"

(* What was recorded of a call, as the medium reads it back.               *)
Prior(b) == {[result |-> e.result, session |-> e.session] :
                e \in Take(got[b].rite, Medium[Call(b)])}

(* What it says when it runs: an agent's session is named after the rite   *)
(* it last answered in.                                                    *)
Reply(b) == {[result |-> r,
              session |-> IF Call(b) \in DOMAIN Thread THEN <<resumes, got[b].rite>> ELSE None] :
                r \in Answers[Call(b)]}

Returnable(b) == IF doing[b] = "replayed" THEN Prior(b) ELSE Reply(b)

(* Mutant: what is replayed is not filed.                                  *)
FilesLive(b, session) ==
    sessions' = IF session = None \/ doing[b] = "replayed" THEN sessions
                ELSE [k \in DOMAIN sessions |->
                         IF k \in {None, Thread[Call(b)]} THEN session ELSE sessions[k]]

(* A reply is filed under its thread, and as the latest.                   *)
Files(b, session) ==
    sessions' = IF session = None THEN sessions
                ELSE [k \in DOMAIN sessions |->
                         IF k \in {None, Thread[Call(b)]} THEN session ELSE sessions[k]]

(* It returns what it did, or what was recorded.  A result that is in when *)
(* its branch is being cut may still be returned.                          *)
Returns(b) ==
    /\ phase = "body"
    /\ doing[b] = "live" => turn = None /\ ~Starting
    /\ doing[b] \in {"live", "replayed"}
    /\ \E reply \in Returnable(b) :
        /\ Emit(Ended(got[b].rite, "ok", reply.result, reply.session))
        /\ Files(b, reply.session)
        /\ got' = [got EXCEPT ![b].result = reply.result]
    /\ IF pos[b] < Len(Body[payload][b])
       THEN /\ pos' = [pos EXCEPT ![b] = @ + 1] /\ doing' = [doing EXCEPT ![b] = "ready"]
            /\ turn' = b
       ELSE doing' = [doing EXCEPT ![b] = "done"] /\ turn' = None /\ UNCHANGED pos
    /\ UNCHANGED <<phase, walk, counter, outer, ledger, recorded, resumes, carried, attached, daemons>>

(* It raises, or is cancelled and has reaped what it started.  An agent's  *)
(* reply of another shape than was asked for is recorded and filed first.  *)
Fails(b) ==
    /\ phase = "body" /\ doing[b] = "live" /\ turn = None /\ ~Starting
    /\ IF Cutting
       THEN /\ Emit(Ended(got[b].rite, "cancelled", None, None))
            /\ doing' = [doing EXCEPT ![b] = "cut"] /\ UNCHANGED sessions
       ELSE /\ doing' = [doing EXCEPT ![b] = "failed"]
            /\ \/ Emit(Ended(got[b].rite, "error", None, None)) /\ UNCHANGED sessions
               \/ /\ Call(b) \in DOMAIN Thread
                  /\ \E reply \in Reply(b) :
                         /\ Emit(Ended(got[b].rite, "error", reply.result, reply.session))
                         /\ Files(b, reply.session)
    /\ UNCHANGED <<phase, walk, counter, pos, got, turn, outer, ledger, recorded, resumes,
                   carried, attached, daemons>>

(* The step's timeout, or a window that cancels the cast.                  *)
Cuts ==
    /\ phase = "body" /\ outer = None /\ turn = None /\ ~Starting
    /\ \E b \in Mine : doing[b] = "live"
    /\ \/ payload \in Timed /\ outer' = "timeout"
       \/ attached /\ outer' = "cancel"
    /\ UNCHANGED <<phase, walk, counter, grimoire, doing, pos, got, turn, memory, attached,
                   daemons, journal>>

(* What the step reads: the winner's result, or the first branch's.        *)
Verdict ==
    LET done == Racers("done")
    IN  got[CHOOSE b \in done : \A a \in done : b <= a].result

(* The body over, with every task in it: the step's rite closed.  A raise  *)
(* goes to the step that takes its `Failure`, if there is one; a cancel is *)
(* not a failure.                                                          *)
Leaves ==
    LET rite == CHOOSE id \in 1..counter :
                    \E i \in DOMAIN grimoire :
                        grimoire[i].event = "began" /\ grimoire[i].rite = id
                            /\ grimoire[i].of = <<payload, steps, 0, 0>>
        raised == \/ outer = "timeout"
                  \/ Cutting /\ payload \notin Racing
                  \/ payload \in Racing /\ Racers("done") = {}
                  \/ Exit[payload][Verdict] = Raise
    IN  /\ phase = "body" /\ \A b \in Mine : doing[b] \in {"done", "failed", "cut"}
        /\ doing' = Idle /\ outer' = None /\ turn' = None
        /\ IF outer = "cancel" \/ (raised /\ Recovery[payload] = None)
           THEN Emit(Ended(rite, IF outer = "cancel" THEN "cancelled" ELSE "error", None, None))
                /\ phase' = "raised" /\ UNCHANGED payload
           ELSE IF raised
           THEN Emit(Ended(rite, "error", None, None))
                /\ phase' = "between" /\ payload' = Recovery[payload]
           ELSE Emit(Ended(rite, "ok", None, None))
                /\ phase' = "between" /\ payload' = Exit[payload][Verdict]
        /\ UNCHANGED <<steps, visits, counter, pos, got, memory, attached, daemons>>

(* Out of the trampoline, to the cast's goodbye.                           *)
Raises ==
    /\ phase = "raised" /\ Finishes("failed")
    /\ UNCHANGED <<walk, counter, grimoire, tasks, memory, daemons>>

(* The process killed, and the daemon's goodbye for it.                    *)
Dies ==
    /\ phase \in {"between", "body"} /\ phase' = "killed"
    /\ IF attached THEN RecordsGoodbye("disconnected") ELSE UNCHANGED journal
    /\ attached' = FALSE
    /\ UNCHANGED <<walk, counter, grimoire, tasks, memory, daemons>>

-----------------------------------------------------------------------------

(* `from_resumption`: the mediums that ended well with something to say.   *)
Entries ==
    {[rite |-> p[1].rite, name |-> p[1].name, of |-> p[1].of,
      result |-> p[2].result, session |-> p[2].session] :
        p \in {q \in log \X log :
            /\ q[1].event = "began" /\ q[2].event = "ended" /\ q[1].rite = q[2].rite
            /\ q[1].of[3] # 0 /\ q[2].status = "ok"}}

(* There is something to resume it from, gapped or not.                    *)
Readable == record # NoRecord

(* `vekna cast --resume`: a cast of its own, with a journal of its own.    *)
Resumes ==
    /\ phase \in {"killed", "failed", "done"} /\ Readable
    /\ resumes < MaxResumes /\ resumes' = resumes + 1
    /\ ledger' = Entries /\ recorded' = Entries
    /\ phase' = "between" /\ payload' = First
    /\ steps' = 0 /\ visits' = [s \in DOMAIN MaxVisits |-> 0]
    /\ counter' = 0 /\ grimoire' = <<>>
    /\ doing' = Idle /\ pos' = [b \in Branches |-> 1]
    /\ got' = [b \in Branches |-> Nothing] /\ turn' = None /\ outer' = None
    /\ sessions' = NoSessions
    /\ record' = NoRecord /\ log' = {} /\ gapped' = FALSE /\ unmarked' = FALSE
    /\ UNCHANGED <<carried, attached, daemons, fails>>

Work ==
    \/ Enters \/ Ends \/ Leaves \/ Raises
    \/ \E b \in Branches : Calls(b) \/ Returns(b) \/ Fails(b)

Next == Work \/ Attaches \/ Restarts \/ Drops \/ Cuts \/ Dies \/ Resumes

Spec == Init /\ [][Next]_vars

-----------------------------------------------------------------------------

Status == {"ready", "live", "replayed", "done", "failed", "cut"}
TypeOK ==
    /\ phase \in {"between", "body", "raised", "done", "failed", "killed"}
    /\ payload \in Payload \cup {Done}
    /\ steps \in 0..MaxSteps /\ \A s \in DOMAIN MaxVisits : visits[s] \in 0..MaxVisits[s]
    /\ doing \in [Branches -> Status] /\ turn \in Branches \cup {None}
    /\ outer \in {None, "timeout", "cancel"}
    /\ \A b \in Branches : pos[b] \in Nat /\ got[b].rite \in 0..counter
    /\ phase \in {"between", "raised", "done", "failed"} => doing = Idle
    /\ Cardinality({i \in DOMAIN grimoire : grimoire[i].event = "began"}) = counter

Results == UNION {Answers[c] : c \in DOMAIN Medium}

(* The rituals of which ReplayedOwn and NotRunAgain are claimed.  A step   *)
(* calls something, and what it calls together calls once each; a result   *)
(* leads somewhere; no step takes the failure of one with a timeout, which *)
(* a replay would not fail again.                                          *)
Repeatable ==
    \A p \in Payload :
        /\ Body[p] # <<>> /\ \A b \in DOMAIN Body[p] : Body[p][b] # <<>>
        /\ Len(Body[p]) = 1 \/ \A b \in DOMAIN Body[p] : Len(Body[p][b]) = 1
        /\ \A r \in Results : Exit[p][r] \in Payload \cup {Done, Raise}
        /\ p \in Timed => Recovery[p] = None

(* A call that does not run, in a cast resumed (ledger.take, engine._rite),*)
(* is given what that same call returned before, and never what another    *)
(* call of the ritual did: rites are matched by their number alone.        *)
ReplayedOwn ==
    \A b \in Branches : doing[b] = "replayed" =>
        \A e \in Take(got[b].rite, Medium[Call(b)]) :
            e.of = <<payload, steps, b, pos[b]>>

(* What a resume finds recorded is not done a second time, as long as      *)
(* every call before it was recorded as well (ledger.py:17-25).            *)
NotRunAgain ==
    \A b \in Branches :
        doing[b] = "live" /\ (\E e \in recorded : e.of = <<payload, steps, b, pos[b]>>)
            => \E id \in 1..got[b].rite - 1 : Missed(id)

(* The rituals of which ThreadKept is claimed, besides: of the branches of  *)
(* a step one at most calls an agent.                                      *)
OneAgent ==
    \A p \in Payload : Len(Body[p]) = 1 \/
        \A a, b \in DOMAIN Body[p] :
            {Body[p][a][1], Body[p][b][1]} \subseteq DOMAIN Thread => a = b

(* A call that was cut short carries on, in the resume, the session it     *)
(* carried on in the cast resumed, whatever of its thread was replayed,    *)
(* failed after it was filed or raced: as long as every call before it     *)
(* came back off the record (coding/_mills.py:225).                        *)
ThreadKept ==
    [][\A b \in Branches :
        (/\ resumes > 0 /\ doing[b] = "ready" /\ doing'[b] = "live" /\ Call(b) \in Continues
         /\ ~\E id \in 1..counter : Missed(id))
        => \A c \in carried :
               c.cast = resumes - 1 /\ c.of = <<payload, steps, b, pos[b]>>
                   => c.session = Resumed(Call(b))]_vars

Logged(i) == grimoire[i] \in log

(* The log of a cast is a prefix of what it did, whatever the disk refuses *)
(* and however often it is said again (journal.py:64-71): a resume never   *)
(* finds a rite recorded past one that is missing.                         *)
NoHole == \A i \in DOMAIN grimoire, j \in DOMAIN grimoire : i < j /\ Logged(j) => Logged(i)
=============================================================================
