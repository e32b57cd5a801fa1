-------------------------------- MODULE Cast --------------------------------
(***************************************************************************)
(* One `vekna cast` from its command line to its exit code                 *)
(* (src/vekna/lexicon/_inits.py): typed by hand, it stays at its terminal  *)
(* for the casts it queued, and those queued by them, until it has heard   *)
(* of how each ended (_links/follow.py, _mills/follow.py); and the         *)
(* daemon's escalation of a cancel it does not act on (mills/cutter.py).   *)
(*                                                                         *)
(* The word of an enqueue and the fan-out of what the casts do come on two *)
(* connections, each in order and neither before the other.                *)
(***************************************************************************)
EXTENDS Integers, Sequences

CONSTANTS
    Kids,       \* the other casts
    Root,       \* this one
    Parent,     \* [Kids -> the cast that queues it, or None: typed elsewhere, and on its own]
    None,
    MaxLosses   \* bound: connections lost, its own and those of the other casts

ASSUME CastAssumption ==
    /\ Parent \in [Kids -> Kids \cup {Root, None}] /\ Root \notin Kids
    /\ None \notin Kids \cup {Root, "ok", "error", "disconnected"}
    /\ MaxLosses \in Nat

VARIABLES
    staying,    \* it has a follower to stay with
    phase,      \* "drive", "steps", "closed", "waiting", then "over", "left" or "dead"
    code,       \* its exit code
    daemon, attached,
    view,       \* this cast, as the daemon sees it: "none", "running", "ended"
    unread,     \* connections it lost, which the daemon has yet to read to the end
    heeds,      \* what the steps that are to be cut act on: a cancel, SIGINT, SIGKILL
    cut,        \* the cutter's task for it: "no", "asked", "signalled"
    asked, answers,     \* enqueues, and their answers, on their way
    asking, returned,   \* enqueues its steps wait for; those that returned
    stat,       \* the other casts
    wire,       \* the follower's connection: what is on its way to it
    writer,     \* it has it
    hanging,    \* it was hung up, and whoever waits is not woken yet
    heard, ended, expected,     \* the lineage
    done,       \* the event `until_settled` waits on
    losses

root == <<staying, phase, code>>
cutting == <<view, unread, heeds, cut>>
enqueues == <<asked, answers, asking, returned>>
lineage == <<heard, ended, expected>>
follower == <<writer, hanging, lineage, done>>
vars == <<staying, phase, code, daemon, attached, view, unread, heeds, cut, asked, answers, asking,
          returned, stat, wire, writer, hanging, heard, ended, expected, done, losses>>

Running == {"drive", "steps", "closed", "waiting"}

Init ==
    /\ staying = FALSE /\ phase = "drive" /\ code = None
    /\ daemon \in BOOLEAN /\ attached = FALSE
    /\ view = "none" /\ unread = 0 /\ heeds = None /\ cut = "no"
    /\ asked = {} /\ answers = {} /\ asking = {} /\ returned = {}
    /\ stat = [k \in Kids |-> IF Parent[k] = None THEN "running" ELSE "none"]
    /\ wire = <<>> /\ writer = FALSE
    /\ heard = {} /\ ended = [k \in Kids |-> None] /\ expected = {}
    /\ hanging = FALSE /\ done = FALSE /\ losses = 0

(* What the daemon says of the other casts, to a follower that is there.   *)
Hello(k) == <<"hello", k>>
Goodbye(k, status) == <<"goodbye", k, status>>
Tells(frames) == wire' = IF daemon /\ writer THEN wire \o frames ELSE wire

-----------------------------------------------------------------------------
(* The command line: `queued`, what is resumed is the first run of a cast   *)
(* that was enqueued, which alone may have been leased a tree; `worktree`,  *)
(* its ritual needs one; `wired`, the daemon spawned it.                    *)

Plan ==
    {p \in [queued : BOOLEAN, leased : BOOLEAN, worktree : BOOLEAN, wired : BOOLEAN,
            follow : BOOLEAN] : p.leased => p.queued}

(* A plan, or None: no such ritual, or its components do not fit.          *)
Resolved == Plan \cup {None}

NeedsTree(plan) == plan.wired /\ plan.queued /\ plan.worktree /\ ~plan.leased

(* A follower is first told of a cast that runs already, if any does.      *)
Replayed ==
    LET strangers == {k \in Kids : Parent[k] = None}
    IN  IF strangers = {} THEN {<<>>} ELSE {<<Hello(k)>> : k \in strangers}

(* A cast typed by hand has somebody to stay, and with no daemon nothing   *)
(* to stay for.                                                            *)
Followed(plan) == ~plan.wired /\ plan.follow /\ daemon

Starts(plan) ==
    /\ phase' = "steps" /\ UNCHANGED code
    /\ attached' = daemon
    /\ view' = IF daemon THEN "running" ELSE "none"
    /\ staying' = Followed(plan)
    /\ writer' = staying'
    /\ wire' \in IF staying' THEN Replayed ELSE {<<>>}

Refused(with) ==
    /\ phase' = "over" /\ code' = with
    /\ UNCHANGED <<staying, attached, view, writer, wire>>

Drives ==
    /\ phase = "drive"
    /\ \E plan \in Resolved :
        \/ plan = None /\ Refused(2)
        \/ plan # None /\ NeedsTree(plan) /\ Refused(75)
        \/ plan # None /\ ~NeedsTree(plan) /\ Starts(plan)
    /\ UNCHANGED <<daemon, unread, heeds, cut, enqueues, stat, hanging, lineage, done, losses>>

Exits(with) ==
    /\ phase' = "over" /\ code' = with
    /\ writer' = FALSE /\ wire' = <<>>

(* Its steps ended, well or not: the goodbye, on its way; `queued` is all  *)
(* they queued that was heard of.                                          *)
Closes(with) ==
    /\ phase' = "closed" /\ code' = with
    /\ attached' = FALSE /\ asking' = {}
    /\ UNCHANGED <<staying, daemon, cutting, asked, answers, returned, stat, wire,
                   follower, losses>>

Ends ==
    /\ phase = "steps"
    /\ \/ asking = {} /\ Closes(0)
       \/ Closes(1)
       \/ Closes(2)     \* a medium with no focus

GoodbyeHeard ==
    /\ phase \notin {"drive", "steps"} /\ view = "running"
    /\ view' = "ended"
    /\ UNCHANGED <<root, daemon, attached, unread, heeds, cut, enqueues, stat, wire, follower,
                   losses>>

(* Its connection is lost, with enqueues that were on their way, and the   *)
(* ones it waits for fail.  It reattaches, before or after the daemon has  *)
(* read the old connection to the end and said a goodbye for it.           *)
LosesConnection ==
    /\ phase = "steps" /\ attached /\ attached' = FALSE
    /\ losses < MaxLosses /\ losses' = losses + 1
    /\ unread' = unread + 1
    /\ asked' \in SUBSET asked /\ asking' = {}
    /\ UNCHANGED <<root, daemon, view, heeds, cut, answers, returned, stat, wire, follower>>

Reattaches ==
    /\ phase = "steps" /\ daemon /\ ~attached
    /\ attached' = TRUE /\ view' = "running"
    /\ UNCHANGED <<root, daemon, unread, heeds, cut, enqueues, stat, wire, follower, losses>>

GoneNoticed ==
    /\ unread > 0 /\ unread' = unread - 1
    /\ view' = "ended"
    /\ UNCHANGED <<root, daemon, attached, heeds, cut, enqueues, stat, wire, follower, losses>>

-----------------------------------------------------------------------------
(* `enqueue`, over the link; its answer; and one a timeout gave up.        *)

Enqueues(k) ==
    /\ phase = "steps" /\ attached /\ Parent[k] = Root
    /\ k \notin asking \cup asked \cup returned /\ stat[k] = "none"
    /\ asking' = asking \cup {k} /\ asked' = asked \cup {k}
    /\ UNCHANGED <<root, daemon, attached, cutting, answers, returned, stat, wire, follower,
                   losses>>

Takes(k) ==
    /\ daemon /\ k \in asked /\ phase \in Running
    /\ asked' = asked \ {k} /\ answers' = answers \cup {k}
    /\ stat' = [stat EXCEPT ![k] = "queued"]
    /\ Tells(<<Hello(k)>>)
    /\ UNCHANGED <<root, daemon, attached, cutting, asking, returned, follower, losses>>

(* Refused, lost with the daemon, or cancelled before it is answered.      *)
GivesUp(k) ==
    /\ phase = "steps" /\ k \in asking
    /\ asking' = asking \ {k}
    /\ UNCHANGED <<root, daemon, attached, cutting, asked, answers, returned, stat, wire,
                   follower, losses>>

(* Mutant: what the daemon took is not expected.                           *)
ReturnsUnexpected(k) ==
    /\ phase = "steps" /\ k \in asking \cap answers
    /\ asking' = asking \ {k} /\ answers' = answers \ {k}
    /\ returned' = returned \cup {k}
    /\ UNCHANGED <<root, daemon, attached, cutting, asked, stat, wire, follower, losses>>

Returns(k) ==
    /\ phase = "steps" /\ k \in asking \cap answers
    /\ asking' = asking \ {k} /\ answers' = answers \ {k}
    /\ returned' = returned \cup {k} /\ expected' = expected \cup {k}
    /\ UNCHANGED <<root, daemon, attached, cutting, asked, stat, wire, writer, hanging, heard,
                   ended, done, losses>>

-----------------------------------------------------------------------------
(* The other casts, and the daemon's word of them, while this one runs.    *)

KidStep(k, from, to, frames) ==
    /\ daemon /\ stat[k] \in from /\ phase \in Running /\ Parent[k] # None
    /\ stat' = [stat EXCEPT ![k] = to]
    /\ Tells(frames)
    /\ UNCHANGED <<root, daemon, attached, cutting, enqueues, follower>>

KidStarts(k) == KidStep(k, {"queued"}, "running", <<Hello(k)>>) /\ UNCHANGED losses
KidEnds(k) ==
    /\ \/ KidStep(k, {"running"}, "ok", <<Goodbye(k, "ok")>>)
       \/ KidStep(k, {"running", "queued"}, "failed", <<Goodbye(k, "error")>>)
       \/ KidStep(k, {"lost"}, "failed", <<>>)
    /\ UNCHANGED losses

(* One already running queues another.                                     *)
KidEnqueues(k) ==
    /\ Parent[k] \in Kids /\ stat[Parent[k]] = "running"
    /\ KidStep(k, {"none"}, "queued", <<Hello(k)>>) /\ UNCHANGED losses

(* Its connection is lost, and it comes back on another.                   *)
KidLost(k) ==
    /\ losses < MaxLosses /\ losses' = losses + 1
    /\ KidStep(k, {"running"}, "lost", <<Goodbye(k, "disconnected")>>)
KidBack(k) == KidStep(k, {"lost"}, "running", <<Hello(k)>>) /\ UNCHANGED losses

(* The daemon ends, and with it every connection, once what is on its way  *)
(* is read.                                                                *)
DaemonGoes ==
    /\ daemon /\ daemon' = FALSE /\ phase \in Running
    /\ attached' = FALSE /\ unread' = 0 /\ cut' = "no" /\ heeds' = None
    /\ UNCHANGED <<root, view, enqueues, stat, wire, follower, losses>>

-----------------------------------------------------------------------------
(* The follower and its lineage.                                           *)

(* Up through the parents of those heard of, to this cast: it is in every  *)
(* set that has, of those, the children of this cast and of its members.   *)
Descends(k) ==
    \A S \in SUBSET heard : {j \in heard : Parent[j] \in S \cup {Root}} \subseteq S => k \in S

Settled == expected \subseteq heard /\ \A k \in heard : Descends(k) => ended[k] # None
Failed == \E k \in Kids : ended[k] \notin {None, "ok"}

LineageHears(message) ==
    LET k == message[2]
    IN  IF message[1] = "hello"
        THEN heard' = heard \cup {k} /\ UNCHANGED ended
        ELSE /\ ended' = IF Descends(k) THEN [ended EXCEPT ![k] = message[3]] ELSE ended
             /\ UNCHANGED heard

Reads ==
    /\ writer /\ wire # <<>>
    /\ LineageHears(Head(wire)) /\ wire' = Tail(wire)
    /\ UNCHANGED <<root, daemon, attached, cutting, enqueues, stat, writer, hanging, expected,
                   losses>>
    /\ done' = (done \/ Settled')

(* The end of the stream: hung up, then whoever waits is woken.            *)
HangsUp ==
    /\ writer /\ ~daemon /\ wire = <<>>
    /\ writer' = FALSE /\ hanging' = TRUE
    /\ UNCHANGED <<root, daemon, attached, cutting, enqueues, stat, wire, lineage, done, losses>>

HungUp ==
    /\ hanging
    /\ hanging' = FALSE /\ done' = TRUE
    /\ UNCHANGED <<root, daemon, attached, cutting, enqueues, stat, wire, writer, lineage, losses>>

-----------------------------------------------------------------------------
(* The terminal, once its own steps are over.                              *)

(* The worst of how this cast and the ones it queued ended.                *)
Worst == IF code # 0 \/ ~staying THEN code ELSE IF Settled /\ ~Failed THEN 0 ELSE 1

(* Mutant: it waits for a word even when nobody is left to say it.         *)
StaysBlind ==
    /\ phase = "closed"
    /\ IF staying /\ ~Settled
       THEN phase' = "waiting" /\ done' = FALSE /\ UNCHANGED <<code, writer, wire>>
       ELSE Exits(Worst) /\ UNCHANGED done
    /\ UNCHANGED <<staying, daemon, attached, cutting, enqueues, stat, hanging, lineage, losses>>

(* `until_settled`, up to what it waits for: a word from before is stale.  *)
Stays ==
    /\ phase = "closed"
    /\ IF ~Settled /\ writer
       THEN phase' = "waiting" /\ done' = FALSE /\ UNCHANGED <<code, writer, wire>>
       ELSE Exits(Worst) /\ UNCHANGED done
    /\ UNCHANGED <<staying, daemon, attached, cutting, enqueues, stat, hanging, lineage, losses>>

Wakes ==
    /\ phase = "waiting" /\ done
    /\ Exits(Worst)
    /\ UNCHANGED <<staying, daemon, attached, cutting, enqueues, stat, hanging, lineage, done,
                   losses>>

(* Out by Ctrl-C, by SIGINT, or by an error that is none of the ritual's:  *)
(* the casts it was staying for are left.                                  *)
Out(how) ==
    /\ phase' = how /\ attached' = FALSE /\ asking' = {}
    /\ writer' = FALSE /\ wire' = <<>>
    /\ UNCHANGED <<staying, code, asked, answers, returned>>

Leaves ==
    /\ phase \in {"steps", "closed", "waiting"}
    /\ phase = "steps" => heeds # "kill"
    /\ Out("left")
    /\ UNCHANGED <<daemon, cutting, stat, hanging, lineage, done, losses>>

-----------------------------------------------------------------------------
(* A cancel, and what it comes to.                                         *)

(* The steps cut by a cancel that was asked for end as a failure.          *)
Cancelled(by) ==
    IF heeds' = by
    THEN /\ phase' = "closed" /\ code' = 1 /\ attached' = FALSE /\ asking' = {}
         /\ UNCHANGED <<staying, asked, answers, returned, writer, wire>>
    ELSE UNCHANGED <<root, attached, enqueues, writer, wire>>

(* A surface asks for it to end: told, unless its connection is lost as    *)
(* it is, and made to if it does not listen.  One cut at a time, however   *)
(* often it is asked for.                                                  *)
AskedToEnd ==
    /\ daemon /\ phase = "steps" /\ view = "running" /\ (attached \/ unread > 0)
    /\ cut' = IF cut = "no" THEN "asked" ELSE cut
    /\ \/ attached /\ heeds' = "cancel"
       \/ cut = "no" /\ heeds' \in {"int", "kill"}
    /\ Cancelled("cancel")
    /\ UNCHANGED <<daemon, view, unread, stat, hanging, lineage, done, losses>>

(* `pid_alive` of the pid its hello said.                                  *)
Alive == phase \in Running
StillRunning == view = "running" /\ Alive
Interrupt == IF phase = "steps" THEN Cancelled("int") ELSE Out("left")

(* Mutant: the last signal is never sent.                                  *)
CutsOnce ==
    /\ daemon /\ cut # "no" /\ cut' = "no" /\ UNCHANGED heeds
    /\ IF StillRunning THEN Interrupt ELSE UNCHANGED <<root, attached, enqueues, writer, wire>>
    /\ UNCHANGED <<daemon, view, unread, stat, hanging, lineage, done, losses>>

(* A grace over: SIGINT to one still running, then SIGKILL.                *)
Cuts ==
    /\ daemon /\ cut # "no"
    /\ \/ /\ ~StillRunning /\ cut' = "no" /\ heeds' = None
          /\ UNCHANGED <<root, attached, enqueues, writer, wire>>
       \/ StillRunning /\ cut = "asked" /\ cut' = "signalled" /\ UNCHANGED heeds /\ Interrupt
       \/ StillRunning /\ cut = "signalled" /\ cut' = "no" /\ heeds' = None /\ Out("dead")
    /\ UNCHANGED <<daemon, view, unread, stat, hanging, lineage, done, losses>>

-----------------------------------------------------------------------------

Own == Drives \/ Stays \/ Wakes \/ Reads \/ HangsUp \/ HungUp \/ GoodbyeHeard \/ GoneNoticed
Others == \E k \in Kids : Takes(k) \/ KidStarts(k) \/ KidEnds(k)

Next ==
    \/ Own \/ Others \/ Ends \/ Leaves \/ LosesConnection \/ Reattaches \/ AskedToEnd \/ Cuts \/ DaemonGoes
    \/ \E k \in Kids : \/ Enqueues(k) \/ GivesUp(k) \/ Returns(k)
                       \/ KidEnqueues(k) \/ KidLost(k) \/ KidBack(k)

(* What is on its way arrives, a process left to itself runs on, a grace   *)
(* is over some time, and a cast that was queued starts and ends.          *)
Spec ==
    /\ Init /\ [][Next]_vars
    /\ WF_vars(Own) /\ WF_vars(Cuts)
    /\ \A k \in Kids : WF_vars(KidStarts(k)) /\ WF_vars(KidEnds(k))

-----------------------------------------------------------------------------

TypeOK ==
    /\ phase \in Running \cup {"over", "left", "dead"} /\ code \in {None, 0, 1, 2, 75}
    /\ (phase = "over") => code # None
    /\ asking \cup asked \cup answers \cup returned \cup expected \subseteq Kids
    /\ \A k \in Kids : ended[k] \in {None, "ok", "error", "disconnected"}
    /\ \A k \in Kids : ended[k] # None => Descends(k)
    /\ (phase = "waiting" => staying) /\ (attached => phase = "steps")

(* What its steps queued, and what those queued, down from them.           *)
From(k) ==
    \A S \in SUBSET Kids : returned \cup {j \in Kids : Parent[j] \in S} \subseteq S => k \in S

(* A terminal that stayed says all is well only when it is: every cast its *)
(* steps queued, and every one those queued, has ended, and ended well,    *)
(* though the word of the enqueue and the fan-out travel on two            *)
(* connections, and a cast may lose its own (_inits._followed, Lineage).   *)
CodeTold ==
    phase = "over" /\ code = 0 /\ staying =>
        \A k \in Kids : From(k) /\ stat[k] # "none" => stat[k] = "ok"

(* A terminal that stays is let go, whatever became of the daemon and in   *)
(* whatever order the word of the casts it waits for comes.                *)
LetsGo == phase \in {"closed", "waiting"} ~> phase \notin Running

(* A cast asked to end does, if it does not listen to a cancel nor to a    *)
(* Ctrl-C, as long as the daemon lives (mills/cutter.py) and has the cast  *)
(* running in its view: one whose lost connection is noticed meanwhile is  *)
(* not signalled, and goes on if it heeded nothing.                        *)
CutLands == cut = "asked" ~> phase # "steps" \/ ~daemon \/ view # "running"
=============================================================================
