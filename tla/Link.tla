-------------------------------- MODULE Link --------------------------------
(***************************************************************************)
(* The two ends of a cast's wire: DaemonLink, in the cast's process        *)
(* (src/vekna/lexicon/_links/daemon.py), and the connection's handler in   *)
(* the daemon (src/vekna/links/socket_server.py, routed by _Daemon in      *)
(* src/vekna/inits/daemon.py).                                             *)
(*                                                                         *)
(* What a cast waits on the daemon for: an answer to a prompt, a coding    *)
(* slot, a cast queued, a child's end.  A connection is two queues; its    *)
(* ends come apart when the cast cannot read a frame, when the daemon      *)
(* cannot, when either process goes.  The coding slots are CodingPool's.   *)
(***************************************************************************)
EXTENDS Integers, Sequences, SequencesExt, FiniteSets

CONSTANTS
    Cast,
    Prompt, Slot, Enqueue, Await,   \* ids, each one cast's own
    Of,         \* whose each is
    Limit, NoLimit, MaxAsks,        \* the coding pool's
    Conns,      \* bound: [Cast -> the connections it ever opens]
    MaxBegun,   \* bound: things ever waited on
    MaxUnread,  \* bound: frames unread by a cast, when it is told of an answer
    MaxFaults   \* bound: frames either end cannot read, and daemons that end

Id == Prompt \cup Slot \cup Enqueue \cup Await
Conn == UNION {1..Conns[c] : c \in Cast}
None == 0

ASSUME LinkAssumption ==
    /\ IsFiniteSet(Cast) /\ IsFiniteSet(Id)
    /\ Prompt \cap Slot = {} /\ (Prompt \cup Slot) \cap Enqueue = {}
    /\ (Prompt \cup Slot \cup Enqueue) \cap Await = {}
    /\ Of \in [Id -> Cast]
    /\ Conns \in [Cast -> Nat]
    /\ {MaxBegun, MaxUnread, MaxFaults} \subseteq Nat

VARIABLES
    at,         \* at the cast: where each thing it waits on has come to
    claimed,    \* at the cast: its prompts a window has claimed
    conn,       \* at the cast: the connection it is attached by, or None
    connecting, \* at the cast: the connection being made, or None
    over,       \* the casts that are closed
    opened,     \* the connections each cast has opened
    up,         \* [Cast -> [Conn -> frames the daemon has not read]]
    down,       \* [Cast -> [Conn -> frames the cast has not read]]
    alive,      \* a daemon is serving
    handling,   \* the daemon's end: the connections it still reads
    peer,       \* the connection each cast is told things on
    status,     \* what each cast's view says
    known,      \* the prompts and awaits the views hold open
    claims,     \* the prompts the daemon holds claimed
    tasks,      \* enqueues read and not settled
    queued,     \* how often each enqueue was queued
    held, waiting, limit, asks,     \* the coding pool
    faults

Pool == INSTANCE CodingPool WITH Request <- Slot, Owner <- [s \in Slot |-> Of[s]]

pool == <<held, waiting, limit, asks>>
board == <<status, known, claims>>
ends == <<conn, connecting, over, opened>>
work == <<at, claimed>>
server == <<alive, handling, peer, tasks, queued>>
vars == <<at, claimed, conn, connecting, over, opened, up, down, alive, handling, peer,
          status, known, claims, tasks, queued, held, waiting, limit, asks, faults>>

TypeOK ==
    /\ at \in [Id -> {"idle", "waiting", "running", "over", "queued", "refused", "gone"}]
    /\ claimed \subseteq {p \in Prompt : at[p] = "waiting"}
    /\ \A c \in Cast : conn[c] \in 0..opened[c] /\ connecting[c] \in {None, opened[c]}
    /\ over \subseteq Cast
    /\ \A c \in Cast : opened[c] \in 0..Conns[c]
    /\ handling \in [Cast -> SUBSET Conn]
    /\ \A c \in Cast : peer[c] \in handling[c] \cup {None}
    /\ status \in [Cast -> {"none", "running", "disconnected", "ended"}]
    /\ known \subseteq Prompt \cup Await /\ claims \subseteq known
    /\ tasks \subseteq Enqueue
    /\ held \subseteq Slot /\ Pool!Requests(waiting) \subseteq Slot

Init ==
    /\ at = [x \in Id |-> "idle"] /\ claimed = {}
    /\ conn = [c \in Cast |-> None] /\ connecting = [c \in Cast |-> None]
    /\ over = {} /\ opened = [c \in Cast |-> 0]
    /\ up = [c \in Cast |-> [k \in Conn |-> <<>>]] /\ down = up
    /\ alive = TRUE /\ handling = [c \in Cast |-> {}]
    /\ peer = [c \in Cast |-> None]
    /\ status = [c \in Cast |-> "none"]
    /\ known = {} /\ claims = {} /\ tasks = {}
    /\ queued = [e \in Enqueue |-> 0]
    /\ Pool!Init
    /\ faults = 0

Frame(kind, about) == [kind |-> kind, about |-> about]
Mine(c, xs) == {x \in xs : Of[x] = c}
Open(c, xs) == {x \in Mine(c, xs) : at[x] \in {"waiting", "running"}}

-----------------------------------------------------------------------------
(* The cast's end.                                                         *)

(* `send`: written if attached, dropped if not.                            *)
Send(c, frame) ==
    up' = IF conn[c] = None THEN up ELSE [up EXCEPT ![c][conn[c]] = Append(@, frame)]

(* A connection handled by the daemon, from now to its end.                *)
Handles(c, k) == handling' = [handling EXCEPT ![c] = @ \cup {k}]
Handled(c, k) == handling' = [handling EXCEPT ![c] = @ \ {k}]

(* `attach`, as far as the connect it awaits.                              *)
Connects(c) ==
    /\ alive /\ c \notin over /\ conn[c] = None /\ connecting[c] = None
    /\ opened[c] < Conns[c]
    /\ opened' = [opened EXCEPT ![c] = @ + 1]
    /\ connecting' = [connecting EXCEPT ![c] = opened'[c]]
    /\ Handles(c, opened'[c])
    /\ UNCHANGED <<work, conn, over, up, down, alive, peer, tasks, queued, board, pool, faults>>

(* Mutant: an await is not said again.                                     *)
BacklogWithoutAwaits(c) ==
    <<Frame("hello", c)>>
    \o SetToSeq({Frame("asked", p) : p \in Open(c, Prompt)})
    \o SetToSeq({Frame("slot", s) : s \in Open(c, Slot)})

(* The hello and the grimoire's begin, then all that is open said again:   *)
(* read now that the connection is up.  An enqueue is not.  A cast closed  *)
(* meanwhile shuts it having said nothing, so it is nobody's to end.       *)
Backlog(c) ==
    <<Frame("hello", c)>>
    \o SetToSeq({Frame("asked", p) : p \in Open(c, Prompt)})
    \o SetToSeq({Frame("slot", s) : s \in Open(c, Slot)})
    \o SetToSeq({Frame("awaits", k) : k \in Open(c, Await)})

Attaches(c) ==
    LET k == connecting[c]
    IN  /\ k # None
        /\ connecting' = [connecting EXCEPT ![c] = None]
        /\ IF c \in over
           THEN Handled(c, k) /\ UNCHANGED <<conn, up>>
           ELSE /\ conn' = [conn EXCEPT ![c] = k]
                /\ up' = [up EXCEPT ![c][k] = Backlog(c)]
                /\ UNCHANGED handling
        /\ UNCHANGED <<work, over, opened, down, alive, peer, tasks, queued, board, pool, faults>>

(* `_detach`: the terminal answers again, a wait for a slot is let go, an  *)
(* enqueue fails, not knowing whether it was queued.                       *)
Detached(c) ==
    /\ conn' = [conn EXCEPT ![c] = None]
    /\ at' = [x \in Id |-> IF Of[x] # c \/ at[x] # "waiting" THEN at[x]
                           ELSE IF x \in Slot THEN "running"
                           ELSE IF x \in Enqueue THEN "gone" ELSE at[x]]
    /\ claimed' = claimed \ Mine(c, Prompt)

(* A thing begun.  With no daemon attached a session just starts, and      *)
(* there is nobody to queue or to await by.                                *)
Begins(x) ==
    LET c == Of[x]
        kind == CASE x \in Prompt -> "asked" [] x \in Slot -> "slot"
                  [] x \in Enqueue -> "enqueue" [] OTHER -> "awaits"
    IN  /\ at[x] = "idle" /\ c \notin over
        /\ Cardinality({y \in Id : at[y] # "idle"}) < MaxBegun
        /\ conn[c] = None => x \in Prompt \cup Slot
        /\ at' = [at EXCEPT ![x] = IF x \in Slot /\ conn[c] = None THEN "running" ELSE "waiting"]
        /\ IF at'[x] = "running" THEN UNCHANGED up ELSE Send(c, Frame(kind, x))
        /\ UNCHANGED <<claimed, ends, down, server, board, pool, faults>>

(* Done with: answered at the terminal, which is not asking under a claim; *)
(* the session over; or given up, by a timeout, a race or a cancel.        *)
Closes(x) ==
    LET c == Of[x]
    IN  /\ at[x] \in {"waiting", "running"}
        /\ at' = [at EXCEPT ![x] = "over"]
        /\ claimed' = claimed \ {x}
        /\ CASE x \in Prompt ->
                  \E kind \in {"resolved", "withdrawn"} :
                    (kind = "resolved" => x \notin claimed) /\ Send(c, Frame(kind, x))
             [] x \in Slot -> Send(c, Frame("released", x))
             [] x \in Await -> Send(c, Frame("awaitWithdrawn", x))
             [] OTHER -> UNCHANGED up
        /\ UNCHANGED <<ends, down, server, board, pool, faults>>

Hear(c) == down' = [down EXCEPT ![c][conn[c]] = Tail(@)]

(* `_heard`: what is no longer waited on is read past.  An answer settles  *)
(* the prompt, and is said again by the cast that took it.                 *)
Hears(c) ==
    /\ conn[c] # None /\ down[c][conn[c]] # <<>>
    /\ Hear(c)
    /\ LET frame == Head(down[c][conn[c]])
           x == frame.about
           to(result) == at' = [at EXCEPT ![x] = result]
       IN  IF at[x] # "waiting" THEN UNCHANGED <<work, up>>
           ELSE CASE frame.kind = "answer" ->
                        to("over") /\ claimed' = claimed \ {x} /\ Send(c, Frame("resolved", x))
                  [] frame.kind = "claimed" -> claimed' = claimed \cup {x} /\ UNCHANGED <<at, up>>
                  [] frame.kind = "unclaimed" -> claimed' = claimed \ {x} /\ UNCHANGED <<at, up>>
                  [] frame.kind = "granted" -> to("running") /\ UNCHANGED <<claimed, up>>
                  [] frame.kind = "accepted" -> to("queued") /\ UNCHANGED <<claimed, up>>
                  [] frame.kind = "refused" -> to("refused") /\ UNCHANGED <<claimed, up>>
                  [] OTHER -> to("over") /\ UNCHANGED <<claimed, up>>
    /\ UNCHANGED <<ends, server, board, pool, faults>>

(* The end of `_watch`: by the daemon's end of the connection, once all it *)
(* wrote is read, or by a frame over the 64 KiB this end reads with.  The  *)
(* daemon is not told of that one: it sees the connection go later.        *)
Gone(c) ==
    /\ conn[c] # None
    /\ \/ down[c][conn[c]] = <<>> /\ conn[c] \notin handling[c] /\ UNCHANGED faults
       \/ down[c][conn[c]] # <<>> /\ faults < MaxFaults /\ faults' = faults + 1
    /\ down' = [down EXCEPT ![c][conn[c]] = <<>>]
    /\ Detached(c)
    /\ UNCHANGED <<connecting, over, opened, up, server, board, pool>>

(* `close`, the cast's last word.                                          *)
Ends(c) ==
    /\ c \notin over /\ Open(c, Id) = {}
    /\ over' = over \cup {c}
    /\ Send(c, Frame("goodbye", c))
    /\ conn' = [conn EXCEPT ![c] = None]
    /\ down' = [down EXCEPT ![c] = [k \in Conn |-> <<>>]]
    /\ UNCHANGED <<work, connecting, opened, server, board, pool, faults>>

(* The process killed: no goodbye.                                         *)
Dies(c) ==
    /\ c \notin over /\ Open(c, Id) # {}
    /\ over' = over \cup {c}
    /\ at' = [x \in Id |-> IF x \in Open(c, Id) THEN "over" ELSE at[x]]
    /\ claimed' = claimed \ Mine(c, Prompt)
    /\ conn' = [conn EXCEPT ![c] = None]
    /\ down' = [down EXCEPT ![c] = [k \in Conn |-> <<>>]]
    /\ UNCHANGED <<connecting, opened, up, server, board, pool, faults>>

-----------------------------------------------------------------------------
(* The daemon's end.                                                       *)

(* `tell`: written to the peer, if there is one.                           *)
Tell(c, k, frame) ==
    down' = IF k = None \/ c \in over THEN down ELSE [down EXCEPT ![c][k] = Append(@, frame)]

(* The slots a step grants are told to their casts.                        *)
TellGrants ==
    down' = [c \in Cast |-> [k \in Conn |->
                IF k # peer[c] \/ c \in over THEN down[c][k]
                ELSE down[c][k] \o SetToSeq({Frame("granted", s) : s \in Mine(c, held' \ held)})]]

Heard(c, k) == up' = [up EXCEPT ![c][k] = Tail(@)]

(* `close_cast`: a newer peer is kept.                                     *)
CloseCast(c, k) == peer' = [peer EXCEPT ![c] = IF @ = k THEN None ELSE @]

(* Mutant: the pool does not hear of it.                                   *)
GoodbyeToTheHub(c, as) ==
    /\ status' = [status EXCEPT ![c] = IF @ = "none" THEN @ ELSE as]
    /\ known' = known \ Mine(c, known) /\ claims' = claims \ Mine(c, claims)
    /\ UNCHANGED <<pool, down>>

(* A goodbye, the cast's own or the one a lost connection earns it: the    *)
(* hub's, then the pool's.                                                 *)
Goodbye(c, as) ==
    /\ status' = [status EXCEPT ![c] = IF @ = "none" THEN @ ELSE as]
    /\ known' = known \ Mine(c, known) /\ claims' = claims \ Mine(c, claims)
    /\ Pool!Ended(c) /\ TellGrants

(* Mutant: a claim outlives the hello that starts the view again.          *)
ReadsHelloOnly(c, k) ==
    /\ peer' = [peer EXCEPT ![c] = k]
    /\ status' = [status EXCEPT ![c] = "running"]
    /\ known' = known \ Mine(c, known)
    /\ Heard(c, k)
    /\ UNCHANGED <<work, ends, down, alive, handling, tasks, queued, claims, pool, faults>>

(* A hello: the connection's first frame, which makes it the peer.         *)
ReadsHello(c, k) ==
    /\ peer' = [peer EXCEPT ![c] = k]
    /\ status' = [status EXCEPT ![c] = "running"]
    /\ known' = known \ Mine(c, known) /\ claims' = claims \ Mine(c, claims)
    /\ Heard(c, k)
    /\ UNCHANGED <<work, ends, down, alive, handling, tasks, queued, pool, faults>>

(* A goodbye read: the connection closes after it.                         *)
ReadsGoodbye(c, k) ==
    /\ Goodbye(c, "ended")
    /\ Handled(c, k) /\ CloseCast(c, k)
    /\ Heard(c, k)
    /\ UNCHANGED <<work, ends, alive, tasks, queued, faults>>

(* What is left of a prompt or an await, to the hub; of a slot, to the     *)
(* pool.                                                                   *)
ReadsBoard(c, k, frame) ==
    /\ IF frame.kind \in {"asked", "awaits"}
       THEN known' = known \cup {frame.about} /\ UNCHANGED claims
       ELSE known' = known \ {frame.about} /\ claims' = claims \ {frame.about}
    /\ Heard(c, k)
    /\ UNCHANGED <<work, ends, down, server, status, pool, faults>>

SlotFrames == {"slot", "released"}

ReadsSlot(c, k, frame) ==
    /\ IF frame.kind = "slot" THEN Pool!Requested(frame.about) ELSE Pool!Released(frame.about)
    /\ TellGrants
    /\ Heard(c, k)
    /\ UNCHANGED <<work, ends, server, board, faults>>

(* Mutant: accepted before the project's directory is looked for.          *)
ReadsEnqueueAccepted(c, k, e) ==
    /\ tasks' = tasks \cup {e}
    /\ Tell(c, peer[c], Frame("accepted", e))
    /\ Heard(c, k)
    /\ UNCHANGED <<work, ends, alive, handling, peer, queued, board, pool, faults>>

(* A task of its own: the project's directory is looked for in a thread.   *)
ReadsEnqueue(c, k, e) ==
    /\ tasks' = tasks \cup {e}
    /\ Heard(c, k)
    /\ UNCHANGED <<work, ends, down, alive, handling, peer, queued, board, pool, faults>>

(* One loop reads what came first first: a newer connection's frames come  *)
(* after an older one's, but the older one's end may be seen much later.   *)
Reads(c, k) ==
    /\ k \in handling[c] /\ up[c][k] # <<>>
    /\ \A j \in handling[c] : j < k => up[c][j] = <<>>
    /\ LET frame == Head(up[c][k])
       IN  \/ frame.kind = "hello" /\ ReadsHello(c, k)
           \/ frame.kind = "goodbye" /\ ReadsGoodbye(c, k)
           \/ /\ frame.kind \in {"asked", "resolved", "withdrawn", "awaits", "awaitWithdrawn"}
              /\ ReadsBoard(c, k, frame)
           \/ frame.kind \in SlotFrames /\ ReadsSlot(c, k, frame)
           \/ frame.kind = "enqueue" /\ ReadsEnqueue(c, k, frame.about)

(* The project's directory is there, and the cast queued, or it is not.    *)
(* Told on whatever connection the asker has by then.                      *)
Settles(e) ==
    /\ e \in tasks /\ tasks' = tasks \ {e}
    /\ \/ /\ queued' = [queued EXCEPT ![e] = @ + 1]
          /\ Tell(Of[e], peer[Of[e]], Frame("accepted", e))
       \/ /\ UNCHANGED queued
          /\ Tell(Of[e], peer[Of[e]], Frame("refused", e))
    /\ UNCHANGED <<work, ends, up, alive, handling, peer, board, pool, faults>>

(* The reading of a connection that ends without a goodbye: the cast's end *)
(* is gone and all it wrote is read, or a frame is one this end refuses.   *)
LosesConnection(c, k) ==
    /\ k \in handling[c] /\ k # connecting[c]
    /\ \/ up[c][k] = <<>> /\ k # conn[c] /\ UNCHANGED faults
       \/ up[c][k] # <<>> /\ Head(up[c][k]).kind # "hello" /\ faults < MaxFaults /\ faults' = faults + 1
    /\ Handled(c, k) /\ CloseCast(c, k)
    /\ up' = [up EXCEPT ![c][k] = <<>>]
    /\ Goodbye(c, "disconnected")
    /\ UNCHANGED <<work, ends, alive, tasks, queued>>

(* A window claims an open prompt, lets go of it, or answers it; a child   *)
(* ends, and the circle tells of it.                                       *)
Answers(x) ==
    LET c == Of[x]
    IN  /\ x \in known /\ peer[c] # None
        /\ \/ /\ x \in Prompt \ claims
              /\ claims' = claims \cup {x} /\ UNCHANGED known
              /\ Tell(c, peer[c], Frame("claimed", x))
           \/ /\ x \in claims
              /\ claims' = claims \ {x} /\ UNCHANGED known
              /\ Tell(c, peer[c], Frame("unclaimed", x))
           \/ /\ x \in Prompt /\ UNCHANGED <<known, claims>>
              /\ Frame("answer", x) \notin Range(down[c][peer[c]])
              /\ Tell(c, peer[c], Frame("answer", x))
           \/ /\ x \in Await /\ known' = known \ {x} /\ UNCHANGED claims
              /\ Tell(c, peer[c], Frame("childEnded", x))
        /\ Len(down[c][peer[c]]) < MaxUnread
        /\ UNCHANGED <<work, ends, up, server, status, pool, faults>>

(* The daemon ends, stopped or killed: what it had not read is lost, and   *)
(* the end of what it had written may be.                                  *)
Stops ==
    /\ alive /\ faults < MaxFaults /\ faults' = faults + 1
    /\ alive' = FALSE /\ tasks' = {}
    /\ handling' = [c \in Cast |-> {}] /\ peer' = [c \in Cast |-> None]
    /\ up' = [c \in Cast |-> [k \in Conn |-> <<>>]]
    /\ \E whole \in BOOLEAN :
        down' = [c \in Cast |-> [k \in Conn |-> IF whole THEN down[c][k] ELSE <<>>]]
    /\ status' = [c \in Cast |-> "none"] /\ known' = {} /\ claims' = {}
    /\ held' = {} /\ waiting' = {}
    /\ UNCHANGED <<work, ends, queued, limit, asks>>

Serves ==
    /\ ~alive /\ alive' = TRUE
    /\ UNCHANGED <<work, ends, up, down, handling, peer, tasks, queued, board, pool, faults>>

Next ==
    \/ \E c \in Cast : Connects(c) \/ Attaches(c) \/ Hears(c) \/ Gone(c) \/ Ends(c) \/ Dies(c)
    \/ \E x \in Id : Begins(x) \/ Closes(x) \/ Answers(x)
    \/ \E c \in Cast, k \in Conn : Reads(c, k) \/ LosesConnection(c, k)
    \/ \E e \in Enqueue : Settles(e)
    \/ Stops \/ Serves

Spec == Init /\ [][Next]_vars
-----------------------------------------------------------------------------

UpTo(c, kind, x) == Frame(kind, x) \in Range(up[c][conn[c]])
DownTo(c, kind, x) == Frame(kind, x) \in Range(down[c][conn[c]])

(* The daemon's end of the connection a cast is attached by is there, and  *)
(* the daemon takes the cast to be there: a goodbye made up for an older   *)
(* connection has not come after its hello.                                *)
Attached(c) ==
    conn[c] # None /\ conn[c] \in handling[c]
        /\ (status[c] = "running" \/ UpTo(c, "hello", c))

(* Whatever a cast waits on can still come to it.  Attached, the daemon    *)
(* holds it, or one of the two is about to hear of it, and a prompt is     *)
(* asked at the terminal unless its claim is one the daemon knows.         *)
(* Detached, the terminal asks all that is open, and neither a session     *)
(* nor an enqueue waits: nobody could end the wait.                        *)
EveryWaitCanEnd ==
    \A x \in Id : at[x] = "waiting" =>
        LET c == Of[x]
        IN  CASE conn[c] = None -> x \in Prompt \cup Await /\ x \notin claimed
              [] conn[c] # None /\ ~Attached(c) -> TRUE
              [] Attached(c) /\ x \in Prompt ->
                    /\ x \in known \/ UpTo(c, "asked", x)
                    /\ x \in claimed => x \in claims \/ DownTo(c, "unclaimed", x)
              [] Attached(c) /\ x \in Slot ->
                    \/ UpTo(c, "slot", x) \/ x \in Pool!Requests(waiting)
                    \/ DownTo(c, "granted", x)
              [] Attached(c) /\ x \in Enqueue ->
                    \/ UpTo(c, "enqueue", x) \/ x \in tasks
                    \/ DownTo(c, "accepted", x) \/ DownTo(c, "refused", x)
              [] Attached(c) /\ x \in Await ->
                    x \in known \/ UpTo(c, "awaits", x) \/ DownTo(c, "childEnded", x)

(* What the daemon holds for a cast, a slot, a wait for one, a prompt, is  *)
(* the cast's still, or the word that ends it is under way: nothing is     *)
(* kept from the others by a cast that is done with it.                    *)
NothingLeaked ==
    \A x \in known \cup held \cup Pool!Requests(waiting) :
        LET c == Of[x]
        IN  \/ at[x] \in {"waiting", "running"}
            \/ \E k \in handling[c] :
                \/ k # conn[c]
                \/ \E frame \in Range(up[c][k]) :
                    \/ frame.kind \in {"hello", "goodbye"}
                    \/ frame.about = x /\ frame.kind \notin {"asked", "slot", "awaits"}

(* What a cast is told of an enqueue is so: accepted is queued, once, by a *)
(* daemon that may have ended since; refused is not.  Whatever happened to *)
(* the connection, nothing is queued twice.                                *)
QueuedAsTold ==
    \A e \in Enqueue : /\ queued[e] <= 1
                       /\ at[e] = "queued" => queued[e] = 1
                       /\ at[e] = "refused" => queued[e] = 0
=============================================================================
