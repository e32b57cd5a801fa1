----------------------------- MODULE CodingPool -----------------------------
(***************************************************************************)
(* The account's coding slots (CodingPool, src/vekna/mills/circle.py): how *)
(* many agent sessions run at once across every cast attached to the       *)
(* daemon, granted in the order asked.                                     *)
(*                                                                         *)
(* The daemon's list of waiting requests is modelled as the set of its     *)
(* entries, each with the arrival number it was appended under: the list   *)
(* is only ever appended to and filtered, so its order is the order of the *)
(* arrivals.  A request asked twice is two entries, as it is in the list.  *)
(***************************************************************************)
EXTENDS Integers, FiniteSets

CONSTANTS
    Cast,       \* the casts
    Request,    \* the request ids, each one cast's own
    Owner,      \* [Request -> Cast]
    Limit,      \* the values `[circle] coding` may be edited to
    NoLimit,    \* the key is absent: no limit at all
    MaxAsks     \* bound: how many requests are ever received

ASSUME PoolAssumption ==
    /\ IsFiniteSet(Request)
    /\ Owner \in [Request -> Cast]
    /\ Limit \subseteq (Nat \ {0}) \cup {NoLimit}
    /\ Limit # {}
    /\ NoLimit \notin Nat
    /\ MaxAsks \in Nat

VARIABLES
    held,       \* the requests holding a slot; `_held` also keeps their owner
    waiting,    \* the entries of `_waiting`
    limit,      \* what the config says now: it is read again at every grant
    asks        \* requests received so far, the next arrival number

vars == <<held, waiting, limit, asks>>

Entry == [request : Request, arrival : Nat]

TypeOK ==
    /\ held \subseteq Request
    /\ waiting \subseteq Entry
    /\ limit \in Limit
    /\ asks \in Nat

-----------------------------------------------------------------------------

Requests(entries) == {w.request : w \in entries}

Ahead(entries, w) == {v \in entries : v.arrival < w.arrival}

(* Mutant: one session too many.                                           *)
RoomForOneMore(taken) == limit = NoLimit \/ Cardinality(taken) <= limit

Room(taken) == limit = NoLimit \/ Cardinality(taken) < limit

(* The loop of `_grant` walks the list in order and stops at the first     *)
(* entry that finds the slots all held, so an entry is granted exactly     *)
(* when there is room left once everything ahead of it has been granted.   *)
Granted(slots, entries) ==
    {w \in entries : Room(slots \cup Requests(Ahead(entries, w)))}

(* Mutant: the slots granted are kept by entry, not by request.            *)
GrantEntries(slots, entries) ==
    /\ held' = slots \cup Granted(slots, entries)
    /\ waiting' = entries \ Granted(slots, entries)

Grant(slots, entries) ==
    /\ held' = slots \cup Requests(Granted(slots, entries))
    /\ waiting' = entries \ Granted(slots, entries)

(* Mutant: a slot that is free when the request comes is its at once, past *)
(* the entries of the list.                                                *)
RequestedAtOnce(r) ==
    /\ asks < MaxAsks
    /\ asks' = asks + 1
    /\ IF Room(held)
       THEN Grant(held \cup {r}, waiting)
       ELSE Grant(held, waiting \cup {[request |-> r, arrival |-> asks]})
    /\ UNCHANGED limit

(* CodingSlotRequested. *)
Requested(r) ==
    /\ asks < MaxAsks
    /\ asks' = asks + 1
    /\ Grant(held, waiting \cup {[request |-> r, arrival |-> asks]})
    /\ UNCHANGED limit

(* Mutant: a slot given back is granted to nobody.                         *)
ReleasedOnly(r) ==
    /\ held' = held \ {r}
    /\ waiting' = {w \in waiting : w.request # r}
    /\ UNCHANGED <<limit, asks>>

(* CodingSlotReleased: of a slot held, or of a wait the cast gave up on. *)
Released(r) ==
    /\ Grant(held \ {r}, {w \in waiting : w.request # r})
    /\ UNCHANGED <<limit, asks>>

(* A cast's goodbye, its own or the one its lost connection earns it. *)
Ended(c) ==
    /\ Grant({r \in held : Owner[r] # c},
             {w \in waiting : Owner[w.request] # c})
    /\ UNCHANGED <<limit, asks>>

(* The user edits the config.  Nobody is told: the next grant reads it. *)
Edited(l) ==
    /\ l # limit
    /\ limit' = l
    /\ UNCHANGED <<held, waiting, asks>>

-----------------------------------------------------------------------------

Init ==
    /\ held = {}
    /\ waiting = {}
    /\ limit \in Limit
    /\ asks = 0

Next ==
    \/ \E r \in Request : Requested(r)
    \/ \E r \in Request : Released(r)
    \/ \E c \in Cast : Ended(c)
    \/ \E l \in Limit : Edited(l)

Spec == Init /\ [][Next]_vars

-----------------------------------------------------------------------------

(* No two entries of the list arrived together, and none from the future:  *)
(* what makes the arrivals an order.                                       *)
ArrivalsDistinct ==
    /\ \A v, w \in waiting : v.arrival = w.arrival => v = w
    /\ \A w \in waiting : w.arrival < asks

(* A step that hands out a slot leaves no more sessions than the limit it  *)
(* read: however many requests one release or one goodbye unblocks, and    *)
(* after an edit that lowered the limit below what is already running.     *)
GrantsWithinLimit ==
    [][held' \subseteq held \/ limit' = NoLimit
         \/ Cardinality(held') <= limit']_vars

(* Granted in the order asked: while anything is left waiting, whatever    *)
(* gets a slot had an entry in the list, and one from before all that are  *)
(* left.  So nothing is granted as it arrives past a request that waits,   *)
(* not even when the limit was just raised and a slot is free.             *)
NoOvertaking ==
    [][\A r \in held' \ held, v \in waiting' :
         \E w \in waiting \ waiting' :
            w.request = r /\ w.arrival < v.arrival]_vars

(* Every event the pool hears of leaves a request waiting only while every *)
(* slot is taken; only the limit edited upward can leave one idle, until   *)
(* the next event.                                                         *)
NoIdleSlot ==
    [][limit' = limit => waiting' = {} \/ ~Room(held')]_vars
=============================================================================
