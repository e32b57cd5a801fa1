------------------------------- MODULE Views -------------------------------
(***************************************************************************)
(* The views a hub keeps of its casts and what each message does to them   *)
(* (src/vekna/mills/hub.py).  The daemon holds a Hub, and every window     *)
(* holds one of its own that it applies what the daemon sends to: both are *)
(* these operators.                                                        *)
(*                                                                         *)
(* A message is its kind and what the kind is about: a prompt, a rite, an  *)
(* await, a claim id, a status.  Output is a number of lines, its tail     *)
(* capped as the deque is.                                                 *)
(***************************************************************************)
EXTENDS Integers, Sequences, SequencesExt, FiniteSets

CONSTANTS
    Cast, Prompt, Rite, Await,  \* ids, each one cast's own
    Of,                         \* [Prompt \cup Rite \cup Await -> Cast]
    Window,
    Nobody,                     \* no claim, no holder
    DeltaLines                  \* the tail of a rite's output that is kept

ASSUME ViewsAssumption ==
    /\ \A S \in {Cast, Prompt, Rite, Await} : IsFiniteSet(S)
    /\ Of \in [Prompt \cup Rite \cup Await -> Cast]
    /\ Prompt \cap (Rite \cup Await) = {}
    /\ DeltaLines \in Nat \ {0}
    /\ Nobody \notin Window \cup Prompt \cup [lines : 0..DeltaLines, finished : BOOLEAN]

Ended == {"ok", "error", "disconnected"}
Status == Ended \cup {"queued", "running"}

RiteView == [lines : 0..DeltaLines, finished : BOOLEAN] \cup {Nobody}
PromptView == [prompt : Prompt, claim : Window \cup {Nobody}]

NoView == [status |-> "none"]

(* A view as a hello opens it.                                             *)
Fresh == [status |-> "running", rites |-> [r \in Rite |-> Nobody],
          waiting |-> <<>>, onChildren |-> {}, blocked |-> FALSE]

Message(kind, c, what, with) ==
    [kind |-> kind, cast |-> c, what |-> what, with |-> with]
Plain(kind, c) == Message(kind, c, Nobody, Nobody)
Hello(c, status) == Message("hello", c, Nobody, status)
Goodbye(c, status) == Message("goodbye", c, Nobody, status)
Claimed(p, w) == Message("claimed", Of[p], p, w)

-----------------------------------------------------------------------------

Prompts(view) == {view.waiting[i].prompt : i \in DOMAIN view.waiting}

ClaimOn(view, p) ==
    (CHOOSE asked \in Range(view.waiting) : asked.prompt = p).claim

(* Why a message would be refused: it speaks of what the view does not     *)
(* hold.                                                                   *)
Refused(view, m) ==
    CASE m.kind \in {"delta", "finished"} -> view.rites[m.what] = Nobody
      [] m.kind \in {"resolved", "withdrawn", "claimed"} -> m.what \notin Prompts(view)
      [] m.kind \in {"awaitEnded", "awaitWithdrawn"} -> m.what \notin view.onChildren
      [] m.kind = "freed" -> ~view.blocked
      [] OTHER -> FALSE

(* A prompt asked again keeps its place, as a key of a dict does, and      *)
(* loses its claim.                                                        *)
WithPrompt(waiting, p) ==
    IF \E i \in DOMAIN waiting : waiting[i].prompt = p
    THEN [i \in DOMAIN waiting |-> IF waiting[i].prompt = p
                                   THEN [prompt |-> p, claim |-> Nobody]
                                   ELSE waiting[i]]
    ELSE Append(waiting, [prompt |-> p, claim |-> Nobody])

(* One that is settled is popped.                                          *)
Without(waiting, p) ==
    RemoveAt(waiting, CHOOSE i \in DOMAIN waiting : waiting[i].prompt = p)

WithClaim(waiting, p, claim) ==
    [i \in DOMAIN waiting |->
        IF waiting[i].prompt = p THEN [waiting[i] EXCEPT !.claim = claim] ELSE waiting[i]]

Kept(lines) == IF lines < DeltaLines THEN lines ELSE DeltaLines

(* The view once a message is not refused.                                 *)
Updated(view, m) ==
    CASE m.kind = "begin" ->
            [view EXCEPT !.rites = [r \in Rite |-> Nobody], !.waiting = <<>>, !.onChildren = {}]
      [] m.kind = "queued" -> [view EXCEPT !.status = "queued"]
      [] m.kind = "started" ->
            [view EXCEPT !.rites[m.what] = [lines |-> 0, finished |-> FALSE]]
      [] m.kind = "delta" -> [view EXCEPT !.rites[m.what].lines = Kept(@ + m.with)]
      [] m.kind = "finished" -> [view EXCEPT !.rites[m.what].finished = TRUE]
      [] m.kind = "asked" -> [view EXCEPT !.waiting = WithPrompt(@, m.what)]
      [] m.kind \in {"resolved", "withdrawn"} ->
            [view EXCEPT !.waiting = Without(@, m.what)]
      [] m.kind = "claimed" -> [view EXCEPT !.waiting = WithClaim(@, m.what, m.with)]
      [] m.kind = "awaits" -> [view EXCEPT !.onChildren = @ \cup {m.what}]
      [] m.kind \in {"awaitEnded", "awaitWithdrawn"} ->
            [view EXCEPT !.onChildren = @ \ {m.what}]
      [] m.kind = "goodbye" ->
            [view EXCEPT !.status = m.with, !.waiting = <<>>, !.onChildren = {}]
      [] m.kind = "blocked" -> [view EXCEPT !.blocked = TRUE]
      [] m.kind = "freed" -> [view EXCEPT !.blocked = FALSE]
      [] OTHER -> view
=============================================================================
