------------------------------ MODULE Journal ------------------------------
(***************************************************************************)
(* What the daemon keeps on disk of one cast (src/vekna/links/journal.py): *)
(* a record, written beside itself and moved into place, and a log that is *)
(* only appended to.  Any write may fail; a daemon that ends forgets which *)
(* casts have a gap.                                                       *)
(*                                                                         *)
(* The log is the set of the rite frames in it: a frame said again on a    *)
(* reattach is the frame it was, and a resume reads it by its rite.        *)
(***************************************************************************)
EXTENDS Integers, Sequences, SequencesExt, FiniteSets

CONSTANTS
    NoRecord,   \* no directory, or one whose record was never written
    MaxFails    \* bound: writes the disk refuses

ASSUME JournalAssumption == MaxFails \in Nat

VARIABLES
    record,     \* `run.json`: how the cast stands, and whether it admits a gap
    log,        \* `events.jsonl`
    gapped,     \* `_gapped` has it: the log lost an event
    unmarked,   \* `_unmarked` has it: the record does not admit it yet
    fails

journal == <<record, log, gapped, unmarked, fails>>

JournalInit ==
    record = NoRecord /\ log = {} /\ gapped = FALSE /\ unmarked = FALSE /\ fails = 0

(* The disk refuses so many writes, or none.                               *)
Refuses(n) == fails + n <= MaxFails /\ fails' = fails + n

-----------------------------------------------------------------------------

(* `_mark`, over the record as it stands: there may be none to mark.       *)
Marked(now) == IF now = NoRecord THEN now ELSE [now EXCEPT !.gapped = TRUE]

(* Mutant: what comes after an event that was lost is logged.              *)
AppendsOn(now, frames, lost) ==
    /\ UNCHANGED <<gapped, unmarked>> /\ record' = now
    /\ \/ Refuses(lost) /\ log' = log \cup Range(frames)
       \/ /\ Refuses(lost + 1)
          /\ \E n \in 0..Len(frames) - 1 : log' = log \cup Range(SubSeq(frames, 1, n))

(* `_append_unless_gapped`, of frames one after the other, the record      *)
(* being `now` and `lost` writes refused already: from the first frame the *)
(* disk refuses the tail is forfeit, and the record admits it, now or at a *)
(* later frame.                                                            *)
Appends(now, frames, lost) ==
    \/ /\ ~gapped /\ Refuses(lost)
       /\ log' = log \cup Range(frames)
       /\ record' = now /\ UNCHANGED <<gapped, unmarked>>
    \/ /\ ~gapped /\ gapped' = TRUE
       /\ \E n \in 0..Len(frames) - 1 : log' = log \cup Range(SubSeq(frames, 1, n))
       /\ \/ Refuses(lost + 1) /\ unmarked' = FALSE /\ record' = Marked(now)
          \/ Refuses(lost + 2) /\ unmarked' = TRUE /\ record' = now
    \/ /\ gapped /\ unmarked /\ UNCHANGED <<log, gapped>>
       /\ \/ Refuses(lost) /\ unmarked' = FALSE /\ record' = Marked(now)
          \/ Refuses(lost + 1) /\ unmarked' = TRUE /\ record' = now
    \/ /\ gapped /\ ~unmarked /\ Refuses(lost)
       /\ record' = now /\ UNCHANGED <<log, gapped, unmarked>>

(* A hello, and all that is said again after it: the record first, and not *)
(* the hello itself where the record cannot be written.                    *)
RecordsHello(hello, frames) ==
    \/ Appends([status |-> "running", gapped |-> FALSE], <<hello>> \o frames, 0)
    \/ IF frames = <<>> THEN Refuses(1) /\ UNCHANGED <<record, log, gapped, unmarked>>
       ELSE Appends(record, frames, 1)

RecordsRite(frame) == Appends(record, <<frame>>, 0)

(* A goodbye closes the record whether or not the log took it; the frame   *)
(* itself is of no rite, and is left out of the log.                       *)
RecordsGoodbye(status) ==
    IF record = NoRecord THEN UNCHANGED journal
    ELSE \/ Refuses(0) /\ record' = [record EXCEPT !.status = status]
            /\ UNCHANGED <<log, gapped, unmarked>>
         \/ Refuses(1) /\ UNCHANGED <<record, log, gapped, unmarked>>

(* A daemon starts with nothing remembered of gaps, and prunes what is     *)
(* neither queued nor running.                                             *)
Restarted ==
    /\ gapped' = FALSE /\ unmarked' = FALSE /\ UNCHANGED fails
    /\ \/ UNCHANGED <<record, log>>
       \/ /\ record # NoRecord /\ record.status \notin {"queued", "running"}
          /\ record' = NoRecord /\ log' = {}
=============================================================================
