------------------------------ MODULE Terminal ------------------------------
(***************************************************************************)
(* The questions asked at a terminal: those of the cast typed there        *)
(* (TeeChannel and _Awaited, src/vekna/lexicon/_links/daemon.py) and those *)
(* of the casts it follows (Follower, _links/follow.py).  One renderer     *)
(* asks them all, one at a time, off one stdin (standalone.py), until a    *)
(* window claims the prompt or somebody answers it.                        *)
(*                                                                         *)
(* A task per asking stands in line for the renderer's lock.  A line is    *)
(* read by a thread that cannot be stopped: a question withdrawn leaves    *)
(* its reading to the next, as long as the loop has not heard of its line. *)
(* It hears of one some turns after the thread has read it.                *)
(***************************************************************************)
EXTENDS Screen

CONSTANTS
    OwnPrompt, FollowedPrompt,
    Free,           \* the prompts any answer will do for
    MaxAsks,        \* bound: askings
    MaxActs         \* bound: claims, releases, answers elsewhere, prompts said again

ASSUME TerminalAssumption ==
    /\ OwnPrompt \cap FollowedPrompt = {}
    /\ Free \subseteq OwnPrompt \cup FollowedPrompt
    /\ Plays \subseteq SUBSET (Rite \cup OwnPrompt \cup FollowedPrompt)
    /\ MaxAsks \in Nat /\ MaxActs \in Nat

Prompt == OwnPrompt \cup FollowedPrompt
Attempts == 3       \* `_MAX_PROMPT_ATTEMPTS`

VARIABLES
    stage,      \* [Prompt -> "unasked", "open", "settled" or "over"]
    claimed,    \* prompts claimed, as this cast was told
    asking,     \* [Prompt -> the asking of it that is known of, or 0]
    line,       \* the tasks in line for the lock, the first with it or next to
    reading,    \* the loop's future: "none", "pending", or what was read
    typed,      \* what the thread has read and the loop not heard of, or "none"
    readAt,     \* the asking that was on the screen as the line was read
    toldAt,     \* and as the loop heard of it
    spent,      \* followed prompts answered here, or given up
    asks, acts

questions == <<stage, claimed, asking, spent>>
heard == <<reading, typed, readAt, toldAt>>
termVars == <<questions, line, heard, asks, acts>>
vars == <<screenVars, termVars>>

TerminalInit ==
    /\ stage = [p \in Prompt |-> "unasked"] /\ claimed = {}
    /\ asking = [p \in Prompt |-> 0]
    /\ line = <<>>
    /\ reading = "none" /\ typed = "none" /\ readAt = 0 /\ toldAt = 0
    /\ spent = {}
    /\ asks = 0 /\ acts = 0

Init == ScreenInit /\ TerminalInit

-----------------------------------------------------------------------------
(* Askings begun and stopped.                                              *)

Off == UNCHANGED screenVars
Written(text) ==
    /\ Becomes(Prints(Rendered, text))
    /\ UNCHANGED <<tty, plays, did, grimoire, wire>>

Live(p) == {i \in DOMAIN line : line[i].prompt = p /\ ~line[i].cut}

Starts(p, held) ==
    IF p \in held \/ asking[p] # 0 THEN UNCHANGED <<line, asking, spent, asks>>
    ELSE /\ asks < MaxAsks /\ asks' = asks + 1
         /\ asking' = [asking EXCEPT ![p] = asks']
         /\ line' = Append(line, [n |-> asks', prompt |-> p, on |-> FALSE,
                                 tries |-> 0, cut |-> FALSE])
         /\ spent' = spent \ {p}

Cut(n) == [i \in DOMAIN line |-> [line[i] EXCEPT !.cut = @ \/ line[i].n = n]]

(* Mutant: the asking that was stopped is still the one known of.          *)
StopsOnly(p) == line' = Cut(asking[p]) /\ UNCHANGED <<asking, spent, asks>>

Stops(p) ==
    /\ line' = Cut(asking[p])
    /\ asking' = [asking EXCEPT ![p] = 0]
    /\ UNCHANGED <<spent, asks>>

Acts == acts < MaxActs /\ acts' = acts + 1 /\ UNCHANGED heard

(* `TeeChannel.decide`, or a `DecideRequested`: the first, or one said     *)
(* again as its cast reattaches.                                           *)
Decides(p) ==
    /\ p \in plays /\ stage[p] = "unasked"
    /\ stage' = [stage EXCEPT ![p] = "open"]
    /\ Starts(p, claimed)
    /\ UNCHANGED <<claimed, heard, acts>> /\ Off

SaidAgain(p) ==
    /\ p \in FollowedPrompt /\ stage[p] = "open"
    /\ Acts /\ Off
    /\ Starts(p, claimed)
    /\ UNCHANGED <<stage, claimed>>

(* A claim is told to the cast while its prompt waits, and to the follower *)
(* of any prompt open, which says so on the screen; the cast says it to    *)
(* stderr.                                                                 *)
HearsClaim(p) ==
    /\ stage[p] \in {"open", "settled"}
    /\ Acts
    /\ IF p \in FollowedPrompt THEN Written(Note) ELSE Off
    /\ claimed' = claimed \cup {p}
    /\ IF p \in OwnPrompt \cap claimed THEN UNCHANGED <<line, asking, spent, asks>> ELSE Stops(p)
    /\ UNCHANGED stage

HearsRelease(p) ==
    /\ stage[p] \in {"open", "settled"} /\ p \in claimed
    /\ Acts /\ Off
    /\ claimed' = claimed \ {p}
    /\ Starts(p, claimed')
    /\ UNCHANGED stage

(* Answered over the wire, or the step that asks is cut.                   *)
Settles(p) ==
    /\ p \in OwnPrompt /\ stage[p] = "open"
    /\ Acts /\ Off
    /\ stage' = [stage EXCEPT ![p] = "settled"]
    /\ UNCHANGED <<claimed, line, asking, spent, asks>>

(* The step goes on, once it has stopped its asking.                       *)
GoesOn(p) ==
    /\ p \in OwnPrompt /\ stage[p] = "settled"
    /\ stage' = [stage EXCEPT ![p] = "over"]
    /\ Stops(p)
    /\ UNCHANGED <<claimed, heard, acts>> /\ Off

(* A followed prompt that was answered, or withdrawn.                      *)
HearsEnd(p) ==
    /\ p \in FollowedPrompt /\ stage[p] = "open"
    /\ Acts /\ Off
    /\ stage' = [stage EXCEPT ![p] = "over"]
    /\ claimed' = claimed \ {p}
    /\ Stops(p)

-----------------------------------------------------------------------------
(* The line: its tasks, and what they read.                                *)

(* A task that has ended is out of the line.  The follower then forgets    *)
(* the asking it knows of that prompt, be it this one or a later.          *)
Done(i) ==
    LET p == line[i].prompt IN
    /\ line' = RemoveAt(line, i)
    /\ asking' = IF p \in FollowedPrompt THEN [asking EXCEPT ![p] = 0] ELSE asking
    /\ UNCHANGED <<asks, acts>>

(* Cancelled as it waits for the lock.                                     *)
Leaves(i) ==
    /\ line[i].cut /\ ~line[i].on
    /\ Done(i)
    /\ UNCHANGED <<stage, claimed, spent, heard>> /\ Off

Turn(i) == i = 1

(* Mutant: what an earlier question left is taken, read or not.            *)
AskedOffTheLast(i) ==
    /\ Turn(i) /\ ~line[i].on /\ ~line[i].cut
    /\ line' = [line EXCEPT ![i].on = TRUE]
    /\ reading' = IF reading = "none" THEN "pending" ELSE reading
    /\ Written(Note)
    /\ UNCHANGED <<questions, typed, readAt, toldAt, asks, acts>>

(* The question is written, and a line read for it: the reading that one   *)
(* withdrawn left, unless the loop has heard of its line, which is dropped *)
(* then.  A line the thread has read and the loop not heard of is taken    *)
(* for this question's.  A yes or no is asked in its row.                  *)
Asked(i) ==
    /\ Turn(i) /\ ~line[i].on /\ ~line[i].cut
    /\ line' = [line EXCEPT ![i].on = TRUE]
    /\ reading' = "pending"
    /\ IF line[i].prompt \in Free THEN Written(Note) ELSE Written(Note) \/ Written(Partial)
    /\ UNCHANGED <<questions, typed, readAt, toldAt, asks, acts>>

OnScreen == {line[i].n : i \in {j \in DOMAIN line : line[j].on}}

AskedNow == IF OnScreen = {} THEN 0 ELSE CHOOSE n \in OnScreen : TRUE

(* The thread reads a line, which is nobody's question's to it.            *)
Reads(what) ==
    /\ reading = "pending" /\ typed = "none"
    /\ typed' = what /\ readAt' = AskedNow
    /\ UNCHANGED <<questions, line, reading, toldAt, asks, acts>> /\ Off

(* The loop's turn to hear of it.                                          *)
Told ==
    /\ typed # "none"
    /\ reading' = typed /\ typed' = "none" /\ toldAt' = AskedNow
    /\ UNCHANGED <<questions, line, readAt, asks, acts>> /\ Off

Got(i) == line[i].on /\ ~line[i].cut /\ reading \in {"good", "bad", "end"}

(* What a prompt has a use for: one of its options, or what is typed.      *)
Picked(i) == reading = "good" \/ (reading = "bad" /\ line[i].prompt \in Free)

(* An answer, or the end of the asking without one.                        *)
Answered(i) ==
    LET p == line[i].prompt IN
    /\ Got(i)
    /\ \/ Picked(i) /\ Off
       \/ reading = "end" /\ (IF p \in OwnPrompt THEN Off ELSE Written(Note))
       \/ /\ reading # "end" /\ ~Picked(i)
          /\ line[i].tries + 1 = Attempts /\ Written(Note)
    /\ Done(i)
    /\ reading' = "none"
    /\ stage' = IF p \in OwnPrompt /\ stage[p] = "open"
                THEN [stage EXCEPT ![p] = "settled"] ELSE stage
    /\ spent' = IF p \in FollowedPrompt THEN spent \cup {p} ELSE spent
    /\ UNCHANGED <<claimed, typed, readAt, toldAt>>

(* An answer the prompt has no use for is asked for again.                 *)
AskedAgain(i) ==
    /\ Got(i) /\ reading # "end" /\ ~Picked(i)
    /\ line[i].tries + 1 < Attempts
    /\ line' = [line EXCEPT ![i].tries = @ + 1]
    /\ reading' = "pending"
    /\ Written(Note)
    /\ UNCHANGED <<questions, typed, readAt, toldAt, asks, acts>>

(* Cancelled on the screen: its reading is left to the next.               *)
Withdrawn(i) ==
    /\ line[i].on /\ line[i].cut
    /\ Done(i) /\ Written(Note)
    /\ UNCHANGED <<stage, claimed, spent, heard>>

-----------------------------------------------------------------------------

PromptNext ==
    \E p \in Prompt :
        \/ Decides(p) \/ SaidAgain(p) \/ HearsClaim(p) \/ HearsRelease(p)
        \/ Settles(p) \/ GoesOn(p) \/ HearsEnd(p)

LineNext ==
    \/ \E i \in DOMAIN line :
           Leaves(i) \/ Asked(i) \/ Answered(i) \/ AskedAgain(i) \/ Withdrawn(i)
    \/ \E what \in {"good", "bad", "end"} : Reads(what)
    \/ Told

Next == (ScreenNext /\ UNCHANGED termVars) \/ PromptNext \/ LineNext

Spec == Init /\ [][Next]_vars

-----------------------------------------------------------------------------

TypeOK ==
    /\ ScreenTypeOK
    /\ stage \in [Prompt -> {"unasked", "open", "settled", "over"}]
    /\ claimed \subseteq Prompt /\ spent \subseteq FollowedPrompt
    /\ asking \in [Prompt -> 0..asks] /\ asks \in 0..MaxAsks /\ acts \in 0..MaxActs
    /\ reading \in {"none", "pending", "good", "bad", "end"}
    /\ typed \in {"none", "good", "bad", "end"}
    /\ readAt \in 0..asks /\ toldAt \in 0..asks
    /\ IsInjective([i \in DOMAIN line |-> line[i].n])
    /\ \A i \in DOMAIN line :
           /\ line[i].n \in 1..asks /\ line[i].prompt \in Prompt
           /\ line[i].tries \in 0..(Attempts - 1)

(* One question is on the screen at a time, and a line answers the one     *)
(* that is there as the loop hears of it, never one asked later: a reading *)
(* outlives the question it was begun for, and the loop may know of its    *)
(* line by the time the next is asked.                                     *)
AnsweredAsHeard ==
    \A i \in DOMAIN line :
        /\ line[i].on => i = 1
        /\ Got(i) => toldAt = line[i].n

(* "A line it already read answered nothing that is still open, and is     *)
(* dropped" (standalone.py:218): what was typed at one question is never   *)
(* another's answer.  The code drops what the loop has heard of: a line    *)
(* read as its question is withdrawn is taken for the next one's.          *)
AnsweredAsTyped ==
    \A i \in DOMAIN line : Got(i) => readAt \in {0, line[i].n}

(* "A prompt taken over in `vekna` stops being asked here" (docs/cli.md:94 *)
(* of a followed cast's).  A claim stops the asking the follower knows of; *)
(* the end of one it stopped before makes it forget the one begun since,   *)
(* which then nothing stops.                                               *)
ClaimedNotAsked ==
    \A p \in FollowedPrompt \cap claimed : stage[p] = "open" => Live(p) = {}

(* A prompt of the cast itself is asked at its terminal, once, exactly     *)
(* while no window has claimed it, however claims, releases, an answer and *)
(* the end of a cancelled asking come together.  One of a cast it follows  *)
(* is asked, or was answered there, whenever nobody claims it.             *)
AskedUnlessClaimed ==
    \A p \in Prompt :
        /\ p \in OwnPrompt /\ stage[p] = "open" =>
               Cardinality(Live(p)) = IF p \in claimed THEN 0 ELSE 1
        /\ p \in OwnPrompt /\ stage[p] = "over" => Live(p) = {}
        /\ p \in FollowedPrompt /\ stage[p] = "open" =>
               Live(p) # {} \/ p \in claimed \cup spent
=============================================================================
