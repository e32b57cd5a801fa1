------------------------------- MODULE Screen -------------------------------
(***************************************************************************)
(* What a cast typed by hand writes on its terminal: its own rites as they *)
(* go, and those of the casts it follows, each under its name              *)
(* (src/vekna/lexicon/_links/standalone.py, follow.py).  A cast has a      *)
(* renderer of its own; all of them write to one Tail, which lets a rite   *)
(* that ended take back the line that opened it.                           *)
(*                                                                         *)
(* The rites of the cast itself reach its renderer as they happen.  Those  *)
(* of a followed cast come over its connection to the daemon, in order: a  *)
(* connection that is lost loses the rest, and the next one says           *)
(* everything again.                                                       *)
(***************************************************************************)
EXTENDS Integers, Sequences, SequencesExt, FiniteSets

CONSTANTS
    Own,            \* the cast at the terminal
    Followed,       \* casts it follows
    Rite,
    Of,             \* [Rite -> Followed \cup {Own}]
    Under,          \* [Rite -> the rite it is called in, or None]
    None,
    Output,         \* bound: [Rite -> how many lines it says at most]
    Plays,          \* bound: the sets of rites and prompts that are run together
    MaxLosses       \* bound: connections lost

ASSUME ScreenAssumption ==
    /\ Own \notin Followed /\ None \notin Rite
    /\ Of \in [Rite -> Followed \cup {Own}]
    /\ Under \in [Rite -> Rite \cup {None}]
    /\ \A r \in Rite : Under[r] # None => Of[Under[r]] = Of[r]
    /\ \A S \in SUBSET Rite : None # S /\ (S # {} => \E r \in S : Under[r] \notin S)
    /\ Output \in [Rite -> Nat] /\ MaxLosses \in Nat

VARIABLES
    tty,        \* the output is a terminal
    plays,      \* the rites and prompts there are
    did,        \* [Rite -> what it has done, of its opening, its lines and its ending]
    grimoire,   \* [followed cast -> what its rites did, in order]
    link,       \* [followed cast -> "up" or "lost"]
    at,         \* how much of its grimoire came over this connection
    backlog,    \* how much of it this connection began with; None once it came
    started, finished, replayed,    \* of `_Followed`
    known,      \* rites its renderer has: `_rites`
    open,       \* those not ended: `_open`
    sink,       \* [Rite -> the rite whose buffer takes its lines, or None]
    buffer,     \* [Rite -> lines kept until it ends]
    printed,    \* [Rite -> its lines on the terminal, in order]
    tail,       \* the last line written, and whether it began its row
    losses

rendered == <<known, open, sink, buffer, printed, tail>>
wire == <<link, at, backlog, started, finished, replayed, losses>>
screenVars == <<tty, plays, did, grimoire, wire, rendered>>

-----------------------------------------------------------------------------
(* The Tail and the renderers, as functions of what they hold.             *)

Rendered ==
    [known |-> known, open |-> open, sink |-> sink, buffer |-> buffer,
     printed |-> printed, tail |-> tail]

Becomes(new) ==
    /\ known' = new.known /\ open' = new.open /\ sink' = new.sink
    /\ buffer' = new.buffer /\ printed' = new.printed /\ tail' = new.tail

(* A line of a rite: what opened it, what it said, by number, or what it   *)
(* ended with.                                                             *)
Opening == 0
Ending == -1
LineOf(r, what) == [rite |-> r, what |-> what]

(* What is written beside them, and may leave its row open.                *)
Note == LineOf(None, Opening)
Partial == LineOf(None, Ending)

(* What is said of a rite in some lines.                                   *)
Whats(lines, r) ==
    LET of[n \in 0..Len(lines)] ==
            IF n = 0 THEN <<>>
            ELSE IF lines[n].rite = r THEN Append(of[n - 1], lines[n].what) ELSE of[n - 1]
    IN  of[Len(lines)]

Prints(out, line) ==
    LET said == IF line.rite = None THEN out.printed
                ELSE [out.printed EXCEPT ![line.rite] = Append(@, line.what)]
    IN  [out EXCEPT !.tail = [last |-> line, began |-> out.tail.last # Partial], !.printed = said]

(* One after the other; none of them leaves its row open.                  *)
PrintsAll(out, lines) ==
    IF lines = <<>> THEN out
    ELSE [out EXCEPT
            !.tail = [last |-> Last(lines), began |-> Len(lines) > 1 \/ out.tail.last # Partial],
            !.printed = [r \in Rite |-> @[r] \o Whats(lines, r)]]

Emits(out, into, line) ==
    IF into = None THEN Prints(out, line)
    ELSE [out EXCEPT !.buffer[into] = Append(@, line)]

Siblings(out, r) == {s \in out.open \ {r} : Of[s] = Of[r] /\ Under[s] = Under[r]}

(* A rite under one that keeps its lines is kept with it; else those in    *)
(* `keep` keep theirs from now on.                                         *)
Opens(out, r, keep) ==
    LET new == [out EXCEPT !.known = @ \cup {r}, !.open = @ \cup {r}]
        line == LineOf(r, Opening)
        parent == IF Under[r] \in out.known THEN out.sink[Under[r]] ELSE None
    IN  IF parent # None THEN Emits([new EXCEPT !.sink[r] = parent], parent, line)
        ELSE Prints([new EXCEPT !.sink = [s \in Rite |-> IF s \in keep THEN s ELSE @[s]]], line)

(* Mutant: two at once both go to the terminal.                            *)
BeganBeside(out, r) == Opens(out, r, {})

(* Two at once are each kept until they end, the first from now on.        *)
Began(out, r) ==
    Opens(out, r, IF Siblings(out, r) = {} THEN {} ELSE Siblings(out, r) \cup {r})

Streamed(out, r, n) ==
    Emits(out, IF r \in out.known THEN out.sink[r] ELSE None, LineOf(r, n))

Shown(out, r) == Opening \in Range(out.printed[r])

(* The opening line gives way to the ending, on the terminal or in the     *)
(* buffer it went to, if nothing came after it and it began its row.       *)
GivesWay(out, r) ==
    LET line == LineOf(r, Opening)
        into == out.sink[r]
    IN  /\ tty
        /\ IF Shown(out, r) THEN out.tail.last = line /\ out.tail.began
           ELSE into # None /\ out.buffer[into] # <<>> /\ Last(out.buffer[into]) = line

TakesBack(out, r) ==
    IF Shown(out, r)
    THEN LET less == [out.printed EXCEPT ![out.tail.last.rite] = Front(@)]
             said == [less EXCEPT ![r] = Append(@, Ending)]
         IN  [out EXCEPT !.tail.last = LineOf(r, Ending), !.printed = said]
    ELSE [out EXCEPT !.buffer[out.sink[r]] = Append(Front(@), LineOf(r, Ending))]

Ended(out, r) ==
    LET closed == [out EXCEPT !.open = @ \ {r}]
        told == IF out.sink[r] = r
                THEN PrintsAll([closed EXCEPT !.buffer[r] = <<>>, !.sink[r] = None], out.buffer[r])
                ELSE closed
    IN  IF r \notin out.known THEN Prints(closed, LineOf(r, Ending))
        ELSE IF GivesWay(told, r) THEN TakesBack(told, r)
        ELSE Emits(told, told.sink[r], LineOf(r, Ending))

Renders(event) ==
    Becomes(CASE event.what = Opening -> Began(Rendered, event.rite)
              [] event.what = Ending -> Ended(Rendered, event.rite)
              [] OTHER -> Streamed(Rendered, event.rite, event.what))

-----------------------------------------------------------------------------

Happened(r, what) == what \in did[r]
Going(r) == Happened(r, Opening) /\ ~Happened(r, Ending)

ScreenInit ==
    /\ tty \in BOOLEAN /\ plays \in Plays
    /\ did = [r \in Rite |-> {}] /\ grimoire = [c \in Followed |-> <<>>]
    /\ link = [c \in Followed |-> "lost"]
    /\ at = [c \in Followed |-> 0] /\ backlog = [c \in Followed |-> None]
    /\ started = {} /\ finished = {} /\ replayed = [c \in Followed |-> None]
    /\ known = {} /\ open = {}
    /\ sink = [r \in Rite |-> None] /\ buffer = [r \in Rite |-> <<>>]
    /\ printed = [r \in Rite |-> <<>>]
    /\ tail = [last |-> Note, began |-> TRUE]
    /\ losses = 0

(* Mutant: output said again is shown again.                               *)
NewsAgain(c, event) ==
    CASE event.what = Opening -> event.rite \notin started
      [] event.what = Ending -> event.rite \notin finished
      [] OTHER -> TRUE

(* A rite is not begun twice, nor ended twice; output of a rite already    *)
(* shown that is replayed is taken for old.                                *)
News(c, event) ==
    CASE event.what = Opening -> event.rite \notin started
      [] event.what = Ending -> event.rite \notin finished
      [] OTHER -> replayed[c] = None \/ event.rite \notin replayed[c]

Hear(c, event) ==
    /\ at' = [at EXCEPT ![c] = @ + 1]
    /\ started' = IF event.what = Opening THEN started \cup {event.rite} ELSE started
    /\ finished' = IF event.what = Ending THEN finished \cup {event.rite} ELSE finished
    /\ IF News(c, event) THEN Renders(event) ELSE UNCHANGED rendered

(* The cast itself is rendered as it goes.  One that is followed is heard  *)
(* as it goes while its connection is up and nothing waits to be heard     *)
(* before: what would wait is, to whoever hears it, done later.            *)
Does(r, what) ==
    LET c == Of[r]
        event == LineOf(r, what)
    IN
    /\ did' = [did EXCEPT ![r] = @ \cup {what}]
    /\ IF c = Own THEN Renders(event) /\ UNCHANGED <<grimoire, at, started, finished>>
       ELSE /\ grimoire' = [grimoire EXCEPT ![c] = Append(@, event)]
            /\ IF link[c] = "up"
               THEN backlog[c] = None /\ at[c] = Len(grimoire[c]) /\ Hear(c, event)
               ELSE UNCHANGED <<at, started, finished, rendered>>
    /\ UNCHANGED <<tty, plays, link, backlog, replayed, losses>>

(* A rite begins under one that goes on, and ends when none goes on under  *)
(* it.                                                                     *)
Begins(r) ==
    /\ r \in plays /\ ~Happened(r, Opening)
    /\ Under[r] # None => Going(Under[r])
    /\ Does(r, Opening)

Says(r, n) ==
    /\ Going(r) /\ ~Happened(r, n) /\ (n > 1 => Happened(r, n - 1))
    /\ Does(r, n)

Ends(r) ==
    /\ Going(r) /\ \A s \in Rite : Under[s] = r => ~Going(s)
    /\ Does(r, Ending)

-----------------------------------------------------------------------------
(* What comes of the casts followed.                                       *)

(* A hello, and `GrimoireBegin`: the rites shown so far are old, and what  *)
(* has been recorded is said again.                                        *)
Attaches(c) ==
    /\ link[c] = "lost" /\ link' = [link EXCEPT ![c] = "up"]
    /\ at' = [at EXCEPT ![c] = 0]
    /\ backlog' = [backlog EXCEPT ![c] = Len(grimoire[c])]
    /\ replayed' = [replayed EXCEPT ![c] = {r \in started : Of[r] = c}]
    /\ UNCHANGED <<tty, plays, did, grimoire, started, finished, losses, rendered>>

(* `GrimoireEnd`.                                                          *)
Replayed(c) ==
    /\ link[c] = "up" /\ backlog[c] = at[c]
    /\ backlog' = [backlog EXCEPT ![c] = None]
    /\ replayed' = [replayed EXCEPT ![c] = None]
    /\ UNCHANGED <<tty, plays, did, grimoire, link, at, started, finished, losses, rendered>>

Hears(c) ==
    /\ link[c] = "up" /\ backlog[c] # None /\ at[c] < backlog[c]
    /\ Hear(c, grimoire[c][at[c] + 1])
    /\ UNCHANGED <<tty, plays, did, grimoire, link, backlog, replayed, losses>>

(* The cast's connection to the daemon goes.                               *)
Loses(c) ==
    /\ link[c] = "up" /\ losses < MaxLosses
    /\ losses' = losses + 1
    /\ link' = [link EXCEPT ![c] = "lost"]
    /\ UNCHANGED <<tty, plays, did, grimoire, at, backlog, started, finished, replayed, rendered>>

ScreenNext ==
    \/ \E r \in Rite : Begins(r) \/ (\E n \in 1..Output[r] : Says(r, n)) \/ Ends(r)
    \/ \E c \in Followed : Attaches(c) \/ Replayed(c) \/ Hears(c) \/ Loses(c)

-----------------------------------------------------------------------------

ScreenTypeOK ==
    /\ tty \in BOOLEAN
    /\ \A c \in Followed :
           at[c] <= Len(grimoire[c]) /\ (replayed[c] # None => replayed[c] \subseteq started)
    /\ open \subseteq known /\ finished \subseteq started
    /\ \A r \in open : sink[r] # None => sink[r] \in open
    /\ \A r \in Rite : buffer[r] # <<>> => r \in open /\ sink[r] = r

(* A rite's lines, on the terminal and then in the buffer they go to.      *)
LinesOf(r) ==
    printed[r] \o (IF sink[r] = None THEN <<>> ELSE Whats(buffer[sink[r]], r))

(* Nothing is on the terminal twice, whatever is said again by however     *)
(* many connections, kept in a buffer or taken back: each line of a rite   *)
(* is shown once at most, in the order it was said, and those of the cast  *)
(* itself are all shown or in the buffer of a rite that goes on, but for   *)
(* an opening line its ending took the place of.                           *)
ShownOnce ==
    \A r \in Rite :
        LET got == LinesOf(r) IN
        /\ Range(got) \subseteq did[r]
        /\ \A i, j \in DOMAIN got : i < j => got[i] # Ending /\ (got[j] = Ending \/ got[i] < got[j])
        /\ Of[r] = Own =>
               did[r] \ Range(got) \subseteq (IF Ending \in Range(got) THEN {Opening} ELSE {})

(* The rites that a rite is called in, one in the other.                   *)
Above ==
    [r \in Rite |->
        {s \in Rite : \A S \in SUBSET Rite :
            {Under[r]} \cup {Under[t] : t \in S} \subseteq S \cup {None} => s \in S}]

(* Whose rite a line is of can be told: of one cast, the rites whose lines *)
(* go to the terminal as they come are each called in the one before.      *)
OneTalks ==
    \A r, s \in open :
        (r # s /\ Of[r] = Of[s] /\ sink[r] = None /\ sink[s] = None)
        => r \in Above[s] \/ s \in Above[r]
=============================================================================
