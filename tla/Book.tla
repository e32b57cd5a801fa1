-------------------------------- MODULE Book --------------------------------
(***************************************************************************)
(* A window on the daemon: the book of its casts that `vekna` draws in a   *)
(* terminal (src/vekna/gates/cli/tui.py, contents.py), or the line view it *)
(* draws anywhere else (dashboard.py, screen.py).  Either reads the views  *)
(* of the window's own hub, which Hub is about: here they change as the    *)
(* daemon's messages may have them, between any two steps of the window.   *)
(*                                                                         *)
(* A repaint, a key pressed, a line typed and a highlight handled are one  *)
(* action each.  Between two repaints the window acts on the lines it last *)
(* drew and on the views as they are.                                      *)
(***************************************************************************)
EXTENDS Integers, Sequences, SequencesExt, FiniteSets

CONSTANTS
    Cast,           \* numbers, in the order the casts were started
    Projects,       \* by name
    Rituals,        \* by name
    ProjectOf, RitualOf,
    Home,           \* the project the window was opened in
    Rite, Prompt,
    Of,             \* [Rite \cup Prompt -> Cast]
    AskedIn,        \* [Prompt -> Rite]: the rite a prompt is asked in
    ParentMaps,     \* what `parent_id` may say, [Rite -> Rite \cup {None}]
    None,
    MaxHeard,       \* bound: messages heard
    MaxActs,        \* bound: keys pressed, lines typed and moves of the cursor
    MaxLit          \* bound: highlights on their way when the window repaints

ASSUME BookAssumption ==
    /\ Cast \subseteq Nat /\ IsFiniteSet(Cast)
    /\ ProjectOf \in [Cast -> Range(Projects)] /\ RitualOf \in [Cast -> Range(Rituals)]
    /\ Of \in [Rite \cup Prompt -> Cast] /\ AskedIn \in [Prompt -> Rite]
    /\ ParentMaps \subseteq [Rite -> Rite \cup {None}]

VARIABLES
    views,          \* the window's hub: each cast's view
    known,          \* its casts, in the order they were first heard of
    conn,           \* [Cast -> "none", "up", "lost" or "over"]: its connection
    late,           \* casts the goodbye of a connection before this is to come of
    parent,         \* each rite's `parent_id`
    kind,           \* what was opened: "tui" or "lines"
    every,          \* `_scope.every`
    everything, folded, seen,   \* `_shown.reading`
    opened,         \* `_shown.opened`: the cast on the page
    cursor, lines,  \* `_drawn`: the line under the cursor, and the lines
    lit,            \* highlights of lines, posted and not handled
    dirty, arming,  \* `_view`
    dialog,         \* the prompt of `_claims.dialog`
    focus,          \* the cast the line view is drilled into
    heard, acts    \* counters of what is bounded

reading == <<everything, folded, seen>>
drawn == <<cursor, lines>>
hubVars == <<views, known, conn, late, parent, heard>>
bookVars == <<every, reading, opened, drawn, lit, dirty, arming, dialog>>
vars == <<hubVars, bookVars, kind, focus, acts>>

Fresh == [status |-> "running", rites |-> <<>>, over |-> {}, waiting |-> <<>>]
NoView == [Fresh EXCEPT !.status = "none"]

Failed(view) == view.status \in {"error", "disconnected"}
Live(view) == view.status \in {"running", "queued"}
Asks(view) == view.waiting # <<>>

-----------------------------------------------------------------------------
(* What the contents hold.                                                 *)

Scoped(vs, all) == SelectSeq(known, LAMBDA c : all \/ ProjectOf[c] = Home)

(* Whoever asks, what goes on, what is queued, then what ended.            *)
Ordered(vs, casts) ==
    LET of(P(_)) == SelectSeq(casts, LAMBDA c : P(vs[c]))
    IN  of(LAMBDA v : v.status = "running" /\ Asks(v))
        \o of(LAMBDA v : v.status = "running" /\ ~Asks(v))
        \o of(LAMBDA v : v.status = "queued")
        \o Reverse(of(LAMBDA v : ~Live(v)))

ProjectKey(p) == <<"p", p>>
RitualKey(p, r) == <<"r", p, r>>
CastKey(c) == <<"c", c>>
RiteKey(c, r) == <<"t", c, r>>
MoreKey(c) == <<"more", c>>

(* Which of a cast's three it is counted as.                               *)
CountedAs(vs, c, opn) ==
    CASE Asks(vs[c]) -> "asks"
      [] ~Asks(vs[c]) /\ Live(vs[c]) -> "running"
      [] Failed(vs[c]) /\ c \notin opn -> "fails"
      [] OTHER -> "nothing"

Count(vs, casts, opn, as) ==
    Cardinality({c \in Range(casts) : CountedAs(vs, c, opn) = as})

(* A line: what hangs under it is drawn unless it is folded.  `casts` are  *)
(* the casts under it, drawn or not.                                       *)
Line(key, what, under, casts, asks, below, fold) ==
    [key |-> key, kind |-> what, parent |-> under, casts |-> casts, asks |-> asks,
     below |-> below, folded |-> key \in fold]

Opens(line) == line.below /\ ~line.folded

(* Mutant: only the rites with no parent in the view grow a tree.          *)
GrownFromRoots(view) ==
    LET roots == SelectSeq(view.rites, LAMBDA s : parent[s] \notin Range(view.rites))
        under(r) == SelectSeq(view.rites, LAMBDA s : parent[s] = r)
        on(r, s) == [rite |-> s, on |-> r]
    IN  FlattenSeq([i \in DOMAIN roots |->
            <<on(None, roots[i])>>
            \o [j \in DOMAIN under(roots[i]) |-> on(roots[i], under(roots[i])[j])]])

(* The rites of a view as a tree, each under its parent in the order they  *)
(* began: a rite already drawn is not drawn again, which cuts a loop where *)
(* it would close.                                                         *)
Grown(view) ==
    LET all == Range(view.rites)
        under(r) == SelectSeq(view.rites, LAMBDA s : parent[s] = r)
        roots == SelectSeq(view.rites, LAMBDA s : parent[s] \notin all)
        grow[r \in all \cup {None}, on \in all \cup {None}, seenBefore \in SUBSET all] ==
            FoldLeft(
                LAMBDA got, s :
                    IF s \in got.seen THEN got
                    ELSE LET more == grow[s, r, got.seen]
                         IN  [seen |-> more.seen, tree |-> got.tree \o more.tree],
                IF r = None THEN [seen |-> {}, tree |-> <<>>]
                ELSE [seen |-> seenBefore \cup {r}, tree |-> <<[rite |-> r, on |-> on]>>],
                IF r = None THEN roots \o view.rites ELSE under(r))
    IN  grow[None, None, {}].tree

(* The one rite that says what a cast is doing: the first that asks, else  *)
(* the last to begin of those that run.                                    *)
DoingNow(view) ==
    LET asking == SelectSeq(view.waiting, LAMBDA p : AskedIn[p] \in Range(view.rites))
        running == SelectSeq(view.rites, LAMBDA r : r \notin view.over)
    IN  IF asking # <<>> THEN AskedIn[Head(asking)]
        ELSE IF running # <<>> THEN Last(running) ELSE None

RiteLine(c, r, on) == Line(RiteKey(c, r), "rite", on, <<c>>, 0, FALSE, {})

RiteLines(vs, c, rd) ==
    LET view == vs[c]
        tree == Grown(view)
        now == DoingNow(view)
        under(on) == IF on = None THEN CastKey(c) ELSE RiteKey(c, on)
        grown(i) == [RiteLine(c, tree[i].rite, under(tree[i].on)) EXCEPT
                        !.below = \E j \in DOMAIN tree : tree[j].on = tree[i].rite]
    IN  IF rd.everything THEN [i \in DOMAIN tree |-> grown(i)]
        ELSE IF now = None THEN <<>>
        ELSE (IF Len(view.rites) > 1
              THEN <<Line(MoreKey(c), "more", CastKey(c), <<c>>, 0, FALSE, {})>> ELSE <<>>)
             \o <<RiteLine(c, now, CastKey(c))>>

(* A line and, unless it is folded, what hangs under it.                   *)
Unfolded(line, under) == <<line>> \o (IF line.folded THEN <<>> ELSE under)

Happening(vs, casts, rd) == \E c \in Range(casts) : CountedAs(vs, c, rd.seen) # "nothing"

CastLines(vs, c, rd) ==
    LET rites == RiteLines(vs, c, rd)
    IN  Unfolded(Line(CastKey(c), "cast", RitualKey(ProjectOf[c], RitualOf[c]), <<c>>,
                      Count(vs, <<c>>, rd.seen, "asks"), rites # <<>>, rd.folded),
                 rites)

(* The casts of a ritual, newest first, the quiet ones among them only     *)
(* when everything is asked for.                                           *)
RitualLines(vs, casts, p, r, rd) ==
    LET mine == {c \in Range(casts) : ProjectOf[c] = p /\ RitualOf[c] = r}
        shown == SetToSortSeq({c \in mine : rd.everything \/ Happening(vs, <<c>>, rd)}, >)
        line == Line(RitualKey(p, r), "ritual", ProjectKey(p), shown,
                     Count(vs, shown, rd.seen, "asks"), shown # <<>>, rd.folded)
    IN  IF mine = {} \/ (shown = <<>> /\ ~rd.everything) THEN <<>>
        ELSE Unfolded(line, FlattenSeq([i \in DOMAIN shown |-> CastLines(vs, shown[i], rd)]))

(* A project keeps its line, quiet or not.                                 *)
ProjectLines(vs, casts, p, rd) ==
    LET mine == SelectSeq(casts, LAMBDA c : ProjectOf[c] = p)
        under == FlattenSeq([i \in DOMAIN Rituals |-> RitualLines(vs, mine, p, Rituals[i], rd)])
        heads == SelectSeq(under, LAMBDA l : l.kind = "ritual")
        line == Line(ProjectKey(p), "project", None,
                     FlattenSeq([i \in DOMAIN heads |-> heads[i].casts]),
                     Count(vs, mine, rd.seen, "asks"), under # <<>>, rd.folded)
    IN  IF mine = <<>> THEN <<>> ELSE Unfolded(line, under)

Contents(vs, all, rd) ==
    FlattenSeq([i \in DOMAIN Projects |-> ProjectLines(vs, Scoped(vs, all), Projects[i], rd)])

-----------------------------------------------------------------------------
(* What was drawn.                                                         *)

Keys(drawing) == {drawing[i].key : i \in DOMAIN drawing}
Shape(drawing) ==
    [i \in DOMAIN drawing |-> <<drawing[i].key, drawing[i].parent, Opens(drawing[i])>>]

Entry(key) ==
    LET at == {i \in DOMAIN lines : lines[i].key = key}
    IN  IF at = {} THEN None ELSE lines[CHOOSE i \in at : TRUE]

(* The cast a line belongs to: none for a project or a ritual.             *)
CastOn(entry) ==
    IF entry = None THEN None
    ELSE IF entry.kind \in {"cast", "more", "rite"} THEN Head(entry.casts) ELSE None

(* The first cast under a line that asks, in a fold or not, and its oldest *)
(* prompt.                                                                 *)
Waiting(key) ==
    LET entry == Entry(key)
        asking == IF entry = None THEN <<>>
                  ELSE SelectSeq(entry.casts, LAMBDA c : Asks(views[c]))
    IN  IF asking = <<>> THEN None ELSE Head(views[Head(asking)].waiting)

(* What is written over the book while somebody asks: the prompt of the    *)
(* cast in view, or that others wait.                                      *)
Banner ==
    LET c == CastOn(Entry(cursor)) IN
    IF c # None /\ Asks(views[c]) THEN "asks"
    ELSE IF \E other \in Range(Scoped(views, every)) : Asks(views[other]) THEN "others"
    ELSE "nothing"

(* Where the cursor goes when its line goes: up the lines it hung under,   *)
(* else to the first cast.                                                 *)
UpFrom(key, new) ==
    LET up[k \in Keys(lines) \cup {key, None}] ==
            IF k = None \/ k \in Keys(new) THEN k
            ELSE IF Entry(k) = None THEN None ELSE up[Entry(k).parent]
    IN  up[key]

Kept(key, new) ==
    LET casts == SelectSeq(new, LAMBDA l : l.kind = "cast")
    IN  IF UpFrom(key, new) # None \/ new = <<>> THEN UpFrom(key, new)
        ELSE IF casts # <<>> THEN Head(casts).key ELSE Head(new).key

-----------------------------------------------------------------------------

TypeOK ==
    /\ \A c \in Cast : views[c] = NoView \/ c \in Range(known)
    /\ IsInjective(known)
    /\ conn \in [Cast -> {"none", "up", "lost", "over"}] /\ late \subseteq Cast
    /\ parent \in ParentMaps
    /\ kind \in {"tui", "lines"}
    /\ every \in BOOLEAN /\ everything \in BOOLEAN /\ dirty \in BOOLEAN
    /\ seen \subseteq Cast
    /\ {opened, arming, focus} \subseteq Cast \cup {None}
    /\ dialog \in Prompt \cup {None}
    /\ IsInjective([i \in DOMAIN lines |-> lines[i].key])
    /\ \A i \in DOMAIN lines :
           lines[i].parent = None \/ \E j \in 1..(i - 1) : lines[j].key = lines[i].parent

Init ==
    /\ views = [c \in Cast |-> NoView] /\ known = <<>>
    /\ conn = [c \in Cast |-> "none"] /\ late = {}
    /\ parent \in ParentMaps
    /\ kind \in {"tui", "lines"}
    /\ every = FALSE /\ everything = FALSE /\ folded = {} /\ seen = {}
    /\ opened = None /\ cursor = None /\ lines = <<>> /\ lit = <<>>
    /\ dirty = TRUE /\ arming = None /\ dialog = None
    /\ focus = None
    /\ heard = 0 /\ acts = 0

-----------------------------------------------------------------------------
(* What the daemon sends, applied to the window's hub as Views has it.     *)

Heard(c, view) ==
    /\ heard < MaxHeard /\ heard' = heard + 1
    /\ views' = [views EXCEPT ![c] = view]
    /\ dirty' = TRUE
    /\ UNCHANGED <<parent, kind, every, reading, opened, drawn, lit, arming, dialog, focus, acts>>

(* A cast may say hello again before the daemon has read its old           *)
(* connection to the end; of that at most one is waited for here.          *)
HearsHello(c, status) ==
    /\ IF status = "queued" THEN views[c] = NoView /\ UNCHANGED <<conn, late>>
       ELSE /\ conn[c] # "over" /\ conn' = [conn EXCEPT ![c] = "up"]
            /\ conn[c] = "up" => c \notin late
            /\ late' = IF conn[c] = "up" THEN late \cup {c} ELSE late
    /\ known' = IF c \in Range(known) THEN known ELSE Append(known, c)
    /\ Heard(c, [Fresh EXCEPT !.status = status])

Hears(c, view) ==
    /\ Heard(c, view)
    /\ UNCHANGED known

(* What an attached cast says, whatever its view has for a status.         *)
Says(c, view) ==
    /\ conn[c] = "up"
    /\ Hears(c, view)
    /\ UNCHANGED <<conn, late>>

HearsRite(r) ==
    LET view == views[Of[r]] IN
    \/ /\ r \notin Range(view.rites)
       /\ Says(Of[r], [view EXCEPT !.rites = Append(@, r)])
    \/ /\ r \in Range(view.rites) \ view.over
       /\ Says(Of[r], [view EXCEPT !.over = @ \cup {r}])

HearsPrompt(p) ==
    LET view == views[Of[p]] IN
    \/ /\ p \notin Range(view.waiting)
       /\ Says(Of[p], [view EXCEPT !.waiting = Append(@, p)])
    \/ /\ p \in Range(view.waiting)
       /\ Says(Of[p], [view EXCEPT !.waiting = SelectSeq(@, LAMBDA q : q # p)])

Closed(c, status) == [views[c] EXCEPT !.status = status, !.waiting = <<>>]

(* A cast ends, one still queued with it, or its connection is lost.       *)
HearsGoodbye(c, status) ==
    /\ conn[c] = "up" \/ (conn[c] = "none" /\ views[c].status = "queued")
    /\ conn' = [conn EXCEPT ![c] = IF @ = "up" /\ status = "disconnected" THEN "lost" ELSE "over"]
    /\ Hears(c, Closed(c, status))
    /\ UNCHANGED late

(* The goodbye made up for a connection lost before the one there is now   *)
(* (socket_server.py): it closes the view all the same.                    *)
HearsLate(c) ==
    /\ c \in late /\ late' = late \ {c}
    /\ Hears(c, Closed(c, "disconnected"))
    /\ UNCHANGED conn

FromDaemon ==
    \/ \E c \in Cast, status \in {"running", "queued"} : HearsHello(c, status)
    \/ \E r \in Rite : HearsRite(r)
    \/ \E p \in Prompt : HearsPrompt(p)
    \/ \E c \in Cast, status \in {"ok", "error", "disconnected"} : HearsGoodbye(c, status)
    \/ \E c \in Cast : HearsLate(c)

-----------------------------------------------------------------------------
(* Painting the book.                                                      *)

(* A cast that was on the page is seen once the cursor is off it.          *)
SeenOnce(now) == seen \cup (IF opened \in {None, now} THEN {} ELSE {opened})

(* A tree built anew puts its cursor back once it is laid out, and may     *)
(* pass over its first line on the way: a highlight of each is posted.     *)
Repaint ==
    LET page == CastOn(Entry(cursor))
        new == Contents(views, every,
                        [everything |-> everything, folded |-> folded, seen |-> SeenOnce(page)])
    IN
    /\ kind = "tui" /\ dirty /\ dirty' = FALSE
    /\ Len(lit) <= MaxLit
    /\ opened' = page /\ seen' = SeenOnce(page)
    /\ lines' = new
    /\ IF Shape(new) = Shape(lines) THEN UNCHANGED <<cursor, lit>>
       ELSE /\ cursor' = Kept(cursor, new)
            /\ IF new = <<>> THEN UNCHANGED lit
               ELSE \/ lit' = Append(lit, cursor')
                    \/ lit' = lit \o <<Head(new).key, cursor'>>
    /\ dialog' = IF \E c \in Cast : dialog \in Range(views[c].waiting)
                 THEN dialog ELSE None
    /\ UNCHANGED <<hubVars, kind, every, everything, folded, arming, focus, acts>>

Ticks ==
    /\ kind = "tui" /\ ~dirty /\ dirty' = TRUE
    /\ UNCHANGED <<hubVars, kind, every, reading, opened, drawn, lit, arming, dialog, focus, acts>>

(* A highlight, the operator's or the tree's own, reaches the application. *)
Highlighted ==
    /\ lit # <<>> /\ lit' = Tail(lit)
    /\ cursor' = Head(lit)
    /\ arming' = IF Head(lit) = cursor THEN arming ELSE None
    /\ dirty' = TRUE
    /\ UNCHANGED <<hubVars, kind, every, reading, opened, lines, dialog, focus, acts>>

-----------------------------------------------------------------------------
(* Keys, on the book: a dialog that is up takes them all.  What they write *)
(* to the daemon is left to Hub, and a cancel to Cast.                     *)

Pressed ==
    /\ kind = "tui" /\ dialog = None
    /\ acts < MaxActs /\ acts' = acts + 1
    /\ UNCHANGED <<hubVars, kind, seen, opened, lines, focus>>

MovesTo(key) ==
    /\ Pressed
    /\ key \in Keys(lines) /\ Len(lit) < MaxLit /\ lit' = Append(lit, key)
    /\ UNCHANGED <<every, everything, folded, cursor, dirty, arming, dialog>>

Scope(all) ==
    /\ Pressed
    /\ every' = all /\ dirty' = TRUE
    /\ UNCHANGED <<everything, folded, cursor, lit, arming, dialog>>

Everything ==
    /\ Pressed
    /\ everything' = ~everything /\ dirty' = TRUE
    /\ UNCHANGED <<every, folded, cursor, lit, arming, dialog>>

Fold ==
    LET entry == Entry(cursor) IN
    /\ Pressed
    /\ entry # None
    /\ folded' = IF cursor \in folded THEN folded \ {cursor}
                 ELSE IF entry.below THEN folded \cup {cursor} ELSE folded
    /\ dirty' = TRUE
    /\ UNCHANGED <<every, everything, cursor, lit, arming, dialog>>

(* Mutant: a fold is passed over.                                          *)
WaitsUnfolded(line) == line.kind = "cast" /\ line.asks > 0

WaitsOn(line) == line.asks > 0 /\ (line.kind = "cast" \/ line.folded)

(* Down from the cursor, wrapping round to the top.                        *)
NextWaiting ==
    LET at == {i \in DOMAIN lines : lines[i].key = cursor}
        start == IF at = {} THEN 0 ELSE CHOOSE i \in at : TRUE
        after == SubSeq(lines, start + 1, Len(lines)) \o SubSeq(lines, 1, start)
        waiting == SelectSeq(after, WaitsOn)
    IN
    /\ Pressed
    /\ IF waiting = <<>> THEN UNCHANGED <<cursor, lit, dirty>>
       ELSE /\ cursor' = Head(waiting).key /\ dirty' = TRUE
            /\ Len(lit) < MaxLit /\ lit' = Append(lit, cursor')
    /\ UNCHANGED <<every, everything, folded, arming, dialog>>

(* Twice on the same cast: the first x says what the second does.          *)
Cancel ==
    LET c == CastOn(Entry(cursor)) IN
    /\ Pressed
    /\ IF c = None \/ views[c].status # "running" THEN arming' = None
       ELSE IF arming # c THEN arming' = c
       ELSE arming' = None
    /\ UNCHANGED <<every, everything, folded, cursor, lit, dirty, dialog>>

Take ==
    /\ Pressed
    /\ IF Waiting(cursor) = None THEN UNCHANGED dialog
       ELSE dialog' = Waiting(cursor)
    /\ UNCHANGED <<every, everything, folded, cursor, lit, dirty, arming>>

(* The dialog is answered, or let go of.                                   *)
Dialog ==
    /\ dialog # None /\ dialog' = None
    /\ UNCHANGED <<hubVars, kind, every, reading, opened, drawn, lit, dirty, arming, focus, acts>>

-----------------------------------------------------------------------------
(* The line view: what is typed, a line at a time.                         *)

Listed(all) == Ordered(views, Scoped(views, all))

Typed ==
    /\ kind = "lines"
    /\ acts < MaxActs /\ acts' = acts + 1
    /\ UNCHANGED <<hubVars, kind, reading, opened, drawn, lit, dirty, arming, dialog>>

(* A number not in the listing leaves nothing drilled into.                *)
TypesNumber(n) ==
    /\ Typed
    /\ focus' = IF n \in DOMAIN Listed(every) THEN Listed(every)[n] ELSE None
    /\ UNCHANGED every

TypesBack == Typed /\ focus' = None /\ UNCHANGED every

TypesScope(all) == Typed /\ every' = all /\ focus' = None

-----------------------------------------------------------------------------

KeysPressed ==
    \/ \E key \in Keys(lines) : MovesTo(key)
    \/ \E all \in BOOLEAN : Scope(all)
    \/ Everything \/ Fold \/ NextWaiting \/ Cancel \/ Take \/ Dialog

LinesTyped ==
    \/ \E n \in 1..(Cardinality(Cast) + 1) : TypesNumber(n)
    \/ TypesBack
    \/ \E all \in BOOLEAN : TypesScope(all)

Next == FromDaemon \/ Repaint \/ Ticks \/ Highlighted \/ KeysPressed \/ LinesTyped

Spec == Init /\ [][Next]_vars

-----------------------------------------------------------------------------

(* Whoever asks can be got at, whatever is folded, hidden or out of the    *)
(* cursor's sight: once the book is painted, every cast in scope that asks *)
(* is under a line that `w` comes to, at each of those lines `t` finds a   *)
(* prompt that waits, and nobody is said to wait who cannot be come to.    *)
(* The line view lists each cast in scope once, and those that ask before  *)
(* any that does not, as far as they are shown to run.                     *)
AskingReachable ==
    /\ (kind = "tui" /\ ~dirty) =>
           LET stops == {i \in DOMAIN lines : WaitsOn(lines[i])}
           IN  /\ \A c \in Range(Scoped(views, every)) :
                      Asks(views[c]) => \E i \in stops : c \in Range(lines[i].casts)
               /\ \A i \in stops : Waiting(lines[i].key) # None
               /\ stops = {} => Banner = "nothing"
    /\ kind = "lines" =>
           LET all == Listed(every)
           IN  /\ IsInjective(all) /\ Range(all) = Range(Scoped(views, every))
               /\ \A i, j \in DOMAIN all :
                      (i < j /\ Asks(views[all[j]]) /\ Live(views[all[j]]))
                          => Asks(views[all[i]])

(* "Casts waiting on an answer sort to the top" (docs/cli.md:265) of the   *)
(* line view.  The late goodbye of an old connection closes the view of a  *)
(* cast that is attached: the next prompt it asks is listed with the casts *)
(* that have ended.                                                        *)
AskingFirst ==
    LET all == Listed(every)
    IN  \A i, j \in DOMAIN all :
            (i < j /\ Asks(views[all[j]])) => Asks(views[all[i]])

(* "A failed cast counts, and stays in the running-only contents, until it *)
(* has been on the page and the cursor has moved off it" (tui.py:474): of a*)
(* window nobody has touched, until somebody does.  A tree built anew      *)
(* passes its cursor over the first line, and a repaint that comes right   *)
(* then takes the cast on the page for one the operator has left.          *)
FailureStays ==
    acts = 0 => \A c \in seen : ~Failed(views[c])

(* Every rite that began is drawn once, whatever parents it was sent with: *)
(* one whose parent never came, or whose parents go round, too.            *)
RitesDrawnOnce ==
    \A c \in Range(known) :
        LET tree == Grown(views[c])
            rite(i) == tree[i].rite
        IN  /\ Len(tree) = Len(views[c].rites)
            /\ {rite(i) : i \in DOMAIN tree} = Range(views[c].rites)
=============================================================================
