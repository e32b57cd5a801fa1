-------------------------------- MODULE Hub --------------------------------
(***************************************************************************)
(* The daemon's hub (src/vekna/mills/hub.py) and the windows on it         *)
(* (src/vekna/gates/cli/tui.py, each with a hub of its own that it applies *)
(* what it reads to, src/vekna/inits/cli.py): views, prompts, claims,      *)
(* replay and fan-out, over the connections of the socket server           *)
(* (src/vekna/links/socket_server.py).                                     *)
(*                                                                         *)
(* The casts are the environment: each says what its link says, in order,  *)
(* on its connection; what is told back to one is heard at once (Link is   *)
(* about its other end).  A frame read, with everything the hub does for   *)
(* it, is one action.                                                      *)
(***************************************************************************)
EXTENDS Views

CONSTANTS
    MaxDrops,       \* bound: connections a cast loses
    MaxStale,       \* bound: connections the daemon learns late are gone
    MaxOpened,      \* bound: prompts, rites and awaits there ever are
    MaxActs,        \* bound: dialogs opened and answers typed, by all windows
    MaxLines        \* bound: lines a rite streams

VARIABLES
    views,          \* `_casts`: the daemon's view of each cast
    claims,         \* `_claims`: the holder of each claimed prompt
    surfaces,       \* `_surfaces`
    link,           \* the casts whose own end of a connection is up
    peer,           \* `_peers`: a connection that is live, one that is lost, none
    saying,         \* what a cast wrote on it and the daemon has not read
    stale,          \* the older connections of a cast not seen to be gone
    open,           \* at the cast: its prompts not settled
    told,           \* at the cast: the prompts it was last told are claimed
    awaiting,       \* at the cast: its awaits not answered
    lines,          \* at the cast: lines each rite has streamed, then its end
    over,           \* the casts that have said goodbye, by their own word
    asked,          \* the prompts, rites and awaits there have ever been
    window,         \* each window: "unopened", "up", "dead" and to be found out, "shut"
    outbox,         \* what a window wrote and the daemon has not read
    picture,        \* a window's own hub: its views, what it is sent applied
    dialog,         \* the prompt a window's dialog asks
    drops, acts     \* counters of what is bounded

hub == <<views, claims, surfaces, peer>>
hubVars == <<views, claims, surfaces, told, picture>>
castVars == <<link, saying, stale, open, told, awaiting, lines, over, asked, drops>>
windowVars == <<window, outbox, dialog, acts>>
vars == <<views, claims, surfaces, peer, link, saying, stale, open, told, awaiting, lines, over,
          asked, window, outbox, picture, dialog, drops, acts>>

Idle == -1
Streaming == 0..MaxLines
Over == MaxLines + 1

TypeOK ==
    /\ \A c \in Cast : views[c] = NoView \/ views[c].status \in Status
    /\ claims \in [Prompt -> Window \cup {Nobody}]
    /\ surfaces \subseteq Window
    /\ peer \in [Cast -> {"none", "live", "lost"}]
    /\ link \subseteq Cast
    /\ stale \in [Cast -> 0..MaxDrops]
    /\ open \subseteq Prompt /\ told \subseteq open
    /\ awaiting \subseteq Await
    /\ lines \in [Rite -> {Idle, Over} \cup Streaming]
    /\ over \subseteq Cast
    /\ asked \subseteq Prompt \cup Rite \cup Await
    /\ window \in [Window -> {"unopened", "up", "dead", "shut"}]
    /\ dialog \in [Window -> Prompt \cup {Nobody}]

Init ==
    /\ views = [c \in Cast |-> NoView]
    /\ claims = [p \in Prompt |-> Nobody]
    /\ surfaces = {} /\ link = {} /\ peer = [c \in Cast |-> "none"]
    /\ saying = [c \in Cast |-> <<>>]
    /\ stale = [c \in Cast |-> 0]
    /\ open = {} /\ told = {} /\ awaiting = {}
    /\ lines = [r \in Rite |-> Idle]
    /\ over = {} /\ asked = {}
    /\ window = [w \in Window |-> "unopened"]
    /\ outbox = [w \in Window |-> <<>>]
    /\ picture = [w \in Window |-> [c \in Cast |-> NoView]]
    /\ dialog = [w \in Window |-> Nobody]
    /\ drops = 0 /\ acts = 0

-----------------------------------------------------------------------------
(* What `apply` comes to, in a hub with a journal that may fail or not.    *)

Accepts(vs, m) ==
    m.kind = "hello" \/ (vs[m.cast] # NoView /\ ~Refused(vs[m.cast], m))

Applied(vs, m) ==
    IF ~Accepts(vs, m) THEN vs
    ELSE [vs EXCEPT ![m.cast] = IF m.kind = "hello" THEN [Fresh EXCEPT !.status = m.with]
                                ELSE Updated(@, m)]

AllApplied(vs, messages) ==
    LET after[n \in 0..Len(messages)] ==
            IF n = 0 THEN vs ELSE Applied(after[n - 1], messages[n])
    IN  after[Len(messages)]

(* Mutant: a claim outlives the connection of the cast that asked.         *)
UnclaimedAtTheAnswer(held, m) ==
    [p \in Prompt |->
        IF m.kind \in {"resolved", "withdrawn"} /\ m.what = p THEN Nobody ELSE held[p]]

Unclaimed(held, m) ==
    [p \in Prompt |->
        IF \/ m.kind \in {"resolved", "withdrawn"} /\ m.what = p
           \/ m.kind \in {"hello", "goodbye", "begin"} /\ m.cast = Of[p]
        THEN Nobody ELSE held[p]]

(* What a window that attaches is sent for one cast.                       *)
ReplayRite(c, view, r) ==
    IF view.rites[r] = Nobody THEN <<>>
    ELSE <<Message("started", c, r, Nobody)>>
         \o (IF view.rites[r].lines > 0
             THEN <<Message("delta", c, r, view.rites[r].lines)>> ELSE <<>>)
         \o (IF view.rites[r].finished THEN <<Message("finished", c, r, Nobody)>> ELSE <<>>)

(* Mutant: the claims are not said again.                                  *)
ReplayPromptAlone(asking) ==
    <<Message("asked", Of[asking.prompt], asking.prompt, Nobody)>>

ReplayPrompt(asking) ==
    <<Message("asked", Of[asking.prompt], asking.prompt, Nobody)>>
    \o (IF asking.claim # Nobody THEN <<Claimed(asking.prompt, asking.claim)>> ELSE <<>>)

ReplayGoodbye(c, view) ==
    IF view.status \in Ended THEN <<Goodbye(c, view.status)>> ELSE <<>>

ReplayCast(c, view) ==
    <<Hello(c, "running"), Plain("begin", c)>>
    \o FlattenSeq([i \in 1..Cardinality(Rite) |-> ReplayRite(c, view, SetToSeq(Rite)[i])])
    \o FlattenSeq([i \in DOMAIN view.waiting |-> ReplayPrompt(view.waiting[i])])
    \o SetToSeq({Message("awaits", c, k, Nobody) : k \in view.onChildren})
    \o <<Plain("end", c)>>
    \o (IF view.status = "queued" THEN <<Plain("queued", c)>> ELSE <<>>)
    \o ReplayGoodbye(c, view)
    \o (IF view.blocked THEN <<Plain("blocked", c)>> ELSE <<>>)

Replay(vs) ==
    LET known == SetToSeq({c \in Cast : vs[c] # NoView})
    IN  FlattenSeq([i \in DOMAIN known |-> ReplayCast(known[i], vs[known[i]])])

(* The prompts whose holders were found gone, and the views once each of   *)
(* those claims is let go of.                                              *)
LetGo(held, gone) == {p \in Prompt : held[p] \in gone}

Unheld(vs, lost) ==
    [c \in Cast |->
        IF vs[c] = NoView THEN NoView
        ELSE [vs[c] EXCEPT !.waiting =
                [i \in DOMAIN @ |-> IF @[i].prompt \in lost
                                    THEN [prompt |-> @[i].prompt, claim |-> Nobody] ELSE @[i]]]]

(* What is said reaches the views and, of the surfaces it is fanned out    *)
(* `to`, those not gone; then each claim these held is let go of.          *)
Spreads(Said(_), held, gone, to) ==
    LET After(vs) == Unheld(Said(vs), LetGo(held, gone))
    IN  /\ views' = After(views)
        /\ claims' = [p \in Prompt |-> IF held[p] \in gone THEN Nobody ELSE held[p]]
        /\ surfaces' = to \ gone
        /\ picture' = [w \in Window |-> IF w \in to \ gone /\ window[w] = "up"
                                       THEN After(picture[w]) ELSE picture[w]]

(* Mutant: the casts do not hear of the claims let go of.                  *)
FanOutUntold(held, m, isTold, to) ==
    \E gone \in SUBSET {w \in to : window[w] = "dead"} :
        /\ Spreads(LAMBDA vs : Applied(vs, m), held, gone, to)
        /\ told' = isTold

(* A message applied and fanned out; the surfaces found gone, any of the   *)
(* dead ones, are detached once all have the message, and the casts are    *)
(* told of the claims they held.                                           *)
FanOut(held, m, isTold, to) ==
    \E gone \in SUBSET {w \in to : window[w] = "dead"} :
        /\ Spreads(LAMBDA vs : Applied(vs, m), held, gone, to)
        /\ told' = isTold \ LetGo(held, gone)

(* A prompt settled is one the cast no longer minds a claim on.            *)
Apply(m) ==
    LET isTold == told \ {m.what}
    IN  IF Accepts(views, m) THEN FanOut(Unclaimed(claims, m), m, isTold, surfaces)
        ELSE told' = isTold /\ UNCHANGED <<views, claims, surfaces, picture>>

-----------------------------------------------------------------------------
(* The circle, and the casts on their connections.                         *)

(* The circle's record of a cast in line: its hello and, at once, that it  *)
(* waits.                                                                  *)
Queues(c) ==
    /\ views[c] = NoView /\ peer[c] = "none"
    /\ FanOut(claims, Hello(c, "queued"), told, surfaces)
    /\ UNCHANGED <<peer, link, saying, stale, open, awaiting, lines, over, asked, drops, windowVars>>

(* The tree a cast left, found blocked, then freed.                        *)
TreeChanges(c) ==
    /\ c \in over /\ saying[c] = <<>>
    /\ Apply(Plain(IF views[c].blocked THEN "freed" ELSE "blocked", c))
    /\ UNCHANGED <<peer, link, saying, stale, open, awaiting, lines, over, asked, drops, windowVars>>

(* A frame written, and read: what is still to be read of a connection is  *)
(* only what it opened with (Link has the frames under way).               *)
Says(c, m) == saying[c] = <<>> /\ IF c \in link THEN Apply(m) ELSE UNCHANGED hubVars

(* A connection, the first or the next: everything is said again, of the   *)
(* rites that they began before that they ended.  The older connection may *)
(* not have been seen to end.                                              *)
Attaches(c) ==
    LET said(kind, xs) == SetToSeq({Message(kind, c, x, Nobody) : x \in {y \in xs : Of[y] = c}})
    IN  /\ c \notin link \cup over /\ stale[c] <= MaxStale
        /\ link' = link \cup {c}
        /\ saying' = [saying EXCEPT ![c] =
                <<Hello(c, "running"), Plain("begin", c)>>
                \o said("started", {r \in Rite : lines[r] # Idle})
                \o said("finished", {r \in Rite : lines[r] = Over})
                \o said("asked", open) \o said("awaits", awaiting) \o <<Plain("end", c)>>]
        /\ UNCHANGED <<views, claims, surfaces, peer, picture, stale, open, told, awaiting, lines, over,
                       asked, drops, windowVars>>

(* Its connection is lost, and what is still unread on it; what the hub    *)
(* reads of it before it finds its end lost is what it reads before this:  *)
(* it cannot tell.  The cast's end lets go of the claims it was told of.   *)
Drops(c) ==
    /\ c \in link \ over /\ drops < MaxDrops
    /\ drops' = drops + 1
    /\ link' = link \ {c}
    /\ saying' = [saying EXCEPT ![c] = <<>>]
    /\ stale' = [stale EXCEPT ![c] = IF peer[c] = "live" THEN @ + 1 ELSE @]
    /\ peer' = [peer EXCEPT ![c] = IF @ = "live" THEN "lost" ELSE @]
    /\ told' = {p \in told : Of[p] # c}
    /\ UNCHANGED <<views, claims, surfaces, picture, open, awaiting, lines, over, asked, windowVars>>

(* `close_cast`: a newer peer is kept.                                     *)
CloseCast(c) == peer' = [peer EXCEPT ![c] = IF @ = "lost" THEN "none" ELSE @]

(* A lost connection seen to be: the server makes up a goodbye.            *)
Disconnects(c) ==
    /\ stale[c] > 0
    /\ stale' = [stale EXCEPT ![c] = @ - 1]
    /\ CloseCast(c)
    /\ Apply(Goodbye(c, "disconnected"))
    /\ UNCHANGED <<link, saying, open, awaiting, lines, over, asked, drops, windowVars>>

(* The daemon reads a frame of a cast: the first, a hello, makes the       *)
(* connection its peer, in place of an older one.                          *)
Reads(c) ==
    /\ saying[c] # <<>>
    /\ saying' = [saying EXCEPT ![c] = Tail(@)]
    /\ peer' = [peer EXCEPT ![c] = "live"]
    /\ Apply(Head(saying[c]))
    /\ UNCHANGED <<link, stale, open, awaiting, lines, over, asked, drops, windowVars>>

CastOnly == UNCHANGED <<peer, link, saying, stale, over, drops, windowVars>>

Asks(p) ==
    /\ Cardinality(asked) < MaxOpened /\ p \notin asked /\ Of[p] \in link \ over
    /\ asked' = asked \cup {p} /\ open' = open \cup {p}
    /\ Says(Of[p], Message("asked", Of[p], p, Nobody))
    /\ CastOnly /\ UNCHANGED <<awaiting, lines>>

(* Answered at its own terminal, which takes answers until it is told of a *)
(* claim, or given up by the cast.                                         *)
Settles(p) ==
    /\ p \in open
    /\ open' = open \ {p}
    /\ \E kind \in {"resolved", "withdrawn"} :
        /\ kind = "resolved" => p \notin told
        /\ Says(Of[p], Message(kind, Of[p], p, Nobody))
    /\ CastOnly /\ UNCHANGED <<awaiting, lines, asked>>

Awaits(k) ==
    /\ Cardinality(asked) < MaxOpened /\ k \notin asked /\ Of[k] \in link \ over
    /\ asked' = asked \cup {k} /\ awaiting' = awaiting \cup {k}
    /\ Says(Of[k], Message("awaits", Of[k], k, Nobody))
    /\ CastOnly /\ UNCHANGED <<open, lines>>

(* The circle answers an await, told to the cast, then applied; or the     *)
(* cast gives it up.                                                       *)
AwaitEnds(k) ==
    /\ k \in awaiting /\ awaiting' = awaiting \ {k}
    /\ \/ /\ k \in views[Of[k]].onChildren /\ peer[Of[k]] = "live"
          /\ Apply(Message("awaitEnded", Of[k], k, Nobody))
       \/ Says(Of[k], Message("awaitWithdrawn", Of[k], k, Nobody))
    /\ CastOnly /\ UNCHANGED <<open, lines, asked>>

(* A rite begins, streams a line, or ends.                                 *)
Streams(r) ==
    LET c == Of[r]
        said == IF lines[r] = Idle THEN Message("started", c, r, Nobody)
                ELSE Message("delta", c, r, 1)
    IN  /\ c \in link \ over
        /\ \/ lines[r] < MaxLines /\ lines' = [lines EXCEPT ![r] = @ + 1] /\ Says(c, said)
           \/ /\ lines[r] \in Streaming /\ lines' = [lines EXCEPT ![r] = Over]
              /\ Says(c, Message("finished", c, r, Nobody))
        /\ asked' = asked \cup {r} /\ Cardinality(asked') <= MaxOpened
        /\ CastOnly /\ UNCHANGED <<open, awaiting>>

(* A cast ends with nothing open, and says so: the end of its connection.  *)
Ends(c) ==
    /\ c \in link \ over
    /\ \A x \in open \cup awaiting : Of[x] # c
    /\ over' = over \cup {c} /\ link' = link \ {c}
    /\ peer' = [peer EXCEPT ![c] = "none"]
    /\ \E status \in {"ok", "error"} : Says(c, Goodbye(c, status))
    /\ UNCHANGED <<saying, stale, open, awaiting, lines, asked, drops, windowVars>>

-----------------------------------------------------------------------------
(* The windows.                                                            *)

CastsOnly == UNCHANGED <<link, saying, stale, open, awaiting, lines, over, asked, drops>>

(* A window attaches: in the fan-out from here on, the replay first.       *)
Opens(w) ==
    /\ window[w] = "unopened"
    /\ window' = [window EXCEPT ![w] = "up"]
    /\ surfaces' = surfaces \cup {w}
    /\ picture' = [picture EXCEPT ![w] = AllApplied(@, Replay(views))]
    /\ UNCHANGED <<views, claims, peer, castVars, outbox, dialog, acts>>

(* The oldest prompt open under the cursor, of whichever cast it is on.    *)
Oldest(w, p) ==
    \E c \in Cast : /\ picture[w][c] # NoView /\ picture[w][c].waiting # <<>>
                    /\ p = Head(picture[w][c].waiting).prompt

Writes(w, kind, p) == outbox' = [outbox EXCEPT ![w] = Append(@, [kind |-> kind, prompt |-> p])]

(* `t`: claimed, so whoever was answering stops, then asked in a dialog.   *)
Takes(w) ==
    /\ window[w] = "up" /\ dialog[w] = Nobody /\ acts < MaxActs
    /\ acts' = acts + 1
    /\ \E p \in Prompt : /\ Oldest(w, p) /\ Writes(w, "claim", p)
                         /\ dialog' = [dialog EXCEPT ![w] = p]
    /\ UNCHANGED <<hub, castVars, window, picture>>

(* The dialog answered, or let go of with escape.                          *)
Dismisses(w) ==
    /\ window[w] = "up" /\ dialog[w] # Nobody
    /\ dialog' = [dialog EXCEPT ![w] = Nobody]
    /\ \E kind \in {"answer", "release"} : Writes(w, kind, dialog[w])
    /\ UNCHANGED <<hub, castVars, window, picture, acts>>

(* An answer typed at the command line claims nothing.                     *)
Types(w) ==
    /\ window[w] = "up" /\ dialog[w] = Nobody /\ acts < MaxActs
    /\ acts' = acts + 1
    /\ \E p \in Prompt : Oldest(w, p) /\ Writes(w, "answer", p)
    /\ UNCHANGED <<hub, castVars, window, picture, dialog>>

(* A repaint closes the dialog of a prompt that is gone, sending nothing.  *)
Repaints(w) ==
    /\ window[w] = "up" /\ dialog[w] # Nobody
    /\ \A c \in Cast : picture[w][c] # NoView => dialog[w] \notin Prompts(picture[w][c])
    /\ dialog' = [dialog EXCEPT ![w] = Nobody]
    /\ UNCHANGED <<hub, castVars, window, outbox, picture, acts>>

Closes(w) ==
    /\ window[w] = "up"
    /\ window' = [window EXCEPT ![w] = "dead"]
    /\ dialog' = [dialog EXCEPT ![w] = Nobody]
    /\ picture' = [picture EXCEPT ![w] = [c \in Cast |-> NoView]]
    /\ UNCHANGED <<hub, castVars, outbox, acts>>

Asking(p) == views[Of[p]] # NoView /\ p \in Prompts(views[Of[p]])

(* Forwarded to the cast, which takes the first answer to an open prompt   *)
(* and says what it took; a lost connection takes it with it.              *)
Answer(w, p) ==
    IF /\ Asking(p) /\ (ClaimOn(views[Of[p]], p) = Nobody \/ claims[p] = w)
       /\ peer[Of[p]] = "live" /\ p \in open
    THEN /\ open' = open \ {p}
         /\ Apply(Message("resolved", Of[p], p, Nobody))
    ELSE UNCHANGED <<open, hubVars>>

(* Any surface may claim an open prompt, over another's claim too; the     *)
(* cast is told first.                                                     *)
Claim(w, p) ==
    /\ IF Asking(p)
       THEN FanOut([claims EXCEPT ![p] = w], Claimed(p, w),
                   IF peer[Of[p]] = "live" /\ p \in open THEN told \cup {p} ELSE told,
                   surfaces)
       ELSE UNCHANGED hubVars
    /\ UNCHANGED open

(* Mutant: any window lets go of a claim.                                  *)
ReleaseOfAny(w, p) ==
    /\ IF Asking(p)
       THEN FanOut([claims EXCEPT ![p] = Nobody], Claimed(p, Nobody), told \ {p}, surfaces)
       ELSE UNCHANGED hubVars
    /\ UNCHANGED open

(* Only the holder lets go.                                                *)
Release(w, p) ==
    /\ IF Asking(p) /\ claims[p] = w
       THEN FanOut([claims EXCEPT ![p] = Nobody], Claimed(p, Nobody), told \ {p}, surfaces)
       ELSE UNCHANGED hubVars
    /\ UNCHANGED open

(* The daemon reads what a window wrote, one that has gone since too.      *)
ReadsWindow(w) ==
    /\ outbox[w] # <<>>
    /\ outbox' = [outbox EXCEPT ![w] = Tail(@)]
    /\ LET said == Head(outbox[w])
       IN  \/ said.kind = "answer" /\ Answer(w, said.prompt)
           \/ said.kind = "claim" /\ Claim(w, said.prompt)
           \/ said.kind = "release" /\ Release(w, said.prompt)
    /\ UNCHANGED <<peer, link, saying, stale, awaiting, lines, over, asked, drops,
                   window, dialog, acts>>

(* The daemon sees a window gone, with whatever it had not read of it.     *)
Detaches(w) ==
    /\ window[w] = "dead"
    /\ window' = [window EXCEPT ![w] = "shut"]
    /\ outbox' = [outbox EXCEPT ![w] = <<>>]
    /\ \E gone \in SUBSET {v \in surfaces \ {w} : window[v] = "dead"} :
        /\ LetGo(claims, {w}) = {} => gone = {}
        /\ Spreads(LAMBDA vs : vs, claims, gone \cup {w}, surfaces)
        /\ told' = told \ LetGo(claims, gone \cup {w})
    /\ UNCHANGED <<peer, dialog, acts>> /\ CastsOnly

Next ==
    \/ \E c \in Cast : \/ Queues(c) \/ Attaches(c) \/ Drops(c) \/ Disconnects(c) \/ Reads(c)
                       \/ Ends(c) \/ TreeChanges(c)
    \/ \E p \in Prompt : Asks(p) \/ Settles(p)
    \/ \E k \in Await : Awaits(k) \/ AwaitEnds(k)
    \/ \E r \in Rite : Streams(r)
    \/ \E w \in Window : \/ Opens(w) \/ Takes(w) \/ Dismisses(w) \/ Types(w)
                         \/ Repaints(w) \/ Closes(w) \/ ReadsWindow(w) \/ Detaches(w)

Spec == Init /\ [][Next]_vars
-----------------------------------------------------------------------------

(* A claim has a holder while, and only while, the prompt it is on is open *)
(* in the view and shown as claimed by it: `_claims` and the views are     *)
(* kept apart, and a handler that updated one alone would leave a prompt   *)
(* nobody may answer.  Whoever holds one is still being read: a claim dies *)
(* with its surface, found gone at a fan-out or at the end of its          *)
(* connection.                                                             *)
ClaimsMatch ==
    \A p \in Prompt :
        /\ claims[p] = IF Asking(p) THEN ClaimOn(views[Of[p]], p) ELSE Nobody
        /\ claims[p] # Nobody => window[claims[p]] # "shut"

(* While its view runs, a cast has been told of exactly the claims there   *)
(* are on its open prompts: a terminal never goes on asking under a claim, *)
(* nor stays silent without one.                                           *)
ClaimsTold ==
    \A p \in open : peer[Of[p]] = "live" /\ views[Of[p]].status = "running"
                    => (p \in told <=> claims[p] # Nobody)

(* What a view shows that is not settled by its end.                       *)
Shown(view) ==
    IF view # NoView /\ view.status \in Ended
    THEN [view EXCEPT !.waiting = <<>>, !.onChildren = {}] ELSE view

(* A window's picture is the hub's: however late it attached, whatever was *)
(* being fanned out when it did, and whoever was found gone meanwhile.     *)
PictureFollows ==
    \A w \in surfaces, c \in Cast :
        window[w] = "up" => Shown(picture[w][c]) = Shown(views[c])

Read(w, said) == outbox[w] # <<>> /\ Head(outbox[w]) = said /\ outbox'[w] = Tail(outbox[w])

(* A claim on a prompt that stays open ends only as its holder's word, or  *)
(* with its holder, or by another's claim: never by the word of a window   *)
(* it was taken from.                                                      *)
ClaimKept ==
    [][\A p \in Prompt, w \in Window :
        (claims[p] = w /\ Asking(p) /\ Asking(p)' /\ claims'[p] = Nobody)
            => \/ window[w] = "dead"
               \/ Read(w, [kind |-> "release", prompt |-> p])
               \/ \E v \in Window \ {w} : Read(v, [kind |-> "claim", prompt |-> p])
      ]_vars
=============================================================================
