# vekna, verified

TLA+ modules of vekna's own logic, the TLC runs that check them on small
instances, and theorems about them that TLAPS proves for every instance.

vekna runs *casts*: a cast is one execution of a ritual, in a process of its
own. One *daemon* per user holds what casts share: who is queued, who runs, in
which git worktree, who awaits whom, what a person is being asked. Terminals,
the TUI and the page are *surfaces*: they show the daemon's views and answer
its prompts. Everything talks over one Unix socket, a frame a line. The daemon
and each cast are a single asyncio thread: what happens between two `await`s is
one step, and every hazard is in the order of those steps, in connections that
come and go, and in processes that die.

Paths below are relative to the repository; a module's comments name the code it
models, and `PROJECT.json` maps each definition to its lines.

## 1. The system

| Component | State | Operations | Talks to | Hard behaviours |
|---|---|---|---|---|
| **Circle** (`mills/circle.py`) | the queue, the running tasks, those among them not spawned yet | `enqueue`, `wake` (a goodbye, an await), `_start`, `_run` (one task per queued cast) | Hub's views, Awaits, Leasing, LeftBehind, Spawner | `_start` runs from many handlers; slots counted off views, tasks and marks that change at different moments; a cast that finds no tree goes back in front |
| **Awaits** (same) | endings found and not delivered | `due`, `parked` | Hub, Journal | answers taken off a view, or off the journal once no view is left |
| **Leasing** (same) | which casts need a tree, who holds which, one lock per project | `run`, `_lease`, `_release`, `purify` | GitTrees, Spawner | `held` is read before git is awaited; failures half way; cancellation |
| **LeftBehind** (same) | the casts an earlier daemon left running | `trees`, `awaiting`, `count` | Hub, marks | stands in for views that do not exist yet |
| **CodingPool** (same) | slots held, requests waiting | `requested`, `released`, `ended` | ConfigLimits, Hub | a limit edited while requests wait; one event that frees several slots |
| **ConfigLimits** (`links/circle_config.py`) | none: the files are read at each use | `coding`, `processes`, `worktrees`, `prepare` | files | read again at every decision, and nobody told of an edit |
| **GitTrees** (`links/worktrees.py`) | the pool's worktrees and branches on disk | `lease`, `release`, `purify` | git | a tree parked, blocked or half made |
| **Spawner** (`links/spawner.py`) | a mark per live process | call, `left_behind` | processes, mark files | a mark and its process come apart in a crash |
| **Daemon** (`inits/daemon.py`) | the lock file, the socket, one circle per project | `serve`, `apply`, `stop`, `purify` | all of the above | start reads what a dead daemon left; stop cancels every task |
| **Hub** (`mills/hub.py`) | one view per cast: status, rites, open prompt, claim, awaits; the surfaces | one handler per message | every connection | two surfaces on one prompt; replay against live events |
| **Socket server** (`links/socket_server.py`) | open connections | read loops, `close` | Hub | a goodbye made up for a lost connection, after a new one said hello |
| **DaemonLink** (`lexicon/_links/daemon.py`) | the connection, what is open on it | `attach`, `keep_attached`, `ask`, `await_end`, `enqueue`, `coding_slot`, `close` | Hub | everything open is said again on a reattach; an enqueue is not |
| **Journal** (`links/journal.py`) | a directory per cast | `started`, `ended`, `entered`, `queued`, `prune` | Ledger, Circle | half-written lines, failed writes, gaps |
| **Cutter** (`mills/cutter.py`) | timers of cancellations | `cancel` | processes | asks, then SIGINT, then SIGKILL, while the cast may be ending |
| **Cast process** (`lexicon/_inits.py`) | its link, its channel | run, resume, cancel, exit codes | DaemonLink, Engine | says it needs a tree by exiting |
| **Engine, dispatch, graph** (`lexicon/_mills/`) | the step in hand, the rites below it | `run_cast` and one dispatcher per rite | mediums, Ledger | a trampoline over user code: cancellation and failure at any rite |
| **Ledger, resume** (`lexicon/_mills/ledger.py`, `lexicon/_links/resume.py`) | recorded rites | record, replay | Journal, Engine | a replay that no longer matches the code |
| **Lineage, Follower** (`lexicon/_mills/follow.py`, `lexicon/_links/follow.py`) | the casts a terminal follows | one handler per event | Hub | a child that ends before it is known of |
| **Bounds, flow, shell** (`lexicon/_mills/bounds.py`, `folio/`) | racing tasks, process groups | `race`, `timeout`, `reap` | asyncio, processes | a late answer against its timeout |
| **Coding mediums** (`folio/coding*/`) | an agent session | ask, resume | CodingPool through the link | a session's slot over a lost connection |
| **Wire** (`wire/`) | none | encode, decode | all | frames past the reader's limit |
| **Terminal, renderer** (`lexicon/_links/standalone.py`, `follow.py`) | one tail of the output, a lock on stdin, a task per question | a renderer per cast, `decide` | DaemonLink, Follower | a rite's opening line taken back; a question withdrawn while a thread reads for it |
| **Windows** (`gates/cli/tui.py`, `contents.py`, `dashboard.py`, `screen.py`) | a hub of their own, what is folded, in scope, seen, under the cursor | repaint, keys, lines typed, dialogs | Hub | keys act on a page drawn before the views changed |
| Command line, ritual loading, trial | reflection, a test harness | | | no state of the system's own |

What makes each of the first group correct, in one line each:

* Circle: every queued cast starts once, in order, within `processes`; a parent
  whose child ended comes back before anything queued starts; nothing waits that
  could run.
* Awaits: an answer is true when given, and every await gets one.
* Leasing: one cast a tree, from the lease to the exit, whatever fails between;
  what a window shows of a blocked tree is so.
* LeftBehind, restart: a new daemon neither spawns what runs nor forgets what
  waits, and counts what an earlier one left.
* CodingPool: never more sessions than the limit read, in the order asked, no
  slot idle while somebody waits.
* Hub: one answer a prompt, from the surface that holds it; a surface's picture
  is the hub's, however late it attached.
* DaemonLink: what was open is open again after a reattach, once.
* Journal, Ledger: what a crash leaves reads back as a prefix of what happened.
* GitTrees: what a cast leaves in a tree stays there, or on a branch, whichever command fails.
* Cutter: a cast asked to stop is stopped, and nobody else's process is.
* Engine, Ledger: a resumed cast gets back for each call what that call returned, and
  does not do again what is on record.
* Lineage, Follower: a terminal stays until every cast its steps led to has ended, no longer,
  and leaves with the worst of their codes.
* Terminal: every line once, in the rite it belongs to; an answer goes to the question
  it was typed at, and a prompt a window has claimed is not asked.
* Windows: what waits for an answer can be found, a failure is gone only once seen.

Section 5 has what the code does not keep of these.

## 2. The modules

| Module | Models | Uses |
|---|---|---|
| `CodingPool` | CodingPool and the limit it reads | |
| `Circle` | Circle, Awaits, Leasing over git in one step, the casts' processes and connections, purify | |
| `CircleRestart` | the daemon stopped, killed and started again, with marks, the journal's queue and LeftBehind | `Circle` |
| `Views` | the views a hub keeps and what each message does to them | |
| `Hub` | the daemon's hub, its connections, the windows with a hub of their own | `Views` |
| `Link` | DaemonLink and the daemon's end of its connections | `CodingPool` (INSTANCE) |
| `Journal` | what is kept on disk of one cast | |
| `Engine` | a cast's steps and mediums, the record of them, a resume off it | `Journal` |
| `Cast` | one `vekna cast` up to its exit code: lineage and follower; the cutter | |
| `TreePool` | what a pool of worktrees promises of the work in it | |
| `GitTrees` | the pool command by command; implements `TreePool` | `TreePool` (INSTANCE) |
| `Screen` | what a terminal shows of the casts it follows | |
| `Terminal` | the questions asked at it | `Screen` |
| `Book` | a window: the page it draws, keys, lines typed | |
| `MC...` | instances for TLC, one for each module that has a run | |
| `CodingPoolProofs` | theorems about `CodingPool` | `CodingPool` |
| `CircleProofs` | leases, processes, the queue, types, the limit, spawns and answers, over restarts | `CircleRestart` |
| `GitTreesProofs` | the refinement of `TreePool` | `GitTrees` |
| `EngineProofs` | `NoHole`, `ReplayedOwn`, `NotRunAgain`, `ThreadKept`, `TypeOK` | `Engine` |
| `HubProofs` | `ClaimsMatch`, `ClaimsTold`, `ClaimKept`, `PictureFollows` | `Hub` |
| `LinkProofs` | `TypeOK`, `QueuedAsTold`, `EveryWaitCanEnd`, `NothingLeaked` | `Link` |
| `TerminalProofs` | `AskedUnlessClaimed`, `AnsweredAsHeard`, `OneTalks`, `ShownOnce` | `Terminal` |
| `CastProofs` | `CodeTold` | `Cast` |

Everywhere, what the code does between two `await`s, or in the handler of one
frame, one key or one event, is one action.

### CodingPool

`held` is `_held`, `waiting` the list `_waiting` as a set of entries with the
number each arrived under (the list is only appended to and filtered), `limit`
what the config says. `Requested`, `Released`, `Ended` are the three handlers,
each with the `_grant` it ends in; `Edited` is the user's editor. `Granted` says in
one formula what the loop of `_grant` does: an entry is granted exactly when there
is room once all before it are. A request that comes joins the list before the grant, as
in the code, so it is granted at once only where nothing older waits; `NoOvertaking` is over all the
step grants, what came with it included.

### Circle

The variables come in the groups of the code's objects: the cast's process
(`proc`, `cwd`, `awaits`, `heard`: the answers on the wire to it), its record in
the journal, its view in the hub (`status`, `onChildren`, `blocked`), the circle
(`line`: each cast's place in `_queue`; `task`: where `_run` is for it; `ended`:
the cache of Awaits; `left`: LeftBehind), the leasing (`needs` and `leased`:
`_needs_tree`; `lock`: the asyncio lock's holder and line; `asked`: the `held` the
holder read), git (`pool`, `parked`, `dirty`), the connections a cast has lost and the daemon not read to
their end (`unread`), and the mark of each process (`mark`: none, being written, written).

An action is one handler, or one task from one `await` to the next. `Circle._start`
ends most of them, so it is an operator, `Start`, taking the state the handler
has come to: first `Delivers` (the loop over `due`, in any order of views, each
reply while a slot is free), then `Launched` (the loop over the queue). A reply sent
frees its parent to run, and counts in the very loop that sends the next.

A task is `launched`, then either `probing` (spawned where it was asked from, to say
whether it needs a tree: `AsksForTree` is its exit code) or `leasing`; it is
`asking` while git is awaited under the lock, `preparing`, `spawned`, and
`releasing` or `failing` while it waits for the lock to give the tree back. With its spawn (`Spawns`) the
process lives, and a thread begins to write its mark: it has when `Marks` says so, or cannot, and the process
is killed; the task ends no sooner. `Probed`,
`Releases` end it with `Finish`: a view still queued is failed, and `Start` runs.
`WaitsForTree` is the other end: back in front of the queue, and no `Start`, as in
the code.

A cast's process is `silent` from its spawn to its hello, `attached`, `detached`
while its connection is lost, `leaving` after its goodbye and until its exit.
`Drops` is a lost connection, at the cast's end alone; `Noticed` is the daemon coming to the end of what was
written on it and making up a goodbye, of whatever the view says by then; `Reattaches` is the hello and the
awaits said again, before or after that. So the view of an attached cast may be closed, its awaits forgotten
and its slot not counted. What a ritual does in between is
`Ends`, dirtying its tree or not; a cast ends once nothing it awaits is open.

`InASlot` is who is at work by the processes themselves, attached, silent or cut off, or has a task.
`Overlooked` names the three ways the daemon loses sight of one, and `StartsWithinLimit` is of the others: a view
closed, waits given up while cut off, and a process left without a mark. The first is no small
exception: section 5. `AwaitHeld` says the same of awaits: one is held by the daemon, or answered, of every attached cast
but one whose view was closed (`Closed`).

Names: `Root` stands for the directory casts are asked from, `blocked[c] = Root`
for "nothing blocked", `leased[c] = Root` for "no tree yet".

### CircleRestart

`Stop` closes the socket: every connection drops and is read to its end, each with its goodbye, and
`_start` runs in each of them: a stopping daemon can still launch. Once all are, `Stopped` cancels the
tasks and gives back what `except BaseException` gives back; `Killed` does neither.
Of the marks being written, those are there that the thread got to before a stop ended the task, and none after a kill (`Forget`).
`Serve` is the next daemon: views for what the journal has queued, less what the
marks say is alive (`LeftMarked`). Casts go on meanwhile: hello to nobody, exit, reattach.

A cast whose mark was not written is spawned again beside itself. `proc` has one process a cast, so a behaviour
ends with that step, which `twice` records (section 5).

### Views, Hub

A view (`Views`) is a record of what `CastView` holds that a surface can act on:
status, open prompts in their order, who claims each, rites with the number of
lines kept of their output, awaits. `Applied` is `Hub._apply` on one message, used
by the daemon's hub and by each window's.

`Hub` is the daemon's: `views`, `claims`, `surfaces` are `_casts`, `_claims`,
`_surfaces`. A cast is the environment here: it says on its connection what its
link says (`saying`, in order), loses it at its own end (`Drops`), and comes back
with everything still open said again (`Attaches`, as `Backlog` in `Link`). The
daemon reads a frame of a live connection (`Reads`), or finds it gone and makes up a
goodbye (`Disconnects`); an older connection may be found gone only after a newer
one said hello (`stale`). A window opens, is replayed every view, is sent what
changes, in order; `picture` is its own hub with what it was sent applied. It asks a
prompt in a dialog, claims it as it does, types an answer, dismisses it, dies. The
daemon finds a dead window out by writing to it, in the middle of a fan-out or at
its own read (`Detaches`), and lets go of its claims either way.

`ClaimsTold` relates the cast's side: it was told of exactly the claims there are
on its prompts, after any drop. `PictureFollows` says that a window that applies what it was sent
has what the hub has, but for what an end settles.

### Link

`at` says where each thing a cast waits on has come to, `conn`, `connecting` its end of
the connection, `up` and `down` the two queues of each connection it ever opened.
Its ends are lost apart: `Detached` at the cast, when it cannot read a frame or
the other end is gone; `LosesConnection` at the daemon, when it cannot, or comes
to the end of what was written. `Hears` and `Reads` have a disjunct or a case for each
frame. The daemon's goodbye for a lost connection is made up by the handler of that
connection, so an older one can close the view of a newer.
One event loop reads what an older connection holds before a newer one's hello: only
an older connection's end may come late. Enqueues are settled by a task (`Settles`), so that an answer
may come after the connection it was asked on; `Stops` and `Serves` are a daemon
that goes and the next.

The slots are `CodingPool`'s own actions, through `INSTANCE`: `Of` and the open connections make its requests.

`NothingLeaked`: what the daemon holds for a cast is the cast's still, or the word that ends it
is under way. `EveryWaitCanEnd` says of an
attached cast whose view runs that each wait has the frame, the entry, the task
or the claimed slot that will end it. It has a condition, the view says running,
because a stale goodbye takes that away (section 5).

### Journal, Engine

`Journal` is one cast's directory: `record` the last `run.json`, `log` the rite
frames in `events.jsonl` as a set. Any write may be refused (`Refuses`); `gapped` and
`unmarked` are the daemon's memory of what it lost, forgotten at a restart.

`Engine` runs a ritual given as data: for each payload the calls of the step that
takes it, in branches run one after the other, together or in a race, and where the
step goes by the result it reads. `Enters` is the loop of the trampoline up to
the step's first call, with the visit budget, and the recovery asked once it is
spent; `Calls` is a medium up to the `await` in it, `Returns`, `Fails` its end;
`turn` holds the loop with a branch until it awaits, `Cuts` is a timeout, a lost race or a cancel, `Verdict` what
the step comes to once its branches have ended, `Dies` the process. Each event goes into the cast's `grimoire` and, when
attached, to the journal, as the frames of the link do. `Resumes` is a new process on the
same ritual with a ledger read off the journal: `Take` finds a recorded entry for a
rite by id and name, `Missed` is the end of the replay. The
ledger's answers are history to the properties: `recorded` keeps what was there.
`sessions` is the book of agents' threads, filed as a call returns, replayed or live; a `focus` is taken to report the session it was given.

### Cast

The root's process: `Drives` decides from its arguments what it does (asks for a
tree, is refused, starts), `Enqueues`, `Takes`, `Returns` are a child queued and
the answer, `Closes`, `Stays`, `Wakes`, `Leaves` its end. `wire` is the follower's
connection, on which hellos, enqueues and goodbyes of the other casts come in
order; the answer to an enqueue comes on the cast's own, before or after.
`heard`, `ended`, `expected` are the lineage's three tables and `done` the event
`until_settled` waits for. `Descends` is the walk up through the parents heard of, as the least set it
reaches down from the root. `Cuts` is the cutter's task for this cast: it
asks, then signals, then kills, looking each time at the view. What the steps
heed, a cancel, SIGINT or SIGKILL alone, is chosen freely. The cast's own connection may be lost under all of
it (`LosesConnection`, `Reattaches`, and `GoneNoticed` for the goodbye made up for the old one): what an enqueue
was to answer is lost with it, and a view that no longer says running ends the cut, as in the code.

`LetsGo`: a terminal that stays is let go of, given that the casts it stays for end.
`CodeTold`: it says all is well only when every cast its steps led to has ended well.

### TreePool, GitTrees

`TreePool` has six variables: the work each tree holds and no branch does, half-open
operations, which trees are parked, leased, what rescue branches hold, and
what is asked. What is in a tree is changed by the cast in it, or by
hand while nothing is asked. A purify throws away what is in trees not leased, one that saves only what a branch keeps by then.
A tree is leased, or switched, only bare.

`GitTrees` has every git command of `worktrees.py` as an action, which may fail, and
`Dies` between any two. The index, the working copy, commits on a rebase's detached head, the open
operations (a merge, a rebase), the marker of `prepare`, and the snapshot commit of a save are told apart. The mapping
(`Pool`) takes `work` to all of a tree's changes that no branch holds. `PromiseKept` is
`Pool!Spec`, the initial state and every step.

### Screen, Terminal

`Screen` has one `Tail`, the last line written, and a renderer's tables for all
casts: `open`, `sink` (in whose buffer a rite writes), `buffer`, `printed`. `Renders`
is `Renderer.render` of one event; `Does` brings the own cast's, `Hears` a followed one's off its
connection, `News` drops what was shown, `Attaches` and `Replayed` begin and end
what is said again.

`Terminal` adds a task per question in line for the renderer's lock. `Turn` gives it the screen,
`Asked` writes it and takes over the reading a withdrawn question left, unless the loop knows of its line. `Reads` is the
thread's line, `Told` the loop's turn to hear of it (`call_soon_threadsafe`), `Answered`,
`AskedAgain`, `Withdrawn` what the task makes of it. `AnsweredAsHeard` is what that keeps; `AnsweredAsTyped`, which its
comment means, it does not.

### Book

The views change as a daemon's messages can (`FromDaemon`) between any two steps of
the window, the late goodbye of an old connection (`HearsLate`) and what an attached cast says after it
among them. A step of the window is a repaint (`Repaint`: the lines built anew, the cursor kept on its entry
or on the nearest above, failures on the page seen), a key, a line typed, a highlight that
was posted for lines now gone, or for the first line of a tree built anew, before that of its cursor. `Contents` is the tree of projects, rituals, casts and rites that
`contents.py` makes, folded, counted and scoped as there. What a key writes to the daemon is in `Hub`, a cancel in `Cast`.

## 3. The runs

Properties are stated where their module ends, each with what it is about. The
instances are a few of each thing, chosen so that the cases differ.

| Run | Instance | Distinct states | Shows |
|---|---|---|---|
| `coding_pool` | 2 casts, 2 requests each, limit 1, 2 or none, 6 asks | 61 thousand | types, `GrantsWithinLimit`, `NoOvertaking`, `NoIdleSlot` |
| `circle_trees` | `a`, `b`, `d` needing trees, `h` typed by hand; 2 trees, 2 slots; 1 drop, 1 purify | 3.70 million | types, one living cast a tree, blocked trees not in use, casts start in order |
| `circle_awaits` | `a`, `b`, `d`, `a` awaiting `b`; 1 tree, 2 slots; 1 drop, its goodbye late or not, 1 withdrawal; fair | 53 thousand | parents first, everything queued starts or fails, every await ends |
| `circle_restart` | `a`, `b`; 2 trees, 1 slot; 1 stop, 1 kill, 1 drop, 1 withdrawal | 2.01 million | leases, the queue, awaits and the limit over restarts; nothing that is marked spawned twice, no answer before its child ran |
| `hub` | 1 cast, 2 prompts, a rite, an await; 2 windows; 1 drop, 1 late goodbye, 2 things opened, 2 acts | 1.58 million | claims, what the cast was told of them, and the windows' pictures stay one; a claim ends by its holder's word, or with its holder |
| `link` | 1 cast, a prompt, 2 slots of 1, an enqueue, an await; 2 connections, 2 faults | 1.19 million | every wait can end, nothing is leaked, an enqueue is queued as its caller was told |
| `engine` | two shell calls together, an agent's two calls under a timeout, a prompt raced with an agent's; 3 steps, 2 failed writes, 1 lost daemon, 1 resume | 1.25 million | what is replayed is the call's own, what is recorded is not run again, the log is a prefix of what was done, a thread is carried on as before |
| `cast` | a child, its child, a stranger; 1 lost connection, of the follower's or the cast's own; fair | 401 thousand | the code told, the terminal let go of, a cut that lands |
| `git_trees` | 2 trees, 2 changes, 3 open merges or rebases | 524 thousand | `GitTrees` implements `TreePool` |
| `window` | 2 casts in 2 projects, 2 rites (nested, or each the other's parent), a prompt; 4 messages, 2 acts, 1 late highlight | 2.16 million | what waits can be reached, rites are drawn once |
| `terminal` | 4 own rites, two of them side by side, 1 followed; a prompt of each; 1 lost connection, 4 askings, 5 acts | 3.64 million | lines shown once and apart, an answer to the question on the screen as the loop hears of it, what nobody claims is asked |
| `tree_lost` | 2 casts, 1 tree, 1 stop, 1 drop | ends in a counterexample | a statement of the code's own docstring that the code does not keep (section 5) |

Every deadlock check is off: where every cast has ended, or the window is
shut, and every bound is used, the system rightly does nothing more.

**Bounds.** Each is a CONSTANT that caps how often the environment does something (drops,
withdrawals, purifies, stops, kills, faults, failed writes, keys, askings), never how the code
responds. The hazards listed are races of one such event with the steps of a
handler, or of two of them, and all their orders are explored. Three contenders for two trees and two
slots are the fewest with a cast running, one waiting for a tree and one behind
it in line; two windows the fewest that compete for a prompt, and two prompts for a window's
choice between them; two connections and two faults the fewest where the daemon and the cast each lose
one end, or one loses the second while everything is being said again; one child of a child the
fewest where a terminal must hear of a cast from one it did not queue. Each cast runs once, as in the
code, where ids are unique.

**Fairness.** `Circle`'s `Fairness`, for `circle_awaits`: weak for each task of the daemon (the
event loop comes round to it, git, `prepare` and the thread of a mark return), for a process to say hello or exit, for a message
on the wire to be heard, for a lost connection to be read to its end, and for a detached cast to reattach: all are loops without conditions. Strong
for `Ends`: a ritual that keeps being free to end does; what never ends by its own
will is the ritual's, not the daemon's. `Cast`'s `Spec`: weak for the process's
own steps and for the cutter's timers, and for the other casts to start and to end, which a
terminal that stays depends on and cannot hurry. Its own steps end only if they choose to, or heed a cut: `CutLands` does not assume it.

**What the liveness results need.** `QueueDrains` and `AwaitsAnswered` are of behaviours in which no
tree is let go of while a lease that has read it as held asks git (`[]AskedIsHeld`), and of casts whose views a late goodbye has not
closed (`Closed`). Without the first `QueueStarts` is refuted, without the second the awaits of such a cast are never
answered (section 5). On `circle_awaits` they hold, and not in general: with two parents, or a chain of
awaits, they fail (section 5), and with one slot for a queue whose head waits for a tree: a slot
frees when a cast goes back in line, and nothing is started in it until the next
event.

**What the others need.** `ReplayedOwn` and `NotRunAgain` are claimed of rituals whose concurrent branches
make one call each and where no step takes the `Failure` of one with a timeout (`Repeatable`, which `MCEngine` assumes of its own), `ThreadKept`
of those among them where one branch of a step at most calls an agent (`OneAgent`, assumed there too); `AskedUnlessClaimed` says that a claimed
prompt goes quiet of the cast's own prompts only; `AskingReachable` that the line view lists who asks first
of casts its view says run; `StartsWithinLimit` is of those not `Overlooked`, `SpawnedOnce` of processes that are marked; `PromiseKept` of trees nobody works in
without a lease, and of git commands that end with the daemon. Why is in section 5.

## 4. The theorems

Each is proved for every value of the constants that its module's assumption admits: any
number of casts, trees, windows, prompts, rites and connections, and any number of the drops,
failures, kills and restarts that the runs bound.

| Assumption | What it says, beyond types and bounds |
|---|---|
| `PoolAssumption`, `CircleAssumption`, `RestartAssumption` | finitely many casts and requests; limits of one at least, or none; no cast awaits itself |
| `GitTreesAssumption` | trees are 1, 2, ..., n; the markers for "none" are no tree and no command |
| `EngineAssumption`, `VisitsAssumption` | the ritual is well formed: its steps call mediums there are; a bound on visits is a number |
| `Replayable`, of `Engine`'s theorems but `NoHole`'s | the ritual is `Repeatable`; "none" is no branch, no cut and no record |
| `OneAgent`, of `ThreadKept` besides | of the branches of a step one at most calls an agent |
| `ViewsAssumption` | finitely many casts and things opened; an id is of one cast; a prompt is no rite and no await; "none" is no window, no prompt and no view of a rite |
| `LinkAssumption` | finitely many casts; what is waited on is of one kind |
| `ScreenAssumption` | rites are called by rites of the same cast, and none by itself, however indirectly; "none" is no rite and no set of rites |
| `TerminalAssumption` | a prompt is the cast's own or of a followed one |
| `CastAssumption` | this cast is none of the others; "none" is no cast and no status |

A refusal of an assumption would be a state the code does not have: ids are unique, a rite's
caller is older than the rite. `Engine` rests on its ritual being data, as everywhere.

**The circle** (`CodingPoolProofs`, `CircleProofs`).

* `InvCorrect`, `GrantsWithinLimitCorrect`, `NoOvertakingCorrect`, `NoIdleSlotCorrect`. The
  invariant is the types, distinct arrivals and finiteness; the three step properties, over the
  requests that come in the step as well as those that waited, follow from one lemma on `Granted`: the set granted is downward closed in arrival, fits, and either
  empties the list or fills the slots.
* `LeasedOnceCorrect`. `LeasedOnce` is not inductive: that the tree found belongs to nobody
  rests on `asked`, read before git was awaited, still being whole when git returns. `LeaseInv`
  adds that who asks holds the lock and knows every lease, that a purify at work holds it too,
  and that a tree leased is of the pool and has an entry.
* `OneCastPerTreeCorrect`: of processes, not of entries. It assumes `HandRoots = {Root}`, that
  nobody types a cast inside the pool: nothing in the code stops them (see the hazards).
  `ProcInv` ties a living process to its task: alive only under `probing`, at the root, or
  `spawned`, in the tree its entry holds.
* `QueuedOnceCorrect`, `StartsInOrderCorrect`. `QueueInv` says the places are 1, 2, ..., n
  without repetition, which needs counting: who leaves the line moves up those behind by as many
  as were ahead (`WithoutPlaces`). Nobody in line is typed by hand or has a task. A launched cast
  stood before everyone who stays (`LaunchedInOrder`): had one before it stayed, more would stand
  before the launched than there are slots.
* `TypeCorrect`, `BlockedNotLeasedCorrect`, `StartsWithinLimitCorrect`. The limit is a count:
  `LaunchedNumber` maps the launched to their ranks, under the free slots; `StartWithinLimit`
  adds the parents answered before them (`Unparked`), which `Delivers` never lets pass the slots
  free then; `SlotInv` and `InASlotCounted` show that a process at work and not `Overlooked` is always one that was
  counted, under its task, by its view, or by the mark it was left with (`Counted`).
* `ParentsFirstCorrect`. A launch needs a slot free after the answers, and each parent answered of its last child takes
  one if its view runs by then (`UnparkedCounts`). So no answer was left for want
  of a slot, and by `ViewAsRecord` those not due are of casts queued or running.

**The circle over restarts** (`CircleProofs`). The same invariants, taken through `Stop`,
`Stopped`, `Killed` and `Serve`, with what a daemon that goes leaves to the next.

* `LeasedOnceOverRestarts`: a daemon that goes forgets every lease at once.
* `QueuedOnceOverRestarts`, `StartsInOrderOverRestarts`. `QueueInv`, and that whoever waits was recorded as queued
  (`QueuedWasAsked`) and a daemon that is down has neither line nor tasks (`DownIsIdle`): the line read
  back is a line like any other, in whatever order.
* `SpawnedOnceCorrect`. `SpawnInv`: whoever is on the way to a spawn, in line or in a task short of it,
  has no live process with a mark. It holds when the line is read back because of what lives while no daemon is up,
  what is marked is known (`DownIsMarked`), and the marked are not queued again. Alive without a mark (`Stray`) is only
  what a daemon left between a spawn and its mark.
* `AnsweredOnceRunCorrect`. The answers go by the views and the journal, and the property speaks of the
  line as well: `AnswerInv` says that a view says
  what the record does, that only what was queued or heard of is awaited, and that an ending kept for want of a slot is of a cast that is not to start.
* `StartsWithinLimitOverRestarts`: `SlotInv`, which is of every cast up to the step that spawns one beside itself, and that with no daemon there is
  no connection left to read (`DownIsQuiet`).
* `ParentsFirstOverRestarts`: needs nothing more.
* `TypeOverRestarts`: `RestartTypeOK`, from the invariant of `TypeCorrect`.

**The trees** (`GitTreesProofs`). `PromiseKeptCorrect`: `Spec => PromiseKept`, the initial state
and each command mapped to a step of `TreePool` or to none. `TreesInv` is what each
command counts on and a command before it read: a tree found bare is bare until it is switched
(`ReadStill`), what a save throws away is in the snapshot or on a branch by then
(`SavedFirst`), a tree not listed holds nothing.

**The record and its replay** (`EngineProofs`). `NoHoleCorrect`: the log is a prefix of
the grimoire, and while a daemon hears of it and knows of no gap, all of it. That nothing is logged past what is missing rests on no two events being the
same, and this on the rites having ids of their own: of the step, of the call and its
branch (`SaidOnce`, `CallsOpen`, `StepsApart`).

`ReplayedOwnCorrect` and `NotRunAgainCorrect` compare two runs of a ritual, the one recorded and the one
that replays it, of which a state holds only the second and what is left of the first. The invariant,
`ReplayInv`, is therefore of three parts. `RunInv`: what any run has said is `Legal`. The calls
of a step are a row (`At`), each rite is one number on from that of the place before it, and a row is entered
from the last of the row before it, or from where a failed one stopped (`Enterable`). `Recorded`: what a resume found is of some run that was
`Legal`, which is all that is kept of it. `Spent`: the ledger is the record for as long as every
call was `Found` there as itself, and is empty from the first that was not, before which
nothing ran. Then two runs that gave the same so far have the same number at the same place
(`BegunAlike`, `NextAlike`): by the rows inside a step, and between steps since both
went by what they read. A rite found by number is then the call's own. TLC checked `RunInv` and
`Spent` on the instance of `engine` before they were proved. `Repeatable` is what a run's shape
rests on: with two calls in each of two branches the order of the numbers is the scheduler's, and a step cut by
its timeout may go elsewhere than its replay (section 5). `TypeCorrect` is from the same invariant.

`ThreadKeptCorrect` compares the call of a resume with the same call of the cast resumed, which was cut
short and so is not in the record. What it carried on is: `ThreadInv`, beside `ReplayInv`, says that the sessions
held are those that agents filed last, by the numbers of their rites (`SessionsFiled`); that each call
carried on what was filed last before its own rite (`CarriedIn`), which needs that while an agent is called no
other is (`AgentLast`, by `OneAgent`); and that as long as every call was found, the resume's rites have the numbers they had
(`Aligned`) and named the sessions they named (`SameSessions`), so that the two runs filed alike before the
call (`FiledAlike`). A failed or raced call filed nothing in either. A resume turns what it has said into the run
resumed (`Resumable`), and so it holds from any resume to the next.

**The hub** (`HubProofs`). `ClaimsMatchCorrect`, `ClaimsToldCorrect`: from `HubInv`. The claims table
and the views agree because a prompt stands once in its view (`WindowTypes`, `CastTypes`,
`OpensInOrder`); that the cast was told of exactly the claims there are is about the words
still on their way, in order, on a connection that is the live one (`ToldLive`, `LiveLinked`),
since an older one's goodbye may come after the newer's hello. `ClaimKeptCorrect` is of a
step, and needs besides what each of its frames means for a claim (`ClaimsEnd`).

`PictureFollowsCorrect`, that what a window shows is what the hub holds, is of every prefix of every
stream: a window attached in the middle of a cast, a hello replaced by another, a fan-out that lost windows on its way.
`PictureInv`, beside `HubInv`: each view is `Whole`, with each prompt in it once; the views of a window that is up and
still in `surfaces` are whole and `Agree` with the hub's, which is to be equal, or to have ended the same way with the same
rites (an end takes away prompts and awaits that a surface no longer shows); a window yet to open has none. Each kind of message keeps two views
that agree in agreement (`AppliedAgree`). The replay is the other half: `ReplaySaid`, that the messages made of a set of views,
applied to none, give those views as shown. It goes field by field (`RitesAllSaid`, `PromptsAllSaid`, `AwaitsAllSaid`), then
over the stages of one view (`StandsSaid`) and over the casts. `AllApplied` is a
recursive function; that a claim on it goes through a sequence is by a least counterexample to it (`AllAppliedSteps`, `InStages`).

**The link** (`LinkProofs`). One invariant, model-checked before it was proved, on the instance of
`link` and on a larger one. `Base`: the types, the connections each end has (the newer is the only
one the daemon hears of), and what was said to have begun. Over it, for each thing waited on: an
enqueue is in one place only (`EnqueuedOnce`: unread, in hand or told), which is
`QueuedAsTold`; an open prompt, slot or await was said on the connection of now, or is yet to be
said (`Heeded`); what the daemon holds is accounted for by what the cast holds or by a word
under way (`Accounted`, `Closing`). `EveryWaitCanEnd` and `NothingLeaked` follow.

**The terminal** (`TerminalProofs`). `AskedUnlessClaimedCorrect`: askings are apart and
known (`AskingsApart`, `AskingsKnown`): the task that a claim is to cut is the one in line for
that prompt, so that a claimed prompt has none and an unclaimed one has its own.
`AnsweredAsHeardCorrect`: it is inductive given the types. `OneTalksCorrect`: the renderer stands
at a prefix of what each cast recorded, a connection lost or replayed notwithstanding
(`RecordedInOrder`, `HeardInOrder`), so that the rites open are closed under their callers
(`OwnRooted`, `Rooted`); one that begins finds among them what would talk beside it.

`ShownOnceCorrect` is of the text on the screen: no line of a rite is there twice, in the order
said, and of the cast itself none is missing, whether it was printed as it came, kept by a link to be printed at the end of it, or taken back and
printed under it. `ShownInv` says it of each cast and of its record so far: the rites known and the
lines told are those of the prefix heard (`KnownAsTold`, `AllOwnShown`, `AllFollowedShown`), each rite's
lines are in the order said (`AllInOrder`), and the renderer is `Sound`: nothing is on the terminal of a rite that writes to
another's buffer, a buffer has only lines of those that write to it, and the line that can be taken back is
its rite's last. Each of the renderer's four operations has its lemma
(`PrintsSound` to `EndedSound`), and each event is a few of them in turn (`EventSound`, `LineFollows`).
`Whats`, what is said of a set of records, is recursive on sets of numbers: that it is what each record says, in
order, is by a least counterexample (`WhatsThrough`), since a recursive function is unfolded by its own
equation, and a set of numbers that is not empty has a least one.

**A cast's exit** (`CastProofs`). `CodeToldCorrect`. The answer of an enqueue and the fan-out come
on two connections. `CastInv` says that while a terminal stays it has heard, or has on the
wire, the hello of each cast that descends from it, and *before* the word that the
one which queued it ended well (`TheyTell`); who is said to have ended well did (`EndedWell`); and a
cast is there only after the one that queued it (`Born`). Then, where all is settled and nothing failed,
the casts heard of are closed under who queued whom (`WellIsWell`).

**Model-checked only.** `AwaitHeld`; `Book`'s `AskingReachable` and `RitesDrawnOnce`, of a page laid
out from the views by nested filters, folds and a walk of a tree. A theorem of the library that takes an operator, as
its induction theorems do, cannot be used; where a proof here needs induction over numbers, it takes a recursive function and the
least number at which the claim fails. The liveness
properties (`QueueDrains`, `AwaitsAnswered`, `LetsGo`, `CutLands`) are out of TLAPS's reach.
`TypeOK` of `Hub`, `Cast`, `GitTrees`, `Book` and `Terminal` are in no run; `RestartTypeOK` is in none either, but
is a theorem.

## 5. Where the code and its words part

One is kept as a run that ends in a counterexample; `PROJECT.json` quotes the line.

* `tree_lost` — A cast left behind that reattaches and drops again holds its tree by no view, no
  mark considered and no lease: the next lease hands the tree out under it.

Some are stated as properties beside those that hold, for what a comment or a page of `docs/` says, and TLC refutes
each once it is added to the configuration named.

| Statement | Of | Refuted on | By |
|---|---|---|---|
| `EveryRunningCounts` | `mills/circle.py:266` | `CircleTrees`, `CircleRestart` | A cast reattaches before its old connection is read to the end; the goodbye made up for that one closes its view (`links/socket_server.py:231`), and another is started over the limit |
| `AwaitHeld`, without `Closed` | `mills/circle.py:90` | `CircleRestart` | The same goodbye clears what the view awaits: the parent is attached, waits, and is never answered |
| `AskingFirst` | `docs/cli.md:265` | `Book` with `MaxHeard = 5` | The same again: what that cast asks then is listed with the casts that have ended (`gates/cli/screen.py:71`) |
| `SpawnedAlone` | `links/spawner.py:86` | `CircleRestart` | The daemon goes after a spawn and before its mark is written: the next one spawns the cast beside the process that runs |
| `QueueStarts` | `mills/circle.py:365` | `CircleAwaits` with `h` typed in the tree: `Cast = {a, b, h}`, `Hand = {h}`, `Says = {a, b}`, `HandRoots = {1}` | A cast typed in a pool tree ends while a lease that read its tree as held asks git: the queued cast goes back in line, and nothing starts the queue again |
| `AnsweredAsTyped` | `lexicon/_links/standalone.py:218` | `Terminal` | A line read as its question is withdrawn, which the loop hears of once the next is asked, answers that one |
| `ClaimedNotAsked` | `docs/cli.md:94` | `Terminal` | The done callback of a cancelled asking forgets the new one (`lexicon/_links/follow.py:259`): the next claim stops nothing |
| `FailureStays` | `gates/cli/tui.py:474` | `Book` | A repaint comes between the two highlights of a tree built anew: the failure on the page counts as left (`:484`), though nobody moved |

The others were met while modelling, most of them as counterexamples to a stronger
form of a property here, and are what the conditions on it leave out.

Daemon:

* A cast waiting for a tree stands in front of the child that the tree's holder awaits. The slot it gave
  back is not offered to the child (no `_start` after `appendleft`), and no later event comes: all wait for
  ever. `docs/mediums.md` says a sweep can await a child even with one slot, and keeps its tree.
* The check that fails casts when every tree is held by one awaiting a cast that waits
  for a tree looks one await deep; through two it sees nothing.
* Cancelling the tasks at a stop runs their release: a clean tree is parked under a cast that goes on working in it.
* A cast being probed when the daemon stops is not queued again by the next one,
  exits asking for a tree, and is heard by nobody; only a third daemon picks its record up.
* After a stop, a parent that reattaches before its child is told that the child
  ended, off the record the stop wrote.
* The late goodbye of the table closes the view's prompts as well: the cast waits
  on what nobody shows (`mills/hub.py:146`, `links/socket_server.py:229`). It also makes the coding pool forget a slot the cast waits for, and
  ends a cut of the cast, which is then asked to stop and not killed.
* A frame over 64 KiB cannot be read by the cast: it detaches, reattaches, is sent it again.
* `vekna stop` returns when the socket stops answering, before the lock is let go of, so that a start right after may refuse
  (`inits/daemon.py:197`).
* The hello of a reattach writes a record without the gap, though the log still has it (`links/journal.py:44`); and one that
  fails skips an append without marking a gap.

Record and replay:

* Two branches of a group that make more than one call each are replayed in another order than they ran, and
  a branch may be given the other's record, or run a recorded call again (`lexicon/_mills/ledger.py:22`).
* After a race whose loser was cancelled, or a failed call that the step recovered from, the
  ledger is spent at the miss: the calls after it run again, recorded or not.
* A step cut by its timeout just as the last of its calls returned goes to the step that takes its `Failure`. Its
  replay, whose calls return at once, goes on by the result, and a call after it may be
  given the record of another of the same name (`lexicon/_mills/bounds.py:14`).
* Two agents' calls at once and then one that carries on without a key: `latest` is the last
  to end in the first run, the last begun in a replay (`folio/coding/_mills.py:225`).

Terminal:

* A claim heard before a followed cast reattached
  still counts after it (`lexicon/_links/follow.py:248`). The question of a followed cast that was killed
  stays on the terminal, and with it the lock (`:219`).
* Output said while a followed cast's connection was lost is never shown.
* A cast that lost its connection for good counts as ended badly even when it comes back and ends well, after its terminal left.

Windows:

* Folding the line of a rite does nothing, where `docs/cli.md` says that a fold hides everything under its line.
* The line view reads a number typed against the list as it is, not as it was painted.
* A failure is counted as seen while its cast still runs, when its line was highlighted before.

## 6. The plan

Modelled and checked: all the modules of section 2. Proved about: all but `Book`.

Left to prove:

1. `Circle`: `AwaitHeld`, which is close to inductive with `SlotInv`.
2. `Book`: `AskingReachable` and `RitesDrawnOnce`, which need first what the folds that lay out a page
   return for any views.

Left to model: the daemon's lock and summon against a second start; edits of `processes` and `worktrees`
while casts wait; what two processes of one cast do to its view and its tree.

## 7. Not modelled

Loading and annotating rituals, the trial harness and the parsing of the command line: reflection and
test code, without state the others read. The encoding of frames, text, layout, colours and wording; the output pane of
a window. The log a cast's output goes to. Time: a timeout is a step that may happen. What a ritual
computes: only its calls, its tree, its awaits and its end are seen.

Known abstractions, by module:

* `Circle` has a lease, a release or a purify of git in one step; `GitTrees` has what is in it. The queue a
  daemon starts with is in any order (the code: the oldest record first).
* `CircleRestart` has one process for each cast, and ends where a second is spawned beside the first (`twice`): what the
  two would do is not followed.
* `Hub` hears of a cast's own connection at once what the daemon says; `Link` is about that. What the daemon still reads of a lost
  connection it reads in `Hub` before the loss, from which it cannot tell it, and a part may never be read. What it reads of an old
  connection after a newer one's hello is only its end; a daemon held up for the two seconds of a reattach with more
  unread than one read takes would be the exception.
* `Engine` counts a rite that only reports as ended well.
* `Cast`: a goodbye as "disconnected" is final for the lineage, as in the code; process ids are not used again.
* `GitTrees`: git's own processes end with the daemon that started them, and nobody writes in a tree
  not leased while it is worked on (as `held` promises). A `prepare` that outlives its daemon, a marker removed by
  hand, and commits made on a clean detached head, which parking leaves on no branch, are not modelled. A save that
  fails leaves what it found, if not always the index.
* `Book`: scrolling and the text of output are not modelled.
* `Screen`, `Terminal`: notifications, the channel of an unattended cast, the terminal's echo and a follower that
  closes with questions on the screen are not modelled. Lines typed ahead are the terminal driver's.
