# wkWebControl: a TLA+ model of the control path, with proofs

wkWebControl lets the players of a Worms Armageddon (WA) match drive their teams
from a phone. Three programs take part: a DLL inside WA, a Python backend, and a
web page. This directory models the parts of them that keep state and act
concurrently, checks the models with TLC on small instances, and proves the
safety properties with TLAPS for every value of the constants. Paths below are
relative to the repository.

    browser ── /ws/control, /ws/state, /api/claim ── backend ── TCP, JSON lines ── DLL ── WA's task messages

## 1. Inventory

| Component | Source | State | Operations | Talks to |
|---|---|---|---|---|
| DLL control state | `dll/src/ControlState.*` | five levels, `select_weapon`, `jump`, under a mutex | `apply`, `read`, `clear` | written by the IPC thread, read and cleared by the game thread |
| DLL game hooks | `dll/src/W2App.*`, `entities/CTaskTurnGame.*` | `addrDdGame`, `addrGameGlobal`, `gameId`, `g_currentTurnTeam` | Initialize, Construct, Destroy, StartTurn, FinishTurn, FrameFinish | called by WA; calls `onFrame`, `onGameTornDown` |
| DLL per-frame work | `dll/src/ControlHooks.*` | `g_wasFiring`, `g_snapshot`, the ammo table's base | `onFrame`, `applyHeldInput`, `applyWeapon`, `buildSnapshot`, `onGameTornDown` | dispatches task messages to WA, pushes snapshots |
| Task tree access | `dll/src/entities/CTask*` | none: WA's memory | `traverse`, field reads | read by the per-frame work |
| DLL IPC server | `dll/src/IpcServer.*` | `g_running`, listening and client socket, last push time | `install`, `serverLoop`, `serveClient`, `handleCommand`, `pushState`, `stop` | TCP to the backend; called by the game thread (push) and DllMain (install, stop) |
| DLL loader, hooks, scanner | `dll/src/dllmain.cpp`, `Hooks.*`, `PatternScanner.cpp` | detours, cached offsets in memory and in a file | attach, `loadOffsets`, `scanPattern`, `hook`, `saveOffsets`, `cleanup` | WA's image, the other subsystems' `install` |
| Wire protocol | `backend/app/protocol.py`, `dll/src/Protocol.*` | none | parse and format | both ends |
| Backend transport | `backend/app/ipc.py` | `_sock`, `_latest` | reader thread: connect, consume, drop; `send_command`, `latest_state` | DLL; handlers, broadcaster |
| Control handler | `backend/app/main.py` `/ws/control` | `held`, `held_team` per socket | receive, release on refusal and on disconnect | transport, claim table |
| Claim and admin endpoints | `backend/app/main.py` | none of their own | `claim`, `delete_mapping`, `clear_mappings` | transport, claim table |
| Claim table | `backend/app/store.py` | SQLite file: team, email | `claim`, `delete_mapping`, `clear_all`, lookups | endpoints, handler, broadcaster |
| New-game detection, broadcast | `backend/app/broadcaster.py` | `_last_game_id`, `_clients` | tick, `_detect_new_game`, `connect` | transport, claim table, browsers |
| Control page | `frontend/src/pages/ControlPage.tsx`, `App.tsx` | `heldRef`, one control socket, `me` | press, release, releaseAll, claim, `refreshMe` | `/ws/control`, `/api/me`, `/api/claim` |
| State subscription | `frontend/src/useGameState.ts` | last snapshot, last game id | reconnect, re-fetch on a new `game_id` | `/ws/state` |
| The rest | see `PROJECT.json` | none that another part reads | rendering, settings, log, scripts | |

What is hard in it, and what makes each part correct:

* **Two threads over one input state.** Edges arrive at any moment; frames sample
  them; a teardown wipes them. Correct if WA is told nothing that no player asked
  for, if charges and launches alternate, and if no one-shot is lost or doubled.
* **A frame reads memory that is WA's.** Tasks may be missing, repeated or without
  worms. Correct if a weapon goes to the turn team's worm or, for want of one, to
  nobody.
* **Levels over an unreliable path.** A key goes down in a browser and must come up
  in the DLL, across a socket, a handler, a cached turn, a TCP stream and a second
  thread, any of which may fail. Correct if each level that stays down is known to
  someone who will release it, or has lost its link for a reason that can be named.
* **Cached state used later.** Turn gating and claims read a snapshot that may be
  old when its consequence takes effect.
* **Edge-triggered clearing of a persistent table.** Claims live in a file, the
  identity of the game in two processes' memories. Correct if a claim is lost only
  to an admin or a newer game, and stays only while its game does.
* **One owner.** Claim requests overlap, with a check and an insert in two calls.
* **Socket numbers under three threads.** The client's socket is closed by the game
  thread and by the IPC thread, the listener by the IPC thread and by `stop`, and
  numbers are given out again. Correct if a thread reads, sends on and closes what
  is its own.
* **Lines cut anywhere.** A frame must not wait for the backend, so sends stop short;
  receives return what they like. Correct if no torn line is taken for a whole one
  and the backend's view never goes back.
* **Installing into a foreign program.** Any step may fail, and offsets outlive the
  build they were found in. Correct if hooks are set all or none, and at the right
  place whenever the cache is true.
* **A page that hears of changes by two channels.** The turn is pushed, the team is
  fetched. Correct if the two meet again, and if no input is left down by the page.

`PROJECT.json` lists every hazard at its line, with the property that covers it.

## 2. Modules

| Module | Models |
|---|---|
| `ControlState` | `apply`, `read`, `clear` as functions from states to states |
| `ControlHooks` | the DLL's game side: lifecycle, turns, frames and commands as actions over `state`, `wasFiring`, `turnTeam`, `game`, `gameId` |
| `InputDispatch` | `ControlHooks` with history variables for what WA received and what players asked; the DLL's input properties |
| `TaskTree` | `InputDispatch` with the memory a frame reads: the search for the turn worm, the weapon, the ammo table, the snapshot |
| `ControlChannel` | `ControlHooks` composed with the TCP stream, the transport's reader thread, any number of control handlers, and claims that come and go |
| `HeldLevels` | what the channel promises of held inputs: one set of levels, who holds which, which have lost their link; `ControlChannel` implements it |
| `StateStream` | one snapshot's way from `pushState` to `latest_state()`, by pieces of lines |
| `SnapshotChannel` | what that stream promises; `StateStream` implements it |
| `IpcServer` | sockets and threads of the DLL's server |
| `DllModule` | `IpcServer` inside the life of the DLL: DllMain, scans, detours, the cache file, crashes and updates of WA |
| `TeamClaims` | claim table, claim and admin endpoints, broadcaster, WA's `game_id`, restarts of either side |
| `ClaimTable` | what claiming promises, each claim decided in one step; `TeamClaims` implements it |
| `PageTeam` | what a page knows of turn and team, with broadcaster, claim table and `/api/me` behind it |
| `ControlPage` | `PageTeam` with the pad: control socket, held buttons, React's commits |
| `MC…` and `*.cfg` | the instances TLC checks |
| `…Proofs` | theorems; `ControlHooksProofs` holds the lemmas that its two compositions share |

How the state corresponds:

* `state.held` is the set of the five booleans of `ControlState::Snapshot` that are
  levels; the one-shots are fields of their own. The mutex makes each operation one
  step, and since a frame copies the state once, a frame is one step too.
* `game` folds `addrDdGame` and `addrGameGlobal` into one phase. `"destroying"` is
  the window in `hookDestroyGameGlobal` between the two assignments.
* In `TaskTree` a frame meets any member of `Trees`: the Team tasks in the order of
  `traverse`, each with its worms. `published` is `g_snapshot`, which the DLL writes
  and, in this version, reads nowhere: only its type and its game are looked at.
* Turn messages come while `TurnGameReachable`, so also as a game is built and
  destroyed: this is an assumption about WA, whose object of the hooked method is the
  one FrameFinish is sent to. The hook itself has no guard.
* `wire` and `pushed` are the two directions of the TCP stream. `link` is the
  transport's `_sock`: `"broken"` is the time between the end of a connection and
  its notice, `"down"` is `_sock = None`. `latest` is cleared in a step of its own,
  as in the reader's `finally`.
* `held[s]` and `heldTeam[s]` are the locals of `control()`, `owner` is the claim table as
  `email_for_team` reads it. A received message is
  one step because the handler awaits nothing between the turn check and the
  bookkeeping. Where the iteration order of a Python set decides the order of release
  lines, every order is allowed.
* In `StateStream` a line has two pieces, the second of which holds the newline; a
  send may take the first alone, a receive any number of pieces. `unsent` is what
  `pushState` still owes while it holds the mutex; `client` and `sock` are the two
  ends of the connection; `buf` is the reader's buffer. WA's restarts go on counting
  frames, so that "never goes back" has a meaning over all of them.
* In `IpcServer` `sock` says what is behind each number a SOCKET may have, `client` is
  `g_client`, `conn` is `serverLoop`'s local copy, and `pc` is the line of the IPC
  thread. `g_clientMutex` shows as `pushing`: the thread that wants the mutex waits
  for it. `g_listenSock` has no mutex, so each access to it is a step. `dllMain` is
  the thread in DllMain, which has the loader lock unless it is `"idle"`.
* In `DllModule` WA.exe is a sequence of bytes per build; `Program` is the order of
  scans and hooks in `install()`; `memo` and `file` are the offset cache in memory and
  on disk.
* `rows` is the SQLite table; `pending` holds claim requests between two of their
  calls (`get_state`, `team_for_email`, `store.claim`), since endpoints run on pool
  threads. `tick` is the snapshot the broadcaster has read and not yet compared.
* In `PageTeam` `team` is `me?.team`, `shown` the turn of the last snapshot, `lastId`
  the hook's `lastGameId`, `fetches` the calls of `refreshMe` that are under way,
  `claims` the number of calls of `onClaim` that wait for a request or for its answer (the
  button is not disabled meanwhile), `inbox` the messages on the state socket. In
  `ControlPage` `rendered` is the `isMyTurn` of the last commit, `held` is `heldRef`;
  `ReleaseAll`, the passive effect, comes some time after its `Commit`, and before the next.
  `Claim` does without `roundActive`, which permits more than the page does.
  `far` is what the other end of the open control socket last heard pressed.
* History, part of no program: in `InputDispatch` `out` (messages of the last step),
  `charging` and `asked`; in `TaskTree` `found` and `armed`; in `ControlChannel`
  `severed` (levels that were down when a link, process or handler was lost); in
  `StateStream` `shown`; in `IpcServer` `dropped`; in `TeamClaims` the true number of a
  game, `seen`, and each row's `excuse`; in `PageTeam` `untold`, a message's `news`,
  `told`, the states of a fetch, and `spoiled`.

Abstractions: task messages and inputs are names; JSON and its wording are left out;
a closing connection may lose any tail of what its reader has not read; a push may be
dropped at any time. In `ControlChannel` the table may give, take or clear teams at any
moment, and whether a worm is found is a free choice of each frame; in `TeamClaims` and
in `TaskTree` they are the subject. In `PageTeam` the claim table is one row, that of the user of the page,
and a claim request is handled in one step: `TeamClaims` has the table and the steps.

Definitions whose comment says *variant used as a mutant* are deliberately wrong
versions of the definition next to them. Nothing in the models refers to them: they
show that a property fails when the code is changed in that way.

## 3. Runs

| Run | Instance | Properties | Shows |
|---|---|---|---|
| `input` | 2 teams, 2 games, 5 task trees; one direction, fire, jump, weapon ids 3 and 71 | `TreeTypeOK`, `StateIsAsked`, `FireAlternates`, `DispatchIsAsked`, `JumpIsServed`, `ReleaseLaunches`, `ArmsTheTurnWorm`, `WeaponReachesWorm` | the DLL's own half of the contract with WA |
| `channel` | 2 sockets of one user, who has one of 2 teams at first; one direction; 2 faults or changes of the table | `TypeOK`, `NoOrphanHold`, `HeldHasTeam`, `OrphanIsReleased`, `ImplementsLevels` | two handlers over one level, hand-over of turns and of teams, stale snapshots, failures; the refinement |
| `claims` | 2 teams, 1 user with 2 requests, 2 games, 2 WA processes, 1 backend restart | `TypeOK`, `UniqueClaims`, `StaleClaimsExplained`, `ClaimsSurviveOutages`, `PastClaimsGo` | check and insert in two calls; what clears the table, and what does not |
| `dll_module` | 2 builds, 3 socket numbers, 1 foreign socket, 1 torn save | `TypeOK`, `ClientIsServed`, `HandleIsOwn`, `NothingLeftOpen`, `AllOrNothing`, `WrongHooksComeFromFile`, `WaitingIsServed` | the DLL over several WA processes that load, serve, stop, crash or are updated |
| `state_stream` | 6 frames, room for 5 pieces, 2 spins | `TypeOK`, `NoTornLine`, `FrameNeverStalls`, `PushedIsShown`, `ImplementsChannel` | partial sends, receives cut anywhere, lost connections; the refinement |
| `page_team` | 1 team, 2 fetches, 2 clicks to claim, 2 games, 2 messages under way, 2 troubles of 6 kinds | `PageTypeOK`, `MyTeamExplained` | stream, fetches, claim and broadcaster in every order |
| `control_page` | 1 team, 2 buttons, 1 fetch, 1 click to claim, 1 game, 2 troubles of 7 kinds | `TypeOK`, `NothingStuck`, `TurnLossLetsGo` | the pad over that page |

Five more runs each check a statement of the repository's documents or comments that
the code does not keep (section 5).

Why the bounds are enough for what the runs ask.

* The four directions pass through the same lines, so one stands for all; 71 is the
  first id past `applyWeapon`'s range and 3 one inside it. The trees of `input` are a
  whole one, one whose current worm is dead, one without an active worm, one where a
  task without worms precedes another of the same team, and the empty one.
* Two games are what a value needs to leak from one into the next, and the broadcaster
  compares only neighbours. Two sockets or requests give every pairwise interleaving
  of handlers. Claims of two users for one team are left to the theorem
  `ClaimsStayUnique`, which has any number of both. To a handler another user's team is
  no different from a free one (`_is_users_turn`), so `channel` has one user.
* `MaxWire = 2` is the smallest wire that holds a press and its release, or the two
  releases of two disconnects; `MaxPushed = 1` keeps one stale snapshot under way, and a
  fuller buffer only makes `pushState` drop more.
* Five pieces between the sockets of `state_stream` are two lines and a half: a receive
  can find two complete lines and a head, so that it skips one and keeps a part.
* Three socket numbers are the listener, the connection and one that is free for a
  foreign socket when the connection's is given up and given out anew. Build 2 has the
  code moved, and lacks two of the functions, so that both a stale offset and a failed
  scan happen.
* Faults and troubles are bounded by two because the properties name which of them
  excuse what: a second one that meets the first is what a wrong excuse would miss. The
  proofs have no such limit.
* The reader gives up after any 5 s of silence (`IdleTimeout`). Between games, where no
  frame is drawn, they come for nothing; in a live game, where some 50 frames a second
  are due, they count as one of the two faults of `channel`.
* `page_team` uses permutations of its two fetches as symmetry; runs with liveness use
  none.

### Fairness

* `TaskTree`: weak fairness of a frame. WA sends FrameFinish some 50 times a second for
  as long as it draws a game (comment in `IpcServer.cpp` `pushState`). No player, turn or
  lifecycle message is assumed to come.
* `ControlChannel`: weak fairness of `DllReceive`. `serveClient` polls its socket
  every 5 ms. Neither the handlers, nor the network, nor a reconnect is assumed.
* `TeamClaims`: weak fairness of `TickReads` and `TickDetects`, the loop of
  `StateBroadcaster`, which runs as long as the backend does. Whether WA pushes
  anything is not assumed: `PastClaimsGo` says what happens while the link is up.
* `DllModule`: weak fairness of the IPC thread, of a push that has begun (`send` does
  not block, the spin is bounded) and of `stop`. Strong fairness of the two steps of the
  IPC thread that need `g_clientMutex`: the throttle keeps the game thread out of it for
  15 ms between two pushes, so it is free again and again, and a thread that waits for
  it gets it. That `accept` fails, or that the backend comes, is not assumed.
* `StateStream`: weak fairness of `pushState` once it has begun a line, and of the
  reader's receive while there is something to receive. The server thread, the
  network and the next frame are not assumed.
* `ControlPage`: weak fairness of the broadcaster's tick, of the browser handing over
  a message, and of a fetch going on to its answer; strong fairness of `Commit`: React
  does not put off a commit for ever, even if the turn changes to and fro; weak fairness
  of `ReleaseAll`: nor the effect of one.

## 4. Proofs

All theorems hold for every value of the constants that meets the named assumptions
of the modules: finite or infinite sets of teams, users, sockets and requests, any
weapon ids, any task trees, any images and signatures, any bounds.

* **`InputDispatchProofs`.** `TypeCorrect`; `RequestsAreAsked`; and from them the
  two action properties `FireMessagesAlternate` and `MessagesAnswerPresses`. Neither is
  inductive: a frame's messages follow from the code's state, the properties
  speak of history. `StateIsAsked` ties the two together (`wasFiring` is exactly
  "WA is charging", and what is requested was asked) and is inductive with the
  types. `NothingAskedIsForgotten` is the converse: what was asked, and not withdrawn,
  served or torn down, is still pending. With it `FramesServeWhatIsAsked` proves all
  but the fairness of `JumpIsServed` and `ReleaseLaunches`: a jump, or a launch that is
  due, stays due until it is served or the game ends, and the next frame serves it.
* **`TaskTreeProofs`.** `TreeImplementsDispatch` shows that every step of `TaskTree` is
  one of `InputDispatch`, so the theorems above hold of it. `WeaponsGoToTheTurnWorm`
  and `RequestsArmAWorm` compare what a traversal meets first with what any reader of
  the tree would call the worm to arm; they rest on a nonempty set of positions having
  a least one. `AmmoCellsAreApart` is arithmetic: no two teams or weapons share a cell
  of the ammo table.
* **`ControlChannelProofs`.** `TypeCorrect`; `HeldAlwaysHasTeam`; `NoLevelIsOrphaned`.
  `NoOrphanHold` speaks of the level after the whole wire is drained, so most
  of the work is in the lemmas about `LevelAfter` of an extended, a shortened and a
  headless sequence. It is not inductive: a handler that gives up its keys while the
  link is not up would orphan them, unless every level that is down then has lost its
  link already. `LinkLost` says so, and `HeldHasTeam` that `_release_held` does not
  return early with keys down; the four together are `HoldInv`. From it follow
  `OrphansHaveARelease`, where `OrphanIsReleased` starts from (the rest is that the IPC
  thread reads on), and the refinement `ChannelImplementsLevels`: mapped by what `Down`
  says of each level, a message takes effect when it is sent, deliveries and frames are
  stutters, and a lost link or process leaves some levels cut. `LevelsGoDownByPress`
  is the action property of `HeldLevels` that comes with it. `KeptLinkNoWormWalks`
  proves `NoWormWalksAlone` for as long as nothing fails and the link is never silent
  for 5 s, since nothing is severed then. `FirstGameNoWormWalks` allows the silence
  while no game is live, for the first game: nothing is down before it (`FirstInv`). Both
  state their hypothesis as what the steps may not be (`KeptLink`, `KeptLinkInGames`).
  `ChannelDrivesDll` shows that the channel's steps of the DLL are those of
  `ControlHooks`, and the reload of the module.
* **`TeamClaimsProofs`.** `TypeCorrect`; `ClaimsStayUnique`; `OutagesCostNoClaim`;
  `StaleClaimsAreExplained`. The last two rest on `SnapshotInv`: snapshots travel in
  order (what was compared is no newer than what a tick has read, that no newer than
  what is cached, that no newer than what WA shows), and two ids that are both ids
  differ only between different games. A row added before the first comparison says
  so (`EarlyRows`). `PerGameUntilRestart` adds what has to be blamed for which excuse:
  without a restart of either side `ClaimsArePerGame` holds. `PastClaimsWaitForATick` is
  the safety half of `PastClaimsGo`: once read, a snapshot is compared, the comparison
  leaves no past claim without an excuse, and none comes back. `ClaimsImplementTable` is
  the refinement of `ClaimTable`: `get_state` is where a claim is asked for, the check and
  the insert are where it is refused or granted, and a tick that compares a newer game
  is where the table goes. `TableInv` adds that an id to compare is that of a game.
* **`DllModuleProofs`.** `TypeCorrect` and one theorem for each safety property of the
  run. That frames and the IPC thread use their own socket follows from which numbers
  have what behind them at each place of the thread, with `pushing` standing for the
  mutex. `HooksAreAllOrNothing` needs, at each step of `Program`, which hooks are set by
  then. `HooksAreRightByATrueFile` rests on `SignatureAssumption`, that a signature fits
  the function it was made for and nothing else in any build; without it no scanner
  could be right. The invariant adds that `memo` is true of the build while the file is.
  `HooksAreRightInOneBuild` goes on from there: without an update or a torn save the
  file is always true. `ForeignSocketsAreSafe` and `ReadLoopSeesTheDrop` share `OwnInv`,
  what is behind the thread's handle and whether it has been dropped. The one names
  the two double closes as all that can end a socket of another module; the other says
  that `serveClient` learns of a drop. `LiveThreadIsNeverJoined` needs no invariant: in
  `stop_join` only a crash moves DllMain or ends the thread.
* **`StateStreamProofs`.** `TypeCorrect`; `LinesAreWhole`; `StreamImplementsChannel`;
  and from that `NewestOnly`. `NoTornLine` becomes inductive with what ties the line under
  way to the last piece sent: a head at the end of the stream is the one whose tail
  `pushState` still holds, or the connection has ended. The refinement needs the order
  of what is unread, and that it is newer than what was shown. `NoSnapshotIsLost` and
  `FramesSpinOutOrEnd` are the safety halves of `PushedIsShown` and `FrameNeverStalls`:
  what was sent whole is kept for the reader by every step, and a frame with a line
  begun either ends it or has one spin less.
* **`ControlPageProofs`.** Types of both modules; `WrongTeamIsExplained`; `NoInputIsStuck`.
  `MyTeamExplained` speaks of a page with nothing under way. The invariant behind it
  says what is under way otherwise: unless spoiled, a wrong team has a fetch, a claim's
  return or a clear still to be told coming (`Coming`), and an answer that is out of date
  is behind one of them (`Behind`).

Left to TLC: the liveness properties (`JumpIsServed`, `ReleaseLaunches`,
`OrphanIsReleased`, `PastClaimsGo`, `WaitingIsServed`, `FrameNeverStalls`, `PushedIsShown`,
`TurnLossLetsGo`), which need fairness and ENABLED. Of six of them the part that is not
fairness is a theorem, as said above; `WaitingIsServed` and `TurnLossLetsGo` have none:
what they add to the invariants is the order of several fair steps. No theorem is an induction over data, and no module uses a RECURSIVE
operator. The refinement of `ClaimTable` is proved and belongs to no run; those of
`HeldLevels` and `SnapshotChannel` are proved and checked.

## 5. Where code and documents part

Each is the subject of a run that TLC ends with a counterexample; `PROJECT.json`
quotes the lines.

| Run | Statement | What happens |
|---|---|---|
| `dll_enforces_turn` | the turn check is "enforced inside the DLL" (`README.md:33`) | the DLL never looks at a command's team |
| `no_worm_walks_alone` | held inputs are released so that no worm walks on (`WA_INTERNALS.md:276`) | a press applied after the teardown survives the pause between games, whose 5 s silence drops the link its release needed |
| `claims_are_per_game` | mappings are per-game claims (`store.py:34`) | a backend restart forgets which game they were of |
| `thread_can_exit` | closing the listener unblocks `accept()` "so the thread can exit" (`IpcServer.cpp:257`) | it leaves its loop, and cannot end while DllMain waits for it |
| `new_game_is_noticed` | on a new game the page re-fetches its team (`ControlPage.tsx:26`) | not if it connects between the new game and the tick that clears |

`NoOrphanHold` holds because it excuses what was severed; `no_worm_walks_alone`
shows that the excuse is needed even when nothing fails. How far the violated statements
do hold is proved: `NoWormWalksAlone` while nothing fails and no silence closes the
link, in a first game after its start (`KeptLinkNoWormWalks`, `FirstGameNoWormWalks`);
`ClaimsArePerGame` until a restart (`PerGameUntilRestart`); and
that `ThreadCanExit` fails is no matter of the instance (`LiveThreadIsNeverJoined`).
`StaleClaimsExplained` and
`MyTeamExplained` list the ways a past claim and a wrong team can survive; two of the
runs above are instances.

Noted while modelling, without a run of their own:

* `ControlState.h:56` has `clear()` drop held input "on turn change"; it is called at
  teardown only, and `StateIsAsked` is stated accordingly.
* `README.md:30-32` has the IPC thread put commands into a queue that the frame hook
  drains. The code keeps one state of levels and one-shots, which a frame samples
  (`ControlState.cpp:11-29`): a press of fire that is released before the next frame
  begins no charge, and of two weapons the later one is armed.
* If a turn message comes while a game is being destroyed, after `onGameTornDown` has
  reset `g_currentTurnTeam`, its team is there when the next game starts: nothing but
  another turn message or teardown resets it.
* `main.py:146-147` says that fetching the state first clears stale claims; it reads the
  cache, and the next tick clears.
* `W2App.h:23-24` has the backend detect a new game by `game_id`; the id starts again
  with WA and may repeat, which is one of the four causes of `StaleClaimsExplained`.
* `Config.cpp:34-36` counts on the scan to fail loudly in an unknown build; a cached
  offset is not scanned for (`WrongHooksComeFromFile` is stated accordingly).

## 6. Not modelled

* `MockIpcTransport` (a test double), `close()` of the transport, settings,
  authentication, logs: pure functions or I/O.
* The names of actions and phases and their parsing: both sides use the same strings.
  JSON: which lines are whole is modelled, what is in them is not.
* The byte layout of WA's objects, and the fields of a snapshot that only the monitor
  shows (positions, owners, timers): data that no decision in the code reads.
* A `sendall` cut short by its timeout (`ipc.py:238`): a command is far smaller than a
  socket buffer that the DLL reads every 5 ms, so commands are whole in the models.
  The event loop's wait meanwhile is time, which the models do not have.
* A press of fire shorter than a frame: it leaves no trace in the state (section 5).
* Starting the IPC thread, `WSAStartup` and `socket()` are one step (`OpenListener`); that
  `std::thread` throws in `install` (`IpcServer.cpp:252`), with the hooks set, is left out.
* What becomes of a game thread inside a detour that `cleanup` removes: undefined in
  the code, and the end of the process's state in the models.
* Rendering, vibration and wake lock in the page, its one-shot buttons and its weapon
  palette, which keep no state; the monitor and admin page; scripts and build.

## 7. Plan

Done: every component above that keeps state, as far as section 6 says. What is left
adds compositions of what is there:

1. `ControlPage` in front of the handler of `ControlChannel`: what the handler holds
   once the socket is drained is held by the page, unless a release was answered
   "game offline" (`main.py:290`).
2. An input contract (asked, served, withdrawn) that `InputDispatch` implements.
3. The service loop of `IpcServer` shown to take the steps of the connection in
   `StateStream` (`Accept`, `EndService`, `DropClient`), and the one row of `PageTeam` shown
   to be a row of `ClaimTable`.
