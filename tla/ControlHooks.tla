----------------------------- MODULE ControlHooks -----------------------------
(***************************************************************************)
(* The DLL inside Worms Armageddon (src/dll/src): the game lifecycle hooks  *)
(* of W2App.cpp, the turn tracking of entities/CTaskTurnGame.cpp and the    *)
(* per-frame work of ControlHooks.cpp, over the state of ControlState.tla.  *)
(*                                                                          *)
(* Two threads act.  The game thread runs every hook, one at a time; the    *)
(* IPC thread calls ControlState::apply at any moment between them.  A      *)
(* frame copies the control state once, under its mutex, and works on the   *)
(* copy, so an edge falls before or after a frame and never inside it.      *)
(***************************************************************************)
EXTENDS ControlState

CONSTANTS
  Teams,      \* team numbers that turn messages carry
  NoTeam,     \* g_currentTurnTeam = -1, and a null turn_team
  Inputs,     \* actions the run's clients send
  Values,     \* weapon ids carried by select_weapon
  MaxGames    \* bound on the games one WA process plays

ASSUME NoTeamAssumption == NoTeam \notin Teams
ASSUME InputsAssumption == Inputs \subseteq Actions
ASSUME ValuesAssumption == Values \subseteq Int
ASSUME MaxGamesAssumption == MaxGames \in Nat

VARIABLES
  state,      \* ControlState::state
  wasFiring,  \* g_wasFiring: fire was held at the last applied frame
  turnTeam,   \* g_currentTurnTeam
  game,       \* where WA is in the life of its game objects, see below
  gameId      \* W2App::gameId

hookVars == <<state, wasFiring, turnTeam, game, gameId>>

(* "none"       addrDdGame = 0, addrGameGlobal = 0                          *)
(* "init"       InitializeW2App has set addrDdGame                          *)
(* "live"       ConstructGameGlobal has set addrGameGlobal                  *)
(* "destroying" inside DestroyGameGlobal: addrGameGlobal = 0 again, and     *)
(*              addrDdGame still set until the original returns             *)
GamePhases == {"none", "init", "live", "destroying"}

GameLive == game = "live"
TurnGameReachable == game # "none"

HooksTypeOK ==
  /\ state \in ControlStates
  /\ wasFiring \in BOOLEAN
  /\ turnTeam \in Teams \cup {NoTeam}
  /\ game \in GamePhases
  /\ gameId \in 0 .. MaxGames

HooksInit ==
  /\ state = EmptyState
  /\ wasFiring = FALSE
  /\ turnTeam = NoTeam
  /\ game = "none"
  /\ gameId = 0

\* A new WA process loads the DLL again: HooksInit on the primed variables.
ReloadDll ==
  /\ state' = EmptyState
  /\ wasFiring' = FALSE
  /\ turnTeam' = NoTeam
  /\ game' = "none"
  /\ gameId' = 0

-----------------------------------------------------------------------------
(* The game thread: lifecycle and turns.                                    *)

InitializeW2App ==
  /\ game = "none"
  /\ game' = "init"
  /\ UNCHANGED <<state, wasFiring, turnTeam, gameId>>

ConstructGameGlobal ==
  /\ game = "init"
  /\ gameId < MaxGames
  /\ game' = "live"
  /\ gameId' = gameId + 1
  /\ UNCHANGED <<state, wasFiring, turnTeam>>

(* Variants used as mutants: a teardown that leaves g_wasFiring, one that     *)
(* leaves the control state.                                                  *)
TearDownKeepsFiring ==
  turnTeam' = NoTeam /\ state' = EmptyState /\ wasFiring' = wasFiring

TearDownKeepsInput ==
  turnTeam' = NoTeam /\ state' = state /\ wasFiring' = FALSE

OnGameTornDown ==
  /\ turnTeam' = NoTeam
  /\ state' = EmptyState
  /\ wasFiring' = FALSE

DestroyGameGlobal ==
  /\ GameLive
  /\ game' = "destroying"
  /\ OnGameTornDown
  /\ UNCHANGED gameId

\* origDestroyGameGlobal has returned.
DestroyReturns ==
  /\ game = "destroying"
  /\ game' = "none"
  /\ UNCHANGED <<state, wasFiring, turnTeam, gameId>>

\* StartTurn and TurnStarted carry the team; nothing else is touched.  The task
\* that gets them exists only while FrameFinish can reach it, too: as a game is
\* built and destroyed as well as while it is live.
StartTurn(team) ==
  /\ TurnGameReachable
  /\ turnTeam' = team
  /\ UNCHANGED <<state, wasFiring, game, gameId>>

\* FinishTurn and TurnFinished.
FinishTurn ==
  /\ TurnGameReachable
  /\ turnTeam' = NoTeam
  /\ UNCHANGED <<state, wasFiring, game, gameId>>

-----------------------------------------------------------------------------
(* The game thread: one frame.                                              *)

\* What a frame publishes and pushes; the task tree is left out.
BuildSnapshot ==
  [game_id      |-> gameId,
   round_active |-> GameLive,
   turn_team    |-> IF GameLive THEN turnTeam ELSE NoTeam]

\* Charge on the press edge, launch on the release edge.
FireMessages(s, firing) ==
  {m \in {"FireWeapon"} : "fire" \in s.held /\ ~firing}
    \cup {m \in {"ReleaseWeapon"} : "fire" \notin s.held /\ firing}

\* Variant used as a mutant: the id is not checked against the table.
WeaponMessagesUnchecked(s, ready) ==
  {m \in {"select_weapon"} : s.select_weapon # NoWeapon /\ turnTeam # NoTeam /\ ready}

\* applyWeapon: the weapon table is loaded and the turn team's worm is found
\* when "ready"; an id outside 1..70 is refused.
WeaponMessages(s, ready) ==
  {m \in {"select_weapon"} :
     s.select_weapon \in 1 .. 70 /\ turnTeam # NoTeam /\ ready}

\* The messages applyHeldInput dispatches to the turn-game task this frame.
Dispatched(ready) ==
  (state.held \ {"fire"}) \cup {m \in {"jump"} : state.jump}
    \cup WeaponMessages(state, ready) \cup FireMessages(state, wasFiring)

\* Variant used as a mutant: g_wasFiring never follows the button.
ApplyKeepsFiring ==
  state' = ConsumeOneShots(state) /\ wasFiring' = wasFiring

ApplyHeldInput ==
  /\ state' = ConsumeOneShots(state)
  /\ wasFiring' = ("fire" \in state.held)

\* FrameFinish reaches the turn-game task only while there is one; input is
\* applied only while addrGameGlobal is set.
OnFrame ==
  /\ TurnGameReachable
  /\ \/ GameLive /\ ApplyHeldInput
     \/ ~GameLive /\ UNCHANGED <<state, wasFiring>>
  /\ UNCHANGED <<turnTeam, game, gameId>>

-----------------------------------------------------------------------------
(* The IPC thread.                                                          *)

\* "value" is a weapon id for select_weapon and 0 otherwise.
Commands ==
  {cmd \in [action : Inputs, phase : Phases, value : Values \cup {0}] :
     cmd.action = "select_weapon" \/ cmd.value = 0}

\* handleCommand: the line's "team" is never looked at.
HandleCommand(cmd) ==
  /\ state' = ApplyEdge(state, cmd.action, cmd.phase, cmd.value)
  /\ UNCHANGED <<wasFiring, turnTeam, game, gameId>>

\* What the game thread may do besides a frame.
GameStep ==
  \/ InitializeW2App
  \/ ConstructGameGlobal
  \/ DestroyGameGlobal
  \/ DestroyReturns
  \/ \E team \in Teams : StartTurn(team)
  \/ FinishTurn
=============================================================================
