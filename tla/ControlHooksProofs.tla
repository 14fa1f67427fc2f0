-------------------------- MODULE ControlHooksProofs --------------------------
(***************************************************************************)
(* What every operation of ControlHooks.tla does to the types of the DLL's  *)
(* state and to the levels it holds, for any teams, inputs, weapon ids and  *)
(* number of games.  The modules that build on the DLL cite these lemmas.   *)
(***************************************************************************)
EXTENDS ControlHooks, TLAPS

\* The value that stands for "no weapon" is an integer.
LEMMA NoWeaponType == NoWeapon \in Int
  BY DEF NoWeapon

\* The state that clear() leaves is a control state.
LEMMA EmptyType == EmptyState \in ControlStates
  BY NoWeaponType DEF EmptyState, ControlStates

\* The state that clear() leaves holds nothing and asks for nothing.
LEMMA EmptyRequestsNothing == Requested(EmptyState) = {} /\ EmptyState.held = {}
  BY DEF Requested, EmptyState

\* An edge leads from a control state to a control state.
LEMMA EdgeType ==
  ASSUME NEW s \in ControlStates, NEW action, NEW phase,
         NEW value \in Values \cup {0}
  PROVE  ApplyEdge(s, action, phase, value) \in ControlStates
<1>1. Values \cup {0} \subseteq Int
  BY ValuesAssumption
<1>2. value \in Int
  BY <1>1
<1> QED
  BY <1>2 DEF ApplyEdge, ControlStates

\* A read leads from a control state to a control state.
LEMMA ConsumeType ==
  ASSUME NEW s \in ControlStates
  PROVE  /\ ConsumeOneShots(s) \in ControlStates
         /\ ConsumeOneShots(s).held = s.held
  BY NoWeaponType DEF ConsumeOneShots, ControlStates

-----------------------------------------------------------------------------
\* Every variable of the DLL starts in its type.
LEMMA HooksInitTypes == HooksInit => HooksTypeOK
<1> SUFFICES ASSUME HooksInit
             PROVE  HooksTypeOK
  OBVIOUS
<1>1. gameId \in 0 .. MaxGames
  BY MaxGamesAssumption DEF HooksInit
<1>2. wasFiring \in BOOLEAN /\ turnTeam \in Teams \cup {NoTeam} /\ game \in GamePhases
  BY DEF HooksInit, GamePhases
<1>3. state \in ControlStates
  BY EmptyType DEF HooksInit
<1> QED
  BY <1>1, <1>2, <1>3 DEF HooksTypeOK

\* A new WA process starts in them too, and holds nothing.
LEMMA ReloadTypes == ReloadDll => HooksTypeOK' /\ state'.held = {}
<1> SUFFICES ASSUME ReloadDll
             PROVE  HooksTypeOK' /\ state'.held = {}
  OBVIOUS
<1>1. gameId' \in 0 .. MaxGames
  BY MaxGamesAssumption DEF ReloadDll
<1>2. wasFiring' \in BOOLEAN /\ turnTeam' \in Teams \cup {NoTeam} /\ game' \in GamePhases
  BY DEF ReloadDll, GamePhases
<1>3. state' \in ControlStates /\ state'.held = {}
  BY EmptyType, EmptyRequestsNothing DEF ReloadDll
<1> QED
  BY <1>1, <1>2, <1>3 DEF HooksTypeOK

\* No lifecycle or turn hook leaves the types, or makes a level be held.
LEMMA GameStepTypes ==
  ASSUME HooksTypeOK, GameStep
  PROVE  HooksTypeOK' /\ state'.held \subseteq state.held
<1> USE DEF HooksTypeOK
<1>1. CASE InitializeW2App \/ ConstructGameGlobal \/ DestroyReturns
  BY <1>1, MaxGamesAssumption
     DEF InitializeW2App, ConstructGameGlobal, DestroyReturns, GamePhases
<1>2. CASE DestroyGameGlobal
  BY <1>2, EmptyType, EmptyRequestsNothing
     DEF DestroyGameGlobal, OnGameTornDown, GamePhases
<1>3. CASE FinishTurn \/ \E team \in Teams : StartTurn(team)
  BY <1>3 DEF FinishTurn, StartTurn
<1> QED
  BY <1>1, <1>2, <1>3 DEF GameStep

\* A frame keeps the types and the levels: it reads, and clears one-shots.
LEMMA FrameTypes ==
  ASSUME HooksTypeOK, OnFrame
  PROVE  HooksTypeOK' /\ state'.held = state.held
<1>1. state' \in ControlStates /\ state'.held = state.held
  BY ConsumeType DEF HooksTypeOK, OnFrame, ApplyHeldInput
<1>2. wasFiring' \in BOOLEAN
  <2>1. ApplyHeldInput => wasFiring' \in BOOLEAN
    BY DEF ApplyHeldInput
  <2> QED
    BY <2>1 DEF OnFrame, HooksTypeOK
<1> QED
  BY <1>1, <1>2 DEF HooksTypeOK, OnFrame

\* A command from the IPC thread keeps the types.
LEMMA CommandTypes ==
  ASSUME HooksTypeOK, NEW cmd, cmd.value \in Values \cup {0}, HandleCommand(cmd)
  PROVE  HooksTypeOK'
<1>1. state' \in ControlStates
  BY EdgeType DEF HooksTypeOK, HandleCommand
<1> QED
  BY <1>1 DEF HooksTypeOK, HandleCommand

\* What the snapshot says of the turn is a team or none.
LEMMA SnapshotType ==
  ASSUME HooksTypeOK
  PROVE  BuildSnapshot.turn_team \in Teams \cup {NoTeam}
  BY DEF HooksTypeOK, BuildSnapshot
=============================================================================
