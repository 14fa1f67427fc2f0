-------------------------- MODULE InputDispatchProofs --------------------------
(***************************************************************************)
(* What InputDispatch.tla claims of the DLL's input path, for any teams,    *)
(* any weapon ids, any subset of the actions and any number of games.  The  *)
(* two action properties rest on the invariant StateIsAsked: the code's own *)
(* state (the held set, the one-shots, g_wasFiring) never goes further than *)
(* what the players asked for and what WA was told.                         *)
(***************************************************************************)
EXTENDS InputDispatch, ControlHooksProofs, TLAPS

\* The levels and one-shots that are pending are inputs the clients send.
PendingAreInputs == Requested(state) \subseteq Inputs

TypeInv == TypeOK /\ PendingAreInputs

\* Every variable starts in its type.
LEMMA InitTypes == Init => TypeInv
  BY HooksInitTypes, EmptyRequestsNothing
     DEF Init, HooksInit, TypeInv, TypeOK, PendingAreInputs

\* Every step keeps the types.
LEMMA NextTypes == TypeInv /\ [Next]_vars => TypeInv'
<1> SUFFICES ASSUME TypeInv, [Next]_vars
             PROVE  TypeInv'
  OBVIOUS
<1> USE DEF TypeInv, TypeOK, PendingAreInputs
<1> state \in ControlStates
  BY DEF HooksTypeOK
<1>1. CASE NoTurnMessage
  <2>1. HooksTypeOK' /\ state' = state
    BY <1>1, GameStepTypes
       DEF NoTurnMessage, GameStep, InitializeW2App, ConstructGameGlobal, DestroyReturns
  <2> QED
    BY <1>1, <2>1 DEF NoTurnMessage
<1>2. CASE TearDown
  <2>1. HooksTypeOK' /\ state' = EmptyState
    BY <1>2, GameStepTypes DEF TearDown, GameStep, DestroyGameGlobal, OnGameTornDown
  <2> QED
    BY <1>2, <2>1, EmptyRequestsNothing DEF TearDown
<1>3. CASE TurnMessage
  <2>1. HooksTypeOK' /\ state' = state
    BY <1>3, GameStepTypes DEF TurnMessage, GameStep, FinishTurn, StartTurn
  <2> QED
    BY <1>3, <2>1 DEF TurnMessage
<1>4. ASSUME NEW ready \in BOOLEAN, Frame(ready)
      PROVE  TypeInv'
  <2>1. HooksTypeOK'
    BY <1>4, FrameTypes DEF Frame
  <2>2. Requested(state') \subseteq Requested(state)
    BY <1>4 DEF Frame, OnFrame, ApplyHeldInput, ConsumeOneShots, ControlStates, Requested
  <2>3. FrameMessages(ready) \subseteq Messages
    BY DEF FrameMessages, Dispatched, WeaponMessages, FireMessages, Messages,
           ControlStates, Actions, HeldActions, OneShotActions
  <2> QED
    BY <1>4, <2>1, <2>2, <2>3 DEF Frame
<1>5. ASSUME NEW cmd \in Commands, Command(cmd)
      PROVE  TypeInv'
  <2>1. cmd.action \in Inputs /\ cmd.value \in Values \cup {0}
    BY DEF Commands
  <2>2. HooksTypeOK'
    BY <1>5, <2>1, CommandTypes DEF Command
  <2>3. Requested(state') \subseteq Requested(state) \cup {cmd.action}
    BY <1>5 DEF Command, HandleCommand, ApplyEdge, Requested, ControlStates
  <2> QED
    BY <1>5, <2>1, <2>2, <2>3 DEF Command
<1>6. CASE UNCHANGED vars
  BY <1>6 DEF vars, hookVars, historyVars, HooksTypeOK
<1> QED
  BY <1>1, <1>2, <1>3, <1>4, <1>5, <1>6 DEF Next

(* Types, for every value of the constants.                                  *)
THEOREM TypeCorrect == Spec => []TypeOK
<1>1. Spec => []TypeInv
  BY InitTypes, NextTypes, PTL DEF Spec
<1>2. TypeInv => TypeOK
  BY DEF TypeInv
<1> QED
  BY <1>1, <1>2, PTL

-----------------------------------------------------------------------------
\* The inductive invariant of the two action properties.
Inv == TypeInv /\ StateIsAsked

\* Nothing is asked, charged or requested at the start.
LEMMA InitAsked == Init => Inv
  BY InitTypes, EmptyRequestsNothing DEF Inv, Init, HooksInit, StateIsAsked

\* The agreement of the two sides is inductive.
LEMMA NextAsked == Inv /\ [Next]_vars => Inv'
<1> SUFFICES ASSUME Inv, [Next]_vars
             PROVE  StateIsAsked'
  BY NextTypes DEF Inv
<1> USE DEF Inv, StateIsAsked
<1> state \in ControlStates
  BY DEF TypeInv, TypeOK, HooksTypeOK
<1>1. CASE NoTurnMessage
  BY <1>1 DEF NoTurnMessage, InitializeW2App, ConstructGameGlobal, DestroyReturns
<1>2. CASE TearDown
  BY <1>2, EmptyRequestsNothing DEF TearDown, DestroyGameGlobal, OnGameTornDown
<1>3. CASE TurnMessage
  BY <1>3 DEF TurnMessage, FinishTurn, StartTurn
<1>4. ASSUME NEW ready \in BOOLEAN, Frame(ready)
      PROVE  StateIsAsked'
  <2>1. CASE GameLive
    <3>1. state' = ConsumeOneShots(state) /\ wasFiring' = ("fire" \in state.held)
      BY <1>4, <2>1 DEF Frame, OnFrame, ApplyHeldInput
    <3>2. state'.held = state.held /\ Requested(state') = state.held
      BY <3>1 DEF ConsumeOneShots, ControlStates, Requested
    <3>3. /\ "FireWeapon" \in FrameMessages(ready) <=> "fire" \in state.held /\ ~wasFiring
          /\ "ReleaseWeapon" \in FrameMessages(ready) <=> "fire" \notin state.held /\ wasFiring
      BY <2>1 DEF FrameMessages, Dispatched, WeaponMessages, FireMessages,
                  ControlStates, HeldActions
    <3>4. charging' = ("fire" \in state.held)
      BY <1>4, <3>3 DEF Frame, TypeInv, TypeOK
    <3>5. Requested(state') \ {"fire"} \subseteq asked'
      BY <1>4, <2>1, <3>2 DEF Frame, Requested, ControlStates
    <3> QED
      BY <3>1, <3>2, <3>4, <3>5
  <2>2. CASE ~GameLive
    BY <1>4, <2>2 DEF Frame, OnFrame, FrameMessages, TypeInv, TypeOK
  <2> QED
    BY <2>1, <2>2
<1>5. ASSUME NEW cmd \in Commands, Command(cmd)
      PROVE  StateIsAsked'
  <2>1. cmd.phase = "press" \/ cmd.phase = "release"
    BY DEF Commands, Phases
  <2> QED
    BY <1>5, <2>1 DEF Command, HandleCommand, ApplyEdge, Requested, ControlStates,
                      HeldActions
<1>6. CASE UNCHANGED vars
  BY <1>6 DEF vars, hookVars, historyVars
<1> QED
  BY <1>1, <1>2, <1>3, <1>4, <1>5, <1>6 DEF Next

\* The inductive invariant holds throughout.
LEMMA Invariance == Spec => []Inv
  BY InitAsked, NextAsked, PTL DEF Spec

(* The code's state never requests more than was asked, and g_wasFiring is   *)
(* exactly what WA was told.                                                 *)
THEOREM RequestsAreAsked == Spec => []StateIsAsked
<1>1. Inv => StateIsAsked
  BY DEF Inv
<1> QED
  BY <1>1, Invariance, PTL

-----------------------------------------------------------------------------
\* Only a frame sends anything to WA.
LEMMA OnlyFramesDispatch ==
  ASSUME Next, out' # {}
  PROVE  \E ready \in BOOLEAN : out' = FrameMessages(ready)
  BY DEF Next, NoTurnMessage, TearDown, TurnMessage, Command, Frame

\* When a frame sends fire messages, and what else it may send.
LEMMA FrameSends ==
  ASSUME state \in ControlStates, wasFiring \in BOOLEAN, NEW ready \in BOOLEAN
  PROVE  /\ "FireWeapon" \in FrameMessages(ready) => "fire" \in state.held /\ ~wasFiring
         /\ "ReleaseWeapon" \in FrameMessages(ready) => wasFiring
         /\ \A m \in FrameMessages(ready) \ {"FireWeapon", "ReleaseWeapon"} :
              m \in Requested(state) \ {"fire"}
  <1>1. state.select_weapon \in 1 .. 70 => state.select_weapon # NoWeapon
    BY DEF NoWeapon
  <1> QED
    BY <1>1 DEF FrameMessages, Dispatched, WeaponMessages, FireMessages, Requested,
                ControlStates, HeldActions

\* What a step sends to WA is justified by the state before it.
LEMMA Sends ==
  ASSUME Inv, Next, NEW m \in out'
  PROVE  /\ m = "FireWeapon" => ~charging
         /\ m = "ReleaseWeapon" => charging
         /\ m # "ReleaseWeapon" => Answers(m) \in asked
  <1>1. PICK ready \in BOOLEAN : out' = FrameMessages(ready)
    BY OnlyFramesDispatch
  <1>2. state \in ControlStates /\ wasFiring \in BOOLEAN
    BY DEF Inv, TypeInv, TypeOK, HooksTypeOK
  <1> QED
    BY <1>1, <1>2, FrameSends DEF Inv, StateIsAsked, Answers

(* A FireWeapon reaches WA only while no charge is open, a ReleaseWeapon     *)
(* only to end one of the same game.                                         *)
THEOREM FireMessagesAlternate == Spec => FireAlternates
<1>1. Inv /\ [Next]_vars => [/\ "FireWeapon" \in out' => ~charging
                             /\ "ReleaseWeapon" \in out' => charging]_vars
  BY Sends
<1> QED
  BY <1>1, Invariance, PTL DEF Spec, FireAlternates

(* Every message WA gets, but a launch, answers a press of the same epoch    *)
(* that is neither withdrawn nor served.                                     *)
THEOREM MessagesAnswerPresses == Spec => DispatchIsAsked
<1>1. Inv /\ [Next]_vars
        => [\A m \in out' \ {"ReleaseWeapon"} : Answers(m) \in asked]_vars
  BY Sends
<1> QED
  BY <1>1, Invariance, PTL DEF Spec, DispatchIsAsked
-----------------------------------------------------------------------------
(* The other direction: what was asked stays pending, and a frame serves it. *)

\* Whatever level or jump was asked for is still in the state the next frame
\* will read, and a charge is over when its game is.
AskedIsPending ==
  /\ asked \cap HeldActions \subseteq state.held
  /\ "jump" \in asked <=> state.jump
  /\ charging => GameLive

LEMMA NextPending == Inv /\ AskedIsPending /\ [Next]_vars => AskedIsPending'
<1> SUFFICES ASSUME Inv, AskedIsPending, [Next]_vars
             PROVE  AskedIsPending'
  OBVIOUS
<1> USE DEF AskedIsPending, GameLive
<1> state \in ControlStates
  BY DEF Inv, TypeInv, TypeOK, HooksTypeOK
<1>1. CASE NoTurnMessage
  BY <1>1 DEF NoTurnMessage, InitializeW2App, ConstructGameGlobal, DestroyReturns
<1>2. CASE TearDown
  BY <1>2 DEF TearDown, DestroyGameGlobal, OnGameTornDown, EmptyState
<1>3. CASE TurnMessage
  BY <1>3 DEF TurnMessage, FinishTurn, StartTurn
<1>4. ASSUME NEW ready \in BOOLEAN, Frame(ready)
      PROVE  AskedIsPending'
  <2>1. game' = game
    BY <1>4 DEF Frame, OnFrame
  <2>2. CASE GameLive
    <3>1. state' = ConsumeOneShots(state) /\ asked' = asked \cap (HeldActions \ {"fire"})
      BY <1>4, <2>2 DEF Frame, OnFrame, ApplyHeldInput
    <3>2. state'.held = state.held /\ state'.jump = FALSE /\ "jump" \notin HeldActions
      BY <3>1 DEF ConsumeOneShots, ControlStates, HeldActions
    <3> QED
      BY <2>1, <2>2, <3>1, <3>2
  <2>3. CASE ~GameLive
    <3>1. state' = state /\ asked' = asked
      BY <1>4, <2>3 DEF Frame, OnFrame
    <3>2. charging' = FALSE
      BY <1>4, <2>3 DEF Frame, FrameMessages
    <3> QED
      BY <2>1, <2>3, <3>1, <3>2
  <2> QED
    BY <2>2, <2>3
<1>5. ASSUME NEW cmd \in Commands, Command(cmd)
      PROVE  AskedIsPending'
  <2>1. cmd.phase = "press" \/ cmd.phase = "release"
    BY DEF Commands, Phases
  <2> QED
    BY <1>5, <2>1 DEF Command, HandleCommand, ApplyEdge, ControlStates, HeldActions
<1>6. CASE UNCHANGED vars
  BY <1>6 DEF vars, hookVars, historyVars
<1> QED
  BY <1>1, <1>2, <1>3, <1>4, <1>5, <1>6 DEF Next

(* No edge is forgotten between the IPC thread's apply and the game thread's *)
(* read: a level or a jump that was asked for and neither withdrawn, served  *)
(* nor torn down is still there, and no charge is left over from a game that *)
(* has ended.                                                                *)
THEOREM NothingAskedIsForgotten == Spec => []AskedIsPending
<1>1. Init => AskedIsPending
  BY DEF Init, HooksInit, AskedIsPending, EmptyState
<1> QED
  BY <1>1, NextPending, Invariance, PTL DEF Spec

\* What a frame of a live game sends for what is pending.
LEMMA FrameServes ==
  ASSUME Inv, AskedIsPending, GameLive, NEW ready \in BOOLEAN, Frame(ready)
  PROVE  /\ "jump" \in asked => "jump" \in out'
         /\ asked \cap (HeldActions \ {"fire"}) \subseteq out'
         /\ charging /\ "fire" \notin state.held => "ReleaseWeapon" \in out' /\ ~charging'
<1>1. out' = Dispatched(ready)
  BY DEF Frame, FrameMessages
<1>2. wasFiring = charging
  BY DEF Inv, StateIsAsked
<1>3. "jump" \in asked => "jump" \in out'
  BY <1>1 DEF Dispatched, AskedIsPending
<1>4. asked \cap (HeldActions \ {"fire"}) \subseteq out'
  BY <1>1 DEF Dispatched, AskedIsPending
<1>5. ASSUME charging, "fire" \notin state.held
      PROVE  "ReleaseWeapon" \in out' /\ ~charging'
  <2>1. "ReleaseWeapon" \in FireMessages(state, wasFiring)
    BY <1>2, <1>5 DEF FireMessages
  <2>2. "ReleaseWeapon" \in FrameMessages(ready)
    BY <2>1 DEF FrameMessages, Dispatched
  <2> QED
    BY <1>1, <2>1, <2>2 DEF Frame, Dispatched
<1> QED
  BY <1>3, <1>4, <1>5

(* The safety half of JumpIsServed: in a live game a jump stays asked for    *)
(* until WA gets it or the game ends, and the very next frame hands it over. *)
(* With a frame that comes, which is the fairness, it is served.             *)
JumpWaitsForAFrame ==
  [][GameLive /\ "jump" \in asked
       => /\ "jump" \in out' \/ ~GameLive' \/ "jump" \in asked'
          /\ (\E ready \in BOOLEAN : Frame(ready)) => "jump" \in out']_vars

(* The safety half of ReleaseLaunches: the charge of a button that is up     *)
(* ends with a launch or with the game, and the very next frame launches it. *)
ChargeWaitsForAFrame ==
  [][charging /\ "fire" \notin state.held
       => /\ "ReleaseWeapon" \in out' \/ ~GameLive' \/ charging'
          /\ (\E ready \in BOOLEAN : Frame(ready)) => "ReleaseWeapon" \in out']_vars

THEOREM FramesServeWhatIsAsked == Spec => JumpWaitsForAFrame /\ ChargeWaitsForAFrame
<1>1. ASSUME Inv, AskedIsPending, Next, GameLive, "jump" \in asked
      PROVE  /\ "jump" \in out' \/ ~GameLive' \/ "jump" \in asked'
             /\ (\E ready \in BOOLEAN : Frame(ready)) => "jump" \in out'
  <2>1. (\E ready \in BOOLEAN : Frame(ready)) => "jump" \in out'
    BY <1>1, FrameServes
  <2>2. CASE NoTurnMessage \/ TurnMessage
    BY <1>1, <2>1, <2>2 DEF NoTurnMessage, TurnMessage
  <2>3. CASE TearDown
    BY <2>1, <2>3 DEF TearDown, DestroyGameGlobal, GameLive
  <2>4. CASE \E cmd \in Commands : Command(cmd)
    BY <1>1, <2>1, <2>4 DEF Command, HeldActions
  <2> QED
    BY <1>1, <2>1, <2>2, <2>3, <2>4 DEF Next
<1>2. ASSUME Inv, AskedIsPending, Next, charging, "fire" \notin state.held
      PROVE  /\ "ReleaseWeapon" \in out' \/ ~GameLive' \/ charging'
             /\ (\E ready \in BOOLEAN : Frame(ready)) => "ReleaseWeapon" \in out'
  <2>1. GameLive
    BY <1>2 DEF AskedIsPending
  <2>2. (\E ready \in BOOLEAN : Frame(ready)) => "ReleaseWeapon" \in out'
    BY <1>2, <2>1, FrameServes
  <2>3. CASE NoTurnMessage \/ TurnMessage
    BY <1>2, <2>2, <2>3 DEF NoTurnMessage, TurnMessage
  <2>4. CASE TearDown
    BY <2>2, <2>4 DEF TearDown, DestroyGameGlobal, GameLive
  <2>5. CASE \E cmd \in Commands : Command(cmd)
    BY <1>2, <2>2, <2>5 DEF Command
  <2> QED
    BY <1>2, <2>2, <2>3, <2>4, <2>5 DEF Next
<1>3. Inv /\ AskedIsPending /\ [Next]_vars
        => [GameLive /\ "jump" \in asked
              => /\ "jump" \in out' \/ ~GameLive' \/ "jump" \in asked'
                 /\ (\E ready \in BOOLEAN : Frame(ready)) => "jump" \in out']_vars
  BY <1>1
<1>4. Inv /\ AskedIsPending /\ [Next]_vars
        => [charging /\ "fire" \notin state.held
              => /\ "ReleaseWeapon" \in out' \/ ~GameLive' \/ charging'
                 /\ (\E ready \in BOOLEAN : Frame(ready)) => "ReleaseWeapon" \in out']_vars
  BY <1>2
<1> QED
  BY <1>3, <1>4, Invariance, NothingAskedIsForgotten, PTL
     DEF Spec, JumpWaitsForAFrame, ChargeWaitsForAFrame
=============================================================================
