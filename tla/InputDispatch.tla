---------------------------- MODULE InputDispatch -----------------------------
(***************************************************************************)
(* ControlHooks.tla as the game and the players see it: which messages WA   *)
(* receives ("out", those of the last step) set against which edges the     *)
(* clients sent.  The other variables are history, no part of the program:  *)
(*                                                                          *)
(*   charging  WA got a FireWeapon in this game and no ReleaseWeapon since   *)
(*   asked     inputs pressed since the last teardown, not withdrawn by a    *)
(*             release and, for fire and the one-shots, not yet served       *)
(***************************************************************************)
EXTENDS ControlHooks

VARIABLES out, charging, asked

historyVars == <<out, charging, asked>>
vars == <<hookVars, historyVars>>

Messages == (Actions \ {"fire"}) \cup {"FireWeapon", "ReleaseWeapon"}

\* The input whose press a message answers; a launch answers a release.
Answers(message) == IF message = "FireWeapon" THEN "fire" ELSE message

Init ==
  /\ HooksInit
  /\ out = {}
  /\ charging = FALSE
  /\ asked = {}

-----------------------------------------------------------------------------
NoTurnMessage ==
  /\ InitializeW2App \/ ConstructGameGlobal \/ DestroyReturns
  /\ out' = {}
  /\ UNCHANGED <<charging, asked>>

TearDown ==
  /\ DestroyGameGlobal
  /\ out' = {}
  /\ charging' = FALSE
  /\ asked' = {}

TurnMessage ==
  /\ FinishTurn \/ \E team \in Teams : StartTurn(team)
  /\ out' = {}
  /\ UNCHANGED <<charging, asked>>

\* The messages of a frame; none between games.
FrameMessages(ready) == {m \in Dispatched(ready) : GameLive}

Frame(ready) ==
  /\ OnFrame
  /\ out' = FrameMessages(ready)
  /\ charging' = ((charging \/ "FireWeapon" \in FrameMessages(ready))
                   /\ "ReleaseWeapon" \notin FrameMessages(ready))
  /\ asked' = IF GameLive THEN asked \cap (HeldActions \ {"fire"}) ELSE asked

\* A press asks; a release withdraws a level, and leaves a one-shot alone.
Command(cmd) ==
  /\ HandleCommand(cmd)
  /\ out' = {}
  /\ asked' = IF cmd.phase = "press" THEN asked \cup {cmd.action}
                                     ELSE asked \ ({cmd.action} \cap HeldActions)
  /\ UNCHANGED charging

Next ==
  \/ NoTurnMessage
  \/ TearDown
  \/ TurnMessage
  \/ \E ready \in BOOLEAN : Frame(ready)
  \/ \E cmd \in Commands : Command(cmd)

Spec == Init /\ [][Next]_vars

(* WA runs its logic frames for as long as a game lives: FrameFinish comes   *)
(* about 50 times a second (IpcServer.cpp).  Nothing else need ever happen.  *)
FairSpec == Spec /\ WF_vars(\E ready \in BOOLEAN : Frame(ready))

-----------------------------------------------------------------------------
(* Types of the code's state and of the history.                             *)
TypeOK ==
  /\ HooksTypeOK
  /\ out \subseteq Messages
  /\ charging \in BOOLEAN
  /\ asked \subseteq Inputs

(* WA never gets a second FireWeapon while one is charging, nor a            *)
(* ReleaseWeapon that ends no charge of the same game, however edges, frames *)
(* and teardowns interleave: g_wasFiring in ControlHooks.cpp must agree with *)
(* what WA was told.                                                         *)
FireAlternates ==
  [][/\ "FireWeapon" \in out' => ~charging
     /\ "ReleaseWeapon" \in out' => charging]_vars

(* WA gets no input nobody asked for: each message but a launch answers a    *)
(* press of the same epoch (since the last teardown) that was neither        *)
(* withdrawn nor, for fire and the one-shots, served before.                 *)
DispatchIsAsked ==
  [][\A m \in out' \ {"ReleaseWeapon"} : Answers(m) \in asked]_vars

(* What makes the two inductive: the code's state never requests more than   *)
(* was asked, and g_wasFiring is exactly "WA is charging".                   *)
StateIsAsked ==
  /\ wasFiring = charging
  /\ Requested(state) \ {"fire"} \subseteq asked
  /\ "fire" \in state.held /\ ~wasFiring => "fire" \in asked

(* A jump pressed during a game is handed to WA, or the game ends: the       *)
(* one-shot cannot be stranded between the two threads.                      *)
JumpIsServed ==
  (GameLive /\ "jump" \in asked) ~> ("jump" \in out \/ ~GameLive)

(* A charge whose button is up is launched by a later frame, unless the      *)
(* player presses again or the game ends first.                              *)
ReleaseLaunches ==
  (charging /\ "fire" \notin state.held)
    ~> (~charging \/ "fire" \in state.held)

=============================================================================
