------------------------- MODULE ControlChannelProofs -------------------------
(***************************************************************************)
(* What ControlChannel.tla claims of held inputs, for any sockets, users,   *)
(* teams and owners, any subset of the actions and any bounds.  The central *)
(* lemmas say how a step of either end changes the level the DLL will hold  *)
(* once the wire is drained (LevelAfter): appending edges overrides it for  *)
(* their actions, and handling the oldest command does not change it.       *)
(***************************************************************************)
EXTENDS ControlChannel, ControlHooksProofs, SequenceTheorems, FiniteSetTheorems,
        WellFoundedInduction, TLAPS

-----------------------------------------------------------------------------
(* Levels.                                                                   *)

\* After more commands a level is down by one of their presses, or it was down
\* before and none of them is about it.
LEMMA LevelAfterMore ==
  ASSUME NEW old \in Seq(WireCommands), NEW new \in Seq(WireCommands),
         NEW s \in ControlStates, NEW a, LevelAfter(old \o new, s, a)
  PROVE  \/ \E i \in DOMAIN new : new[i].action = a /\ new[i].phase = "press"
         \/ /\ LevelAfter(old, s, a)
            /\ \A i \in DOMAIN new : new[i].action # a
<1> DEFINE both == old \o new
<1>1. /\ Len(old) \in Nat /\ DOMAIN old = 1 .. Len(old)
      /\ Len(new) \in Nat /\ DOMAIN new = 1 .. Len(new)
      /\ DOMAIN both = 1 .. (Len(old) + Len(new))
      /\ \A i \in 1 .. Len(old) + Len(new) :
           both[i] = IF i <= Len(old) THEN old[i] ELSE new[i - Len(old)]
  BY LenProperties, ConcatProperties
<1>2. \A i \in DOMAIN old : i \in DOMAIN both /\ both[i] = old[i]
  BY <1>1
<1>3. \A i \in DOMAIN new : i + Len(old) \in DOMAIN both /\ both[i + Len(old)] = new[i]
  BY <1>1
<1> HIDE DEF both
<1>4. LevelAfter(both, s, a)
  BY DEF both
<1>5. ASSUME NEW i \in DOMAIN both, both[i].action = a, both[i].phase = "press",
             \A j \in DOMAIN both : both[j].action = a => j <= i
      PROVE  \/ \E k \in DOMAIN new : new[k].action = a /\ new[k].phase = "press"
             \/ /\ LevelAfter(old, s, a)
                /\ \A k \in DOMAIN new : new[k].action # a
  <2>1. CASE i <= Len(old)
    <3>1. i \in DOMAIN old /\ both[i] = old[i]
      BY <1>1, <2>1
    <3>2. \A k \in DOMAIN new : new[k].action # a
      <4> SUFFICES ASSUME NEW k \in DOMAIN new, new[k].action = a
                   PROVE  FALSE
        OBVIOUS
      <4>1. k + Len(old) \in DOMAIN both /\ both[k + Len(old)].action = a
        BY <1>3
      <4>2. k + Len(old) <= i
        BY <1>5, <4>1
      <4> QED
        BY <1>1, <2>1, <4>2
    <3>3. \A j \in DOMAIN old : old[j].action = a => j <= i
      BY <1>2, <1>5
    <3> QED
      BY <1>5, <3>1, <3>2, <3>3 DEF LevelAfter
  <2>2. CASE ~(i <= Len(old))
    <3>1. i - Len(old) \in DOMAIN new /\ both[i] = new[i - Len(old)]
      BY <1>1, <2>2
    <3> QED
      BY <1>5, <3>1
  <2> QED
    BY <2>1, <2>2
<1>6. ASSUME a \in s.held, \A i \in DOMAIN both : both[i].action # a
      PROVE  /\ LevelAfter(old, s, a)
             /\ \A k \in DOMAIN new : new[k].action # a
  BY <1>2, <1>3, <1>6 DEF LevelAfter
<1> QED
  BY <1>4, <1>5, <1>6 DEF LevelAfter

\* Handling the oldest command leaves no level down that was not due to be.
LEMMA LevelAfterHead ==
  ASSUME NEW w \in Seq(WireCommands), w # << >>,
         NEW s \in ControlStates, NEW a \in HeldActions,
         LevelAfter(Tail(w),
                    ApplyEdge(s, Head(w).action, Head(w).phase, Head(w).value), a)
  PROVE  LevelAfter(w, s, a)
<1> DEFINE rest == Tail(w)
           after == ApplyEdge(s, Head(w).action, Head(w).phase, Head(w).value)
<1>1. /\ Len(w) \in Nat /\ DOMAIN w = 1 .. Len(w) /\ Len(w) >= 1
      /\ DOMAIN rest = 1 .. (Len(w) - 1)
      /\ \A i \in 1 .. Len(w) - 1 : rest[i] = w[i + 1]
      /\ Head(w) = w[1]
  BY LenProperties, HeadTailProperties, EmptySeq
<1>2. \A i \in DOMAIN w : i = 1 \/ (i - 1 \in DOMAIN rest /\ rest[i - 1] = w[i])
  BY <1>1
<1>3. a \in after.held <=> \/ a \in s.held /\ a # w[1].action
                           \/ a = w[1].action /\ w[1].phase = "press"
  BY <1>1 DEF ApplyEdge
<1>4. LevelAfter(rest, after, a)
  OBVIOUS
<1> HIDE DEF rest, after
<1>5. ASSUME NEW i \in DOMAIN rest, rest[i].action = a, rest[i].phase = "press",
             \A j \in DOMAIN rest : rest[j].action = a => j <= i
      PROVE  LevelAfter(w, s, a)
  <2>1. i + 1 \in DOMAIN w /\ w[i + 1] = rest[i]
    BY <1>1
  <2>2. ASSUME NEW j \in DOMAIN w, w[j].action = a
        PROVE  j <= i + 1
    <3>1. CASE j = 1
      BY <1>1, <3>1
    <3>2. CASE j # 1
      <4>1. j - 1 \in DOMAIN rest /\ rest[j - 1] = w[j]
        BY <1>2, <3>2
      <4>2. j - 1 <= i
        BY <1>5, <2>2, <4>1
      <4> QED
        BY <1>1, <4>2
    <3> QED
      BY <3>1, <3>2
  <2> QED
    BY <1>5, <2>1, <2>2 DEF LevelAfter
<1>6. ASSUME a \in after.held, \A i \in DOMAIN rest : rest[i].action # a
      PROVE  LevelAfter(w, s, a)
  <2>1. \A j \in DOMAIN w : w[j].action = a => j = 1
    BY <1>2, <1>6
  <2>2. CASE a = w[1].action /\ w[1].phase = "press"
    BY <1>1, <2>1, <2>2 DEF LevelAfter
  <2>3. CASE a \in s.held /\ a # w[1].action
    BY <2>1, <2>3 DEF LevelAfter
  <2> QED
    BY <1>3, <1>6, <2>2, <2>3
<1> QED
  BY <1>4, <1>5, <1>6 DEF LevelAfter

\* A state that holds less keeps no more levels down.
LEMMA LevelMonotonic ==
  ASSUME NEW w, NEW s, NEW t, NEW a, t.held \subseteq s.held, LevelAfter(w, t, a)
  PROVE  LevelAfter(w, s, a)
  BY DEF LevelAfter

-----------------------------------------------------------------------------
(* Types.                                                                    *)

\* A handler holds finitely many inputs.
LEMMA HeldFinite ==
  ASSUME NEW S, S \subseteq HeldInputs
  PROVE  Cardinality(S) \in Nat
<1>1. IsFiniteSet({}) /\ IsFiniteSet({"move_left"})
  BY FS_EmptySet, FS_Singleton
<1>2. IsFiniteSet({"move_left"} \cup {"move_right"})
  BY <1>1, FS_AddElement
<1>3. IsFiniteSet(({"move_left"} \cup {"move_right"}) \cup {"aim_up"})
  BY <1>2, FS_AddElement
<1>4. IsFiniteSet((({"move_left"} \cup {"move_right"}) \cup {"aim_up"}) \cup {"aim_down"})
  BY <1>3, FS_AddElement
<1>5. IsFiniteSet(((({"move_left"} \cup {"move_right"}) \cup {"aim_up"}) \cup {"aim_down"})
                    \cup {"fire"})
  BY <1>4, FS_AddElement
<1>6. HeldActions = ((({"move_left"} \cup {"move_right"}) \cup {"aim_up"})
                      \cup {"aim_down"}) \cup {"fire"}
  BY DEF HeldActions
<1>7. IsFiniteSet(HeldActions) /\ S \in SUBSET HeldActions
  BY <1>5, <1>6 DEF HeldInputs
<1> QED
  BY <1>7, FS_Subset, FS_CardinalityType

\* What _release_held sends: one release for every held input, no other line.
LEMMA ReleaseLines ==
  ASSUME TypeOK, NEW s \in Sockets, heldTeam[s] # NoTeam,
         NEW lines \in Releases(s)
  PROVE  /\ lines \in Seq(WireCommands)
         /\ \A i \in DOMAIN lines : lines[i].phase = "release"
         /\ {lines[i].action : i \in DOMAIN lines} = held[s]
<1> DEFINE n == Cardinality(held[s])
<1>1. held[s] \subseteq HeldInputs /\ held[s] \subseteq Inputs /\ heldTeam[s] \in Teams
  BY DEF TypeOK, HeldInputs
<1>2. n \in Nat
  BY <1>1, HeldFinite
<1> HIDE DEF n
<1>3. PICK o \in [1 .. n -> held[s]] :
        /\ \A a \in held[s] : \E i \in 1 .. n : o[i] = a
        /\ lines = [i \in 1 .. n |-> Command(heldTeam[s], o[i], "release", 0)]
  BY DEF Releases, n
<1>4. \A i \in 1 .. n : Command(heldTeam[s], o[i], "release", 0) \in WireCommands
  BY <1>1 DEF Command, WireCommands, Phases
<1>5. lines \in [1 .. n -> WireCommands]
  BY <1>3, <1>4
<1>6. lines \in Seq(WireCommands)
  BY <1>2, <1>5, SeqDef
<1>7. DOMAIN lines = 1 .. n
      /\ \A i \in 1 .. n : lines[i].phase = "release" /\ lines[i].action = o[i]
  BY <1>3 DEF Command
<1> QED
  BY <1>3, <1>6, <1>7

\* Sending lines keeps the stream well formed and severs nothing.
LEMMA SendTypes ==
  ASSUME TypeOK, NEW lines \in Seq(WireCommands), Send(lines)
  PROVE  wire' \in Seq(WireCommands) /\ severed' \subseteq severed
  BY ConcatProperties DEF TypeOK, Send

\* So does releasing what a handler holds.
LEMMA ReleaseTypes ==
  ASSUME TypeOK, NEW s \in Sockets, ReleaseHeld(s)
  PROVE  wire' \in Seq(WireCommands) /\ severed' \subseteq HeldInputs
<1>1. ASSUME heldTeam[s] # NoTeam, NEW lines \in Releases(s), Send(lines)
      PROVE  wire' \in Seq(WireCommands) /\ severed' \subseteq severed
  BY <1>1, ReleaseLines, SendTypes
<1> QED
  BY <1>1 DEF ReleaseHeld, TypeOK

\* Losing the tail of the stream leaves a stream.
LEMMA LoseTypes ==
  ASSUME TypeOK, LoseTail
  PROVE  wire' \in Seq(WireCommands) /\ severed' \subseteq HeldInputs
<1>1. PICK k \in 0 .. Len(wire) :
        /\ wire' = SubSeq(wire, 1, k)
        /\ severed' = {a \in HeldInputs : LevelAfter(wire', state, a)}
  BY DEF LoseTail
<1>2. Len(wire) \in Nat /\ \A i \in 1 .. Len(wire) : wire[i] \in WireCommands
  BY LenProperties, ElementOfSeq DEF TypeOK
<1>3. k \in Int /\ \A i \in 1 .. k : wire[i] \in WireCommands
  BY <1>2
<1>4. SubSeq(wire, 1, k) \in Seq(WireCommands)
  BY <1>3, SubSeqProperties
<1> QED
  BY <1>1, <1>4

\* Closing a handler forgets what it holds.
LEMMA CloseTypes ==
  ASSUME TypeOK, NEW s \in Sockets, CloseHandler(s)
  PROVE  /\ open' \subseteq Sockets
         /\ held' \in [Sockets -> SUBSET HeldInputs]
         /\ heldTeam' \in [Sockets -> Teams \cup {NoTeam}]
  BY DEF TypeOK, CloseHandler

\* The command a handler sends for an allowed message.
LEMMA SentLine ==
  ASSUME TypeOK, NEW s \in Sockets, IsUsersTurn(s), NEW cmd \in Commands
  PROVE  <<Command(latest, cmd.action, cmd.phase, cmd.value)>> \in Seq(WireCommands)
<1>1. latest \in Teams
  BY DEF IsUsersTurn
<1> DEFINE line == Command(latest, cmd.action, cmd.phase, cmd.value)
<1>2. /\ cmd.action \in Inputs /\ cmd.phase \in Phases
      /\ cmd.value \in Values \cup {0}
  BY DEF Commands
<1>3. cmd.action = "select_weapon" \/ cmd.value = 0
  BY DEF Commands
<1>4. line \in [team : Teams, action : Inputs, phase : Phases, value : Values \cup {0}]
  BY <1>1, <1>2 DEF Command
<1>5. line.action = cmd.action /\ line.value = cmd.value
  BY DEF Command
<1>6. line \in WireCommands
  BY <1>3, <1>4, <1>5 DEF WireCommands
<1> QED
  BY <1>6

\* Tracking a sent command keeps the types.
LEMMA TrackTypes ==
  ASSUME TypeOK, NEW s \in Sockets, latest \in Teams, NEW cmd \in Commands,
         Track(s, cmd.action, cmd.phase)
  PROVE  /\ held' \in [Sockets -> SUBSET HeldInputs]
         /\ heldTeam' \in [Sockets -> Teams \cup {NoTeam}]
<1>1. cmd.action \in Inputs
  BY DEF Commands
<1>2. {cmd.action} \cap HeldActions \subseteq HeldInputs
  BY <1>1 DEF HeldInputs
<1> QED
  BY <1>2 DEF TypeOK, Track

\* Every variable starts in its type.
LEMMA InitTypes == Init => TypeOK
<1> SUFFICES ASSUME Init
             PROVE  TypeOK
  OBVIOUS
<1>1. HooksTypeOK
  BY HooksInitTypes DEF Init
<1>2. faults \in 0 .. MaxFaults
  BY BoundsAssumption DEF Init
<1>3. wire \in Seq(WireCommands) /\ pushed \in Seq(Teams \cup {NoTeam})
  BY EmptySeq DEF Init
<1>4. owner \in [Teams -> Users \cup {NoUser}]
  BY OwnerAssumption DEF Init
<1> QED
  BY <1>1, <1>2, <1>3, <1>4 DEF Init, TypeOK

\* A step of a handler keeps the types.
LEMMA HandlerTypes ==
  ASSUME TypeOK, NEW s \in Sockets, Handler(s)
  PROVE  TypeOK'
<1>1. CASE Connect(s)
  BY <1>1 DEF Connect, TypeOK, HooksTypeOK, hookVars, linkVars
<1>2. ASSUME NEW cmd \in Commands, ReceiveAllowed(s, cmd.action, cmd.phase, cmd.value)
      PROVE  TypeOK'
  <2>1. latest \in Teams
    BY <1>2 DEF ReceiveAllowed, IsUsersTurn
  <2>2. wire' \in Seq(WireCommands) /\ severed' \subseteq HeldInputs
    BY <1>2, SentLine, SendTypes DEF ReceiveAllowed, TypeOK
  <2>3. /\ held' \in [Sockets -> SUBSET HeldInputs]
        /\ heldTeam' \in [Sockets -> Teams \cup {NoTeam}]
    BY <1>2, <2>1, TrackTypes DEF ReceiveAllowed
  <2> QED
    BY <1>2, <2>2, <2>3 DEF ReceiveAllowed, TypeOK, HooksTypeOK, hookVars
<1>3. CASE ReceiveRefused(s)
  <2>1. wire' \in Seq(WireCommands) /\ severed' \subseteq HeldInputs
    BY <1>3, ReleaseTypes DEF ReceiveRefused
  <2> QED
    BY <1>3, <2>1 DEF ReceiveRefused, TypeOK, HooksTypeOK, hookVars
<1>4. CASE ReceiveOffline(s)
  BY <1>4 DEF ReceiveOffline, vars, hookVars, backendVars, linkVars, TypeOK, HooksTypeOK
<1>5. CASE Disconnect(s)
  <2>1. wire' \in Seq(WireCommands) /\ severed' \subseteq HeldInputs
    BY <1>5, ReleaseTypes DEF Disconnect
  <2>2. CloseHandler(s)
    BY <1>5 DEF Disconnect
  <2> QED
    BY <1>5, <2>1, <2>2, CloseTypes DEF Disconnect, TypeOK, HooksTypeOK, hookVars
<1> QED
  BY <1>1, <1>2, <1>3, <1>4, <1>5 DEF Handler, Receive

\* A step of the transport keeps the types.
LEMMA TransportTypes ==
  ASSUME TypeOK, Transport
  PROVE  TypeOK'
<1> USE DEF TypeOK, HooksTypeOK, hookVars, backendVars
<1>1. CASE Reconnect
  BY <1>1 DEF Reconnect
<1>2. CASE Deliver
  <2>1. Head(pushed) \in Teams \cup {NoTeam} /\ Tail(pushed) \in Seq(Teams \cup {NoTeam})
    BY <1>2, HeadTailProperties DEF Deliver
  <2> QED
    BY <1>2, <2>1 DEF Deliver
<1>3. CASE IdleTimeout
  <2>1. faults' \in 0 .. MaxFaults
    BY <1>3, BoundsAssumption DEF IdleTimeout, Fault
  <2> QED
    BY <1>3, <2>1 DEF IdleTimeout
<1>4. CASE Notice
  BY <1>4, EmptySeq DEF Notice
<1>5. CASE GoOffline
  BY <1>5 DEF GoOffline
<1> QED
  BY <1>1, <1>2, <1>3, <1>4, <1>5 DEF Transport

\* A step of the DLL keeps the types.
LEMMA DllTypes ==
  ASSUME TypeOK, Dll
  PROVE  TypeOK'
<1>1. CASE DllReceive
  <2>1. Head(wire) \in WireCommands /\ Tail(wire) \in Seq(WireCommands)
    BY <1>1, HeadTailProperties DEF DllReceive, TypeOK
  <2>2. Head(wire).value \in Values \cup {0}
    BY <2>1 DEF WireCommands
  <2>3. HooksTypeOK'
    BY <1>1, <2>2, CommandTypes DEF DllReceive, TypeOK
  <2> QED
    BY <1>1, <2>1, <2>3 DEF DllReceive, TypeOK, backendVars
<1>2. CASE Frame
  <2>1. HooksTypeOK' /\ BuildSnapshot.turn_team \in Teams \cup {NoTeam}
    BY <1>2, FrameTypes, SnapshotType DEF Frame, TypeOK
  <2>2. pushed' \in Seq(Teams \cup {NoTeam})
    <3>1. pushed \in Seq(Teams \cup {NoTeam})
      BY DEF TypeOK
    <3>2. pushed' \in {pushed, Append(pushed, BuildSnapshot.turn_team)}
      BY <1>2 DEF Frame
    <3> QED
      BY <2>1, <3>1, <3>2, AppendProperties
  <2> QED
    BY <1>2, <2>1, <2>2 DEF Frame, TypeOK, backendVars
<1>3. CASE Game
  BY <1>3, GameStepTypes DEF Game, TypeOK, backendVars, linkVars
<1> QED
  BY <1>1, <1>2, <1>3 DEF Dll

\* A failure keeps the types.
LEMMA FailureTypes ==
  ASSUME TypeOK, Failure
  PROVE  TypeOK'
<1>1. ASSUME Fault
      PROVE  faults' \in 0 .. MaxFaults
  BY <1>1, BoundsAssumption DEF Fault, TypeOK
<1>2. CASE Break
  BY <1>1, <1>2, LoseTypes DEF Break, TypeOK, HooksTypeOK, hookVars, backendVars
<1>3. CASE WaRestart
  BY <1>1, <1>3, ReloadTypes, EmptySeq DEF WaRestart, TypeOK, backendVars
<1>4. CASE BackendRestart
  BY <1>1, <1>4, LoseTypes, EmptySeq
     DEF BackendRestart, TypeOK, HooksTypeOK, hookVars
<1>5. ASSUME NEW s \in Sockets, HandlerFails(s)
      PROVE  TypeOK'
  <2>1. CloseHandler(s)
    BY <1>5 DEF HandlerFails
  <2> QED
    BY <1>1, <1>5, <2>1, CloseTypes
       DEF HandlerFails, TypeOK, HooksTypeOK, hookVars, linkVars
<1> QED
  BY <1>2, <1>3, <1>4, <1>5 DEF Failure

\* So does a change of the claim table.
LEMMA OwnerTypes ==
  ASSUME TypeOK, OwnerChanges
  PROVE  TypeOK'
<1>1. faults' \in 0 .. MaxFaults
  BY BoundsAssumption DEF OwnerChanges, Fault, TypeOK
<1>2. owner' \in [Teams -> Users \cup {NoUser}]
  <2>1. ASSUME NEW team \in Teams, NEW user \in Users, ClaimTeam(team, user)
        PROVE  owner' \in [Teams -> Users \cup {NoUser}]
    BY <2>1 DEF ClaimTeam, TypeOK
  <2>2. ASSUME NEW teams, FreeTeams(teams)
        PROVE  owner' \in [Teams -> Users \cup {NoUser}]
    BY <2>2 DEF FreeTeams, TypeOK
  <2> QED
    BY <2>1, <2>2 DEF OwnerChanges
<1> QED
  BY <1>1, <1>2 DEF OwnerChanges, TypeOK, HooksTypeOK, hookVars, linkVars

\* Every step keeps the types.
LEMMA NextTypes == TypeOK /\ [Next]_vars => TypeOK'
<1>1. TypeOK /\ UNCHANGED vars => TypeOK'
  BY DEF vars, hookVars, backendVars, linkVars, TypeOK, HooksTypeOK
<1> QED
  BY <1>1, HandlerTypes, TransportTypes, DllTypes, FailureTypes, OwnerTypes DEF Next

(* Types, for every value of the constants.                                  *)
THEOREM TypeCorrect == Spec => []TypeOK
  BY InitTypes, NextTypes, PTL DEF Spec

-----------------------------------------------------------------------------
(* Whoever holds an input has a team.                                        *)

HeldInv == TypeOK /\ HeldHasTeam

\* Every step keeps held and held_team in agreement.
LEMMA NextHeld == HeldInv /\ [Next]_vars => HeldHasTeam'
<1> SUFFICES ASSUME HeldInv, [Next]_vars
             PROVE  HeldHasTeam'
  OBVIOUS
<1> USE DEF HeldInv, HeldHasTeam
<1>1. ASSUME UNCHANGED backendVars
      PROVE  HeldHasTeam'
  BY <1>1 DEF backendVars
<1>2. ASSUME NEW s \in Sockets, Connect(s)
      PROVE  HeldHasTeam'
  BY <1>2 DEF Connect
<1>3. ASSUME NEW s \in Sockets, NEW cmd \in Commands,
             ReceiveAllowed(s, cmd.action, cmd.phase, cmd.value)
      PROVE  HeldHasTeam'
  <2>1. /\ open' = open /\ s \in open
        /\ latest \in Teams /\ latest # NoTeam
    BY <1>3, NoTeamAssumption DEF ReceiveAllowed, IsUsersTurn
  <2>2. /\ \A r \in Sockets \ {s} : held'[r] = held[r] /\ heldTeam'[r] = heldTeam[r]
        /\ cmd.action \in HeldActions => heldTeam'[s] = latest
        /\ cmd.action \notin HeldActions =>
             heldTeam'[s] = heldTeam[s] /\ held'[s] \subseteq held[s]
    BY <1>3 DEF ReceiveAllowed, Track, TypeOK
  <2> QED
    BY <2>1, <2>2
<1>4. ASSUME NEW s \in Sockets, ReceiveRefused(s)
      PROVE  HeldHasTeam'
  BY <1>4 DEF ReceiveRefused, TypeOK
<1>5. ASSUME NEW s \in Sockets, CloseHandler(s)
      PROVE  HeldHasTeam'
  BY <1>5 DEF CloseHandler, TypeOK
<1>6. CASE BackendRestart
  BY <1>6 DEF BackendRestart
<1>7. ASSUME NEW s \in Sockets, ReceiveOffline(s)
      PROVE  UNCHANGED backendVars
  BY <1>7 DEF ReceiveOffline, vars
<1>8. CASE Transport \/ Dll \/ Break \/ WaRestart \/ UNCHANGED vars
  <2>1. UNCHANGED backendVars
    BY <1>8 DEF Transport, Reconnect, Deliver, IdleTimeout, Notice, GoOffline,
                Dll, DllReceive, Frame, Game, Break, WaRestart, vars
  <2> QED
    BY <1>1, <2>1
<1>9. CASE OwnerChanges
  BY <1>9 DEF OwnerChanges
<1> QED
  BY <1>1, <1>2, <1>3, <1>4, <1>5, <1>6, <1>7, <1>8, <1>9
     DEF Next, Handler, Receive, Disconnect, Failure, HandlerFails

\* The agreement, with the types it rests on, holds throughout.
LEMMA HeldInvariance == Spec => []HeldInv
<1>1. Init => HeldInv
  BY InitTypes DEF Init, HeldInv, HeldHasTeam
<1>2. HeldInv /\ [Next]_vars => HeldInv'
  BY NextTypes, NextHeld DEF HeldInv
<1> QED
  BY <1>1, <1>2, PTL DEF Spec

(* A socket holds inputs only while it is open, and for a team: _release_held *)
(* never returns early with something held, whoever owns the team by then.   *)
THEOREM HeldAlwaysHasTeam == Spec => []HeldHasTeam
<1>1. HeldInv => HeldHasTeam
  BY DEF HeldInv
<1> QED
  BY <1>1, HeldInvariance, PTL

-----------------------------------------------------------------------------
(* No level is left down.                                                    *)

\* A link that is not up has taken the release of every level still down.
LinkLost ==
  link # "up" => \A a \in HeldInputs : Down(a) => a \in severed

HoldInv == HeldInv /\ NoOrphanHold /\ LinkLost

\* Sending lines over a live link leaves a level down only by a press among
\* them, or if it was down and they do not mention it; only then does it stay
\* severed.
LEMMA SendLevels ==
  ASSUME TypeOK, NEW lines \in Seq(WireCommands), Send(lines), state' = state,
         NEW a, Down(a)'
  PROVE  \/ \E i \in DOMAIN lines : lines[i].action = a /\ lines[i].phase = "press"
         \/ /\ Down(a)
            /\ \A i \in DOMAIN lines : lines[i].action # a
            /\ a \in severed => a \in severed'
<1>1. wire \in Seq(WireCommands) /\ state \in ControlStates
  BY DEF TypeOK, HooksTypeOK
<1>2. LevelAfter(wire \o lines, state, a)
  BY DEF Down, Send
<1>3. \/ \E i \in DOMAIN lines : lines[i].action = a /\ lines[i].phase = "press"
      \/ /\ LevelAfter(wire, state, a)
         /\ \A i \in DOMAIN lines : lines[i].action # a
  BY <1>1, <1>2, LevelAfterMore
<1> QED
  BY <1>3 DEF Down, Send

\* After _release_held a level is down only if it was, and it is not one the
\* handler held, or is severed.
LEMMA ReleaseLevels ==
  ASSUME HoldInv, NEW s \in Sockets, ReleaseHeld(s), state' = state,
         NEW a \in HeldInputs, Down(a)'
  PROVE  /\ Down(a)
         /\ a \in severed => a \in severed'
         /\ a \in held[s] => a \in severed'
<1> USE DEF HoldInv, HeldInv
<1>1. ASSUME heldTeam[s] # NoTeam, NEW lines \in Releases(s), Send(lines)
      PROVE  Down(a) /\ (a \in severed => a \in severed') /\ a \notin held[s]
  <2>1. /\ lines \in Seq(WireCommands)
        /\ \A i \in DOMAIN lines : lines[i].phase = "release"
        /\ {lines[i].action : i \in DOMAIN lines} = held[s]
    BY <1>1, ReleaseLines
  <2>2. /\ Down(a) /\ \A i \in DOMAIN lines : lines[i].action # a
        /\ a \in severed => a \in severed'
    BY <1>1, <2>1, SendLevels
  <2> QED
    BY <2>1, <2>2
<1>2. ASSUME heldTeam[s] = NoTeam \/ link # "up", UNCHANGED <<wire, severed>>
      PROVE  Down(a) /\ (a \in severed => a \in severed') /\ (a \in held[s] => a \in severed)
  <2>1. Down(a)
    BY <1>2 DEF Down
  <2>2. heldTeam[s] = NoTeam => held[s] = {}
    BY DEF HeldHasTeam
  <2> QED
    BY <1>2, <2>1, <2>2 DEF LinkLost
<1> QED
  BY <1>1, <1>2 DEF ReleaseHeld

\* Somebody accounts for a level: a player who holds it, or a lost link.
Explained(a) == a \in severed \/ \E s \in open : a \in held[s]

\* A handler's step leaves no level down unexplained.
LEMMA HandlerHold ==
  ASSUME HoldInv, NEW s \in Sockets, Handler(s)
  PROVE  NoOrphanHold' /\ LinkLost'
<1> SUFFICES ASSUME NEW a \in HeldInputs, Down(a)'
             PROVE  Explained(a)' /\ (link' # "up" => a \in severed')
  BY DEF NoOrphanHold, LinkLost, Explained
<1> USE DEF HoldInv, HeldInv
<1>1. Down(a) => Explained(a) /\ (link # "up" => a \in severed)
  BY DEF NoOrphanHold, LinkLost, Explained
<1>2. CASE Connect(s)
  BY <1>1, <1>2 DEF Connect, Explained, Down, hookVars, linkVars
<1>3. ASSUME NEW cmd \in Commands, ReceiveAllowed(s, cmd.action, cmd.phase, cmd.value)
      PROVE  Explained(a)' /\ (link' # "up" => a \in severed')
  <2> DEFINE line == Command(latest, cmd.action, cmd.phase, cmd.value)
  <2>1. /\ s \in open /\ open' = open /\ link' = link
        /\ state' = state /\ Track(s, cmd.action, cmd.phase)
    BY <1>3 DEF ReceiveAllowed, hookVars
  <2>2. /\ a # cmd.action => \A r \in Sockets : a \in held[r] => a \in held'[r]
        /\ cmd.phase = "press" /\ a = cmd.action => a \in held'[s]
    BY <2>1 DEF Track, TypeOK, HeldInputs
  <2>3. CASE link = "up"
    <3>1. <<line>> \in Seq(WireCommands) /\ Send(<<line>>)
      BY <1>3, <2>3, SentLine DEF ReceiveAllowed
    <3>2. \/ \E i \in DOMAIN <<line>> :
               <<line>>[i].action = a /\ <<line>>[i].phase = "press"
          \/ /\ Down(a)
             /\ \A i \in DOMAIN <<line>> : <<line>>[i].action # a
             /\ a \in severed => a \in severed'
      BY <2>1, <3>1, SendLevels
    <3>3. /\ DOMAIN <<line>> = {1} /\ <<line>>[1] = line
          /\ line.action = cmd.action /\ line.phase = cmd.phase
      BY DEF Command
    <3> HIDE DEF line
    <3>4. CASE a = cmd.action
      BY <2>1, <2>2, <2>3, <3>2, <3>3, <3>4 DEF Explained
    <3>5. CASE a # cmd.action
      BY <1>1, <2>1, <2>2, <2>3, <3>2, <3>3, <3>5 DEF Explained, TypeOK
    <3> QED
      BY <3>4, <3>5
  <2>4. CASE link # "up"
    <3>1. Down(a) /\ severed' = severed
      BY <1>3, <2>1, <2>4 DEF ReceiveAllowed, Down
    <3> QED
      BY <1>1, <2>4, <3>1 DEF Explained
  <2> QED
    BY <2>3, <2>4
<1>4. CASE ReceiveRefused(s)
  <2>1. ReleaseHeld(s) /\ state' = state /\ link' = link /\ open' = open
    BY <1>4 DEF ReceiveRefused, hookVars
  <2>2. \A r \in Sockets \ {s} : held'[r] = held[r]
    BY <1>4 DEF ReceiveRefused, TypeOK
  <2> QED
    BY <1>1, <2>1, <2>2, ReleaseLevels DEF Explained, TypeOK
<1>5. CASE ReceiveOffline(s)
  BY <1>1, <1>5 DEF ReceiveOffline, vars, hookVars, backendVars, linkVars, Explained, Down
<1>6. CASE Disconnect(s)
  <2>1. ReleaseHeld(s) /\ state' = state /\ link' = link /\ open' = open \ {s}
    BY <1>6 DEF Disconnect, CloseHandler, hookVars
  <2>2. \A r \in Sockets \ {s} : held'[r] = held[r]
    BY <1>6 DEF Disconnect, CloseHandler, TypeOK
  <2> QED
    BY <1>1, <2>1, <2>2, ReleaseLevels DEF Explained, TypeOK
<1> QED
  BY <1>2, <1>3, <1>4, <1>5, <1>6 DEF Handler, Receive

\* Neither does a step of the transport or of the DLL.
LEMMA OtherHold ==
  ASSUME HoldInv, Transport \/ Dll
  PROVE  NoOrphanHold' /\ LinkLost'
<1> SUFFICES ASSUME NEW a \in HeldInputs, Down(a)'
             PROVE  Explained(a)' /\ (link' # "up" => a \in severed')
  BY DEF NoOrphanHold, LinkLost, Explained
<1> USE DEF HoldInv, HeldInv
<1>1. Down(a) => Explained(a) /\ (link # "up" => a \in severed)
  BY DEF NoOrphanHold, LinkLost, Explained
<1>2. UNCHANGED backendVars
  BY DEF Transport, Reconnect, Deliver, IdleTimeout, Notice, GoOffline,
         Dll, DllReceive, Frame, Game
<1>3. CASE Reconnect \/ Deliver \/ Notice \/ GoOffline
  BY <1>1, <1>2, <1>3
     DEF Reconnect, Deliver, Notice, GoOffline, Explained, Down, backendVars, hookVars
<1>4. CASE IdleTimeout
  BY <1>4 DEF IdleTimeout, Explained, Down, hookVars
<1>5. CASE Dll
  <2>1. link' = link /\ severed' = severed
    BY <1>5 DEF Dll, DllReceive, Frame, Game, linkVars
  <2>2. Down(a)
    <3>1. CASE DllReceive
      <4>1. wire \in Seq(WireCommands) /\ wire # << >> /\ state \in ControlStates
            /\ a \in HeldActions
        BY <3>1 DEF DllReceive, TypeOK, HooksTypeOK, HeldInputs
      <4>2. LevelAfter(Tail(wire), ApplyEdge(state, Head(wire).action,
                                   Head(wire).phase, Head(wire).value), a)
        BY <3>1 DEF DllReceive, HandleCommand, Down
      <4> QED
        BY <4>1, <4>2, LevelAfterHead DEF Down
    <3>2. CASE Frame
      <4>1. state'.held \subseteq state.held /\ wire' = wire
        BY <3>2, FrameTypes DEF Frame, TypeOK
      <4>2. LevelAfter(wire, state', a)
        BY <4>1 DEF Down
      <4> QED
        BY <4>1, <4>2, LevelMonotonic DEF Down
    <3>3. CASE Game
      <4>1. state'.held \subseteq state.held /\ wire' = wire
        BY <3>3, GameStepTypes DEF Game, linkVars, TypeOK
      <4>2. LevelAfter(wire, state', a)
        BY <4>1 DEF Down
      <4> QED
        BY <4>1, <4>2, LevelMonotonic DEF Down
    <3> QED
      BY <1>5, <3>1, <3>2, <3>3 DEF Dll
  <2> QED
    BY <1>1, <1>2, <2>1, <2>2 DEF Explained, backendVars
<1> QED
  BY <1>3, <1>4, <1>5 DEF Transport

\* A failure accounts for every level it leaves down.
LEMMA FailureHold ==
  ASSUME HoldInv, Failure
  PROVE  NoOrphanHold' /\ LinkLost'
<1> SUFFICES ASSUME NEW a \in HeldInputs, Down(a)'
             PROVE  Explained(a)' /\ (link' # "up" => a \in severed')
  BY DEF NoOrphanHold, LinkLost, Explained
<1> USE DEF HoldInv, HeldInv
<1>1. Down(a) => Explained(a) /\ (link # "up" => a \in severed)
  BY DEF NoOrphanHold, LinkLost, Explained
<1>2. CASE LoseTail /\ state' = state
  BY <1>2 DEF LoseTail, Explained, Down
<1>3. CASE WaRestart
  <2>1. state'.held = {} /\ wire' = << >>
    BY <1>3, ReloadTypes DEF WaRestart
  <2>2. ~Down(a)'
    BY <2>1 DEF Down, LevelAfter
  <2> QED
    BY <2>2
<1>4. ASSUME NEW s \in Sockets, HandlerFails(s)
      PROVE  Explained(a)' /\ (link' # "up" => a \in severed')
  <2>1. /\ Down(a) /\ link' = link /\ open' = open \ {s}
        /\ severed' = severed \cup {b \in held[s] : Down(b)}
    BY <1>4 DEF HandlerFails, CloseHandler, linkVars, hookVars, Down
  <2>2. \A r \in Sockets \ {s} : held'[r] = held[r]
    BY <1>4 DEF HandlerFails, CloseHandler, TypeOK
  <2> QED
    BY <1>1, <2>1, <2>2 DEF Explained, TypeOK
<1> QED
  BY <1>2, <1>3, <1>4 DEF Failure, Break, BackendRestart, hookVars

\* Every step keeps the inductive invariant.
LEMMA NextHold == HoldInv /\ [Next]_vars => HoldInv'
<1> SUFFICES ASSUME HoldInv, [Next]_vars
             PROVE  NoOrphanHold' /\ LinkLost'
  BY NextTypes, NextHeld DEF HoldInv, HeldInv
<1>1. CASE UNCHANGED vars
  BY <1>1 DEF vars, hookVars, backendVars, linkVars, HoldInv, NoOrphanHold,
              LinkLost, Down
<1>2. CASE OwnerChanges
  BY <1>2 DEF OwnerChanges, hookVars, linkVars, HoldInv, NoOrphanHold, LinkLost, Down
<1> QED
  BY <1>1, <1>2, HandlerHold, OtherHold, FailureHold DEF Next

\* The inductive invariant holds throughout.
LEMMA HoldInvariance == Spec => []HoldInv
<1>1. Init => HoldInv
  <2>1. Init => \A a \in HeldInputs : ~Down(a)
    BY EmptyRequestsNothing DEF Init, HooksInit, Down, LevelAfter
  <2> QED
    BY <2>1, InitTypes DEF Init, HoldInv, HeldInv, HeldHasTeam, NoOrphanHold, LinkLost
<1> QED
  BY <1>1, NextHold, PTL DEF Spec

(* Every level that stays down is held by an open socket or was cut off by a *)
(* lost connection or process, however players, turns, deliveries, games and *)
(* failures interleave.                                                      *)
THEOREM NoLevelIsOrphaned == Spec => []NoOrphanHold
<1>1. HoldInv => NoOrphanHold
  BY DEF HoldInv
<1> QED
  BY <1>1, HoldInvariance, PTL

-----------------------------------------------------------------------------
(* An orphaned level has its release under way.                              *)

\* A nonempty set of positions has a last one.
LEMMA LastPosition ==
  ASSUME NEW n \in Nat, NEW P, P \subseteq 1 .. n, P # {}
  PROVE  \E i \in P : \A j \in P : j <= i
<1> DEFINE Behind == {n - i : i \in P}
           Less == {ss \in Nat \X Nat : ss[1] < ss[2]}
<1>1. IsWellFoundedOn(Less, Nat)
  BY NatLessThanWellFounded DEF OpToRel
<1>2. \A i \in P : i \in Int /\ n - i \in Nat
  OBVIOUS
<1>3. Behind \subseteq Nat /\ Behind # {}
  BY <1>2
<1>4. \A k, m \in Behind : <<k, m>> \in Less <=> k < m
  BY <1>3
<1> HIDE DEF Less
<1>5. PICK m \in Behind : \A k \in Behind : ~ (<<k, m>> \in Less)
  BY <1>1, <1>3, WFMin
<1>6. PICK i \in P : m = n - i
  BY <1>5
<1>7. ASSUME NEW j \in P
      PROVE  j <= i
  <2>1. n - j \in Behind /\ ~(n - j < m)
    BY <1>4, <1>5
  <2> QED
    BY <1>2, <1>6, <2>1
<1> QED
  BY <1>7

\* The last command about an action in the stream is a release.
ReleaseUnderWay(a) ==
  \E i \in DOMAIN wire :
    /\ wire[i].action = a /\ wire[i].phase = "release"
    /\ \A j \in DOMAIN wire : wire[j].action = a => j <= i

(* Where OrphanIsReleased starts from: a level the DLL holds, that no open   *)
(* socket tracks and no lost link excuses, has its release in the stream     *)
(* already, with no later press behind it.                                   *)
THEOREM OrphansHaveARelease ==
  Spec => [](\A a \in HeldInputs :
               (a \in state.held /\ a \notin severed /\ \A s \in open : a \notin held[s])
                 => ReleaseUnderWay(a))
<1>1. ASSUME HoldInv, NEW a \in HeldInputs, a \in state.held, a \notin severed,
             \A s \in open : a \notin held[s]
      PROVE  ReleaseUnderWay(a)
  <2> DEFINE About == {i \in DOMAIN wire : wire[i].action = a}
  <2>1. ~LevelAfter(wire, state, a)
    BY <1>1 DEF HoldInv, NoOrphanHold, Down
  <2>2. Len(wire) \in Nat /\ DOMAIN wire = 1 .. Len(wire)
        /\ \A i \in DOMAIN wire : wire[i] \in WireCommands
    <3>1. wire \in Seq(WireCommands)
      BY <1>1 DEF HoldInv, HeldInv, TypeOK
    <3> QED
      BY <3>1, LenProperties, ElementOfSeq
  <2>3. About # {} /\ About \subseteq 1 .. Len(wire)
    BY <1>1, <2>1, <2>2 DEF LevelAfter
  <2>4. PICK i \in About : \A j \in About : j <= i
    BY <2>2, <2>3, LastPosition
  <2>5. i \in DOMAIN wire /\ wire[i].action = a
        /\ \A j \in DOMAIN wire : wire[j].action = a => j <= i
    BY <2>4
  <2>6. wire[i].phase \in {"press", "release"}
    BY <2>2, <2>5 DEF WireCommands, Phases
  <2>7. wire[i].phase # "press"
    BY <2>1, <2>5 DEF LevelAfter
  <2> QED
    BY <2>5, <2>6, <2>7 DEF ReleaseUnderWay
<1>2. HoldInv => \A a \in HeldInputs :
        (a \in state.held /\ a \notin severed /\ \A s \in open : a \notin held[s])
          => ReleaseUnderWay(a)
  BY <1>1
<1> QED
  BY <1>2, HoldInvariance, PTL

-----------------------------------------------------------------------------
(* Where WA_INTERNALS.md is right: while the link is kept.                   *)

\* The DLL holds what clients send.
LevelsAreInputs == state.held \subseteq Inputs

\* Nothing fails and the link is never silent for 5 s.
KeptLink == ~Failure /\ ~IdleTimeout

\* The link is kept but for silence, and not silent in a live game.
KeptLinkInGames == ~Failure /\ (GameLive => ~IdleTimeout)

\* Before the first game nobody has had a turn in a snapshot, and nothing was
\* pressed.
BeforeFirst ==
  gameId = 0 =>
    /\ ~GameLive
    /\ latest \in {NoTeam, Offline}
    /\ \A i \in DOMAIN pushed : pushed[i] = NoTeam
    /\ \A s \in Sockets : heldTeam[s] = NoTeam
    /\ wire = << >> /\ state.held = {} /\ severed = {}

\* While it lives the link has not been given up.
InFirst == gameId = 1 /\ GameLive => severed = {}

FirstInv == TypeOK /\ BeforeFirst /\ InFirst /\ LevelsAreInputs

\* It holds at the start.
LEMMA InitFirst == Init => FirstInv
  BY InitTypes, EmptyRequestsNothing
     DEF FirstInv, BeforeFirst, InFirst, LevelsAreInputs, Init, HooksInit, GameLive

\* No step makes the DLL hold what clients do not send.
LEMMA NextLevels == TypeOK /\ LevelsAreInputs /\ [Next]_vars => LevelsAreInputs'
<1> SUFFICES ASSUME TypeOK, LevelsAreInputs, [Next]_vars
             PROVE  LevelsAreInputs'
  OBVIOUS
<1>1. CASE UNCHANGED state
  BY <1>1 DEF LevelsAreInputs
<1>2. CASE DllReceive
  <2>1. Head(wire) \in WireCommands
    BY <1>2, HeadTailProperties DEF DllReceive, TypeOK
  <2>2. Head(wire).action \in Inputs
    BY <2>1 DEF WireCommands
  <2>3. state'.held \subseteq state.held \cup {Head(wire).action}
    BY <1>2 DEF DllReceive, HandleCommand, ApplyEdge
  <2> QED
    BY <2>2, <2>3 DEF LevelsAreInputs
<1>3. CASE Frame \/ Game \/ WaRestart
  <2>1. state'.held \subseteq state.held
    BY <1>3, FrameTypes, GameStepTypes, ReloadTypes DEF Frame, Game, WaRestart, TypeOK
  <2> QED
    BY <2>1 DEF LevelsAreInputs
<1> QED
  BY <1>1, <1>2, <1>3
     DEF Next, Handler, Receive, Connect, ReceiveAllowed, ReceiveRefused, ReceiveOffline,
         Disconnect, Transport, Reconnect, Deliver, IdleTimeout, Notice, GoOffline, Dll,
         Failure, Break, BackendRestart, HandlerFails, OwnerChanges, hookVars, vars

\* What is down with nothing in flight is held, unless it was severed.
LEMMA NothingSevered ==
  ASSUME HoldInv, LevelsAreInputs, severed = {}
  PROVE  NoWormWalksAlone
<1> SUFFICES ASSUME wire = << >>, NEW a \in state.held
             PROVE  \E s \in open : a \in held[s]
  BY DEF NoWormWalksAlone
<1>1. a \in HeldInputs
  BY DEF HoldInv, HeldInv, LevelsAreInputs, TypeOK, HooksTypeOK, ControlStates, HeldInputs
<1>2. Down(a)
  BY DEF Down, LevelAfter
<1> QED
  BY <1>1, <1>2 DEF HoldInv, NoOrphanHold

\* A kept link severs nothing.
LEMMA NextKept ==
  ASSUME severed = {}, [Next]_vars, [KeptLink]_vars
  PROVE  severed' = {}
<1>1. CASE OwnerChanges \/ UNCHANGED vars
  BY <1>1 DEF OwnerChanges, vars
<1>2. ASSUME NEW s \in Sockets, Handler(s)
      PROVE  severed' = {}
  <2>1. severed' \subseteq severed
    BY <1>2 DEF Handler, Receive, Connect, ReceiveAllowed, ReceiveRefused, ReceiveOffline,
                Disconnect, ReleaseHeld, Send, vars
  <2> QED
    BY <2>1
<1>3. CASE Transport /\ ~IdleTimeout
  BY <1>3 DEF Transport, Reconnect, Deliver, Notice, GoOffline
<1>4. CASE Dll
  BY <1>4 DEF Dll, DllReceive, Frame, Game
<1> QED
  BY <1>1, <1>2, <1>3, <1>4 DEF Next, KeptLink

(* Without a failure and without 5 s of silence nothing is severed, and no   *)
(* worm walks alone, however games, players, owners and turns change.        *)
THEOREM KeptLinkNoWormWalks ==
  Spec /\ [][KeptLink]_vars => []NoWormWalksAlone
<1>1. Init => LevelsAreInputs /\ severed = {}
  BY EmptyRequestsNothing DEF Init, HooksInit, LevelsAreInputs
<1>2. TypeOK /\ LevelsAreInputs /\ severed = {} /\ [Next]_vars /\ [KeptLink]_vars
        => (LevelsAreInputs /\ severed = {})'
  BY NextLevels, NextKept
<1>3. HoldInv /\ LevelsAreInputs /\ severed = {} => NoWormWalksAlone
  BY NothingSevered
<1> QED
  BY <1>1, <1>2, <1>3, TypeCorrect, HoldInvariance, PTL DEF Spec

\* What nobody held before the first game needs no release then.
LEMMA QuietRelease ==
  ASSUME FirstInv, gameId = 0, NEW s \in Sockets, ReleaseHeld(s)
  PROVE  UNCHANGED <<wire, severed>>
  BY DEF FirstInv, BeforeFirst, ReleaseHeld

\* A handler's step keeps both.
LEMMA HandlerFirst ==
  ASSUME FirstInv, NEW s \in Sockets, Handler(s)
  PROVE  BeforeFirst' /\ InFirst'
<1> USE DEF FirstInv, BeforeFirst, InFirst, GameLive
<1>1. CASE Connect(s)
  BY <1>1 DEF Connect, hookVars, linkVars
<1>2. ASSUME NEW cmd \in Commands, ReceiveAllowed(s, cmd.action, cmd.phase, cmd.value)
      PROVE  BeforeFirst' /\ InFirst'
  <2>1. gameId # 0 /\ gameId' = gameId /\ game' = game
    BY <1>2, NoTeamAssumption, OfflineAssumption DEF ReceiveAllowed, IsUsersTurn, hookVars
  <2>2. severed' \subseteq severed
    BY <1>2 DEF ReceiveAllowed, Send
  <2> QED
    BY <2>1, <2>2
<1>3. CASE ReceiveRefused(s)
  <2>1. UNCHANGED <<hookVars, heldTeam, latest, pushed>> /\ ReleaseHeld(s)
    BY <1>3 DEF ReceiveRefused
  <2>2. severed' \subseteq severed
    BY <2>1 DEF ReleaseHeld, Send
  <2> QED
    BY <2>1, <2>2, QuietRelease DEF hookVars
<1>4. CASE ReceiveOffline(s)
  BY <1>4 DEF ReceiveOffline, vars, hookVars, backendVars, linkVars
<1>5. CASE Disconnect(s)
  <2>1. UNCHANGED <<hookVars, latest, pushed>> /\ ReleaseHeld(s)
    BY <1>5 DEF Disconnect
  <2>2. severed' \subseteq severed
    BY <2>1 DEF ReleaseHeld, Send
  <2>3. \A r \in Sockets : heldTeam'[r] \in {heldTeam[r], NoTeam}
    BY <1>5 DEF Disconnect, CloseHandler, TypeOK
  <2> QED
    BY <2>1, <2>2, <2>3, QuietRelease DEF hookVars
<1> QED
  BY <1>1, <1>2, <1>3, <1>4, <1>5 DEF Handler, Receive

\* So does a step of the transport that gives up no link of a live game.
LEMMA TransportFirst ==
  ASSUME FirstInv, Transport, GameLive => ~IdleTimeout
  PROVE  BeforeFirst' /\ InFirst'
<1> USE DEF FirstInv, BeforeFirst, InFirst, GameLive
<1>1. CASE Reconnect
  BY <1>1 DEF Reconnect, hookVars, backendVars
<1>2. CASE Deliver
  <2>1. UNCHANGED <<hookVars, backendVars, wire, severed>>
        /\ latest' = Head(pushed) /\ pushed' = Tail(pushed)
        /\ pushed \in Seq(Teams \cup {NoTeam}) /\ pushed # << >>
    BY <1>2 DEF Deliver, TypeOK
  <2>2. /\ Head(pushed) = pushed[1] /\ 1 \in DOMAIN pushed
        /\ \A i \in DOMAIN Tail(pushed) :
             i + 1 \in DOMAIN pushed /\ Tail(pushed)[i] = pushed[i + 1]
    <3>1. /\ Len(pushed) \in Nat /\ Len(pushed) >= 1 /\ DOMAIN pushed = 1 .. Len(pushed)
          /\ Tail(pushed) \in Seq(Teams \cup {NoTeam})
          /\ Len(Tail(pushed)) = Len(pushed) - 1
          /\ \A i \in 1 .. Len(pushed) - 1 : Tail(pushed)[i] = pushed[i + 1]
          /\ Head(pushed) = pushed[1]
      BY <2>1, LenProperties, HeadTailProperties, EmptySeq
    <3>2. DOMAIN Tail(pushed) = 1 .. Len(pushed) - 1
      BY <3>1, LenProperties
    <3> QED
      BY <3>1, <3>2
  <2> QED
    BY <2>1, <2>2 DEF hookVars, backendVars
<1>3. CASE IdleTimeout
  <2>1. ~GameLive
    BY <1>3
  <2>2. /\ severed' = {a \in HeldInputs : Down(a)}
        /\ UNCHANGED <<latest, wire, pushed, backendVars, hookVars>>
    BY <1>3 DEF IdleTimeout
  <2>3. gameId = 0 => severed' = {}
    BY <2>2 DEF Down, LevelAfter
  <2> QED
    BY <2>1, <2>2, <2>3 DEF hookVars, backendVars
<1>4. CASE Notice \/ GoOffline
  BY <1>4 DEF Notice, GoOffline, hookVars, backendVars
<1> QED
  BY <1>1, <1>2, <1>3, <1>4 DEF Transport

\* So does a step of the DLL: the first game begins with nothing severed.
LEMMA DllFirst ==
  ASSUME FirstInv, Dll
  PROVE  BeforeFirst' /\ InFirst'
<1> USE DEF FirstInv, BeforeFirst, InFirst, GameLive
<1>0. gameId \in Nat /\ severed' = severed /\ latest' = latest /\ heldTeam' = heldTeam
  BY MaxGamesAssumption
     DEF TypeOK, HooksTypeOK, Dll, DllReceive, Frame, Game, backendVars, linkVars
<1>1. CASE DllReceive
  BY <1>0, <1>1 DEF DllReceive, HandleCommand
<1>2. CASE Frame
  <2>1. /\ UNCHANGED <<gameId, game, turnTeam, wire>>
        /\ state'.held = state.held
        /\ pushed' = pushed \/ pushed' = Append(pushed, BuildSnapshot.turn_team)
        /\ pushed \in Seq(Teams \cup {NoTeam})
    BY <1>2, FrameTypes DEF Frame, OnFrame, TypeOK
  <2>2. gameId = 0 => \A i \in DOMAIN pushed' : pushed'[i] = NoTeam
    <3> SUFFICES ASSUME gameId = 0, pushed' = Append(pushed, BuildSnapshot.turn_team)
                 PROVE  \A i \in DOMAIN pushed' : pushed'[i] = NoTeam
      BY <2>1
    <3>1. BuildSnapshot.turn_team = NoTeam
      BY DEF BuildSnapshot
    <3>2. pushed' = Append(pushed, NoTeam)
      BY <3>1
    <3>3. /\ Len(pushed) \in Nat /\ DOMAIN pushed = 1 .. Len(pushed)
          /\ DOMAIN pushed' = 1 .. (Len(pushed) + 1)
          /\ \A i \in 1 .. Len(pushed) : pushed'[i] = pushed[i]
          /\ pushed'[Len(pushed) + 1] = NoTeam
      BY <2>1, <3>2, LenProperties, AppendProperties
    <3> QED
      BY <3>3
  <2> QED
    BY <1>0, <2>1, <2>2
<1>3. CASE Game
  <2>1. state'.held \subseteq state.held /\ UNCHANGED <<wire, pushed>>
    BY <1>3, GameStepTypes DEF Game, linkVars, TypeOK
  <2>2. CASE ConstructGameGlobal
    <3>1. gameId' = gameId + 1 /\ ~GameLive
      BY <2>2 DEF ConstructGameGlobal
    <3> QED
      BY <1>0, <2>1, <3>1
  <2>3. CASE DestroyGameGlobal
    BY <1>0, <2>1, <2>3 DEF DestroyGameGlobal, OnGameTornDown
  <2>4. CASE InitializeW2App \/ DestroyReturns
    BY <1>0, <2>1, <2>4 DEF InitializeW2App, DestroyReturns
  <2>5. CASE FinishTurn \/ \E team \in Teams : StartTurn(team)
    BY <1>0, <2>1, <2>5 DEF FinishTurn, StartTurn
  <2> QED
    BY <1>3, <2>2, <2>3, <2>4, <2>5 DEF Game, GameStep
<1> QED
  BY <1>1, <1>2, <1>3 DEF Dll

\* With the link kept in games the two go on to hold.
LEMMA NextFirst == FirstInv /\ [Next]_vars /\ [KeptLinkInGames]_vars => FirstInv'
<1> SUFFICES ASSUME FirstInv, [Next]_vars, [KeptLinkInGames]_vars
             PROVE  BeforeFirst' /\ InFirst'
  BY NextTypes, NextLevels DEF FirstInv
<1>1. CASE OwnerChanges \/ UNCHANGED vars
  BY <1>1 DEF OwnerChanges, vars, hookVars, linkVars, backendVars, FirstInv, BeforeFirst,
              InFirst, GameLive
<1>2. ASSUME Transport, KeptLinkInGames
      PROVE  BeforeFirst' /\ InFirst'
  BY <1>2, TransportFirst DEF KeptLinkInGames
<1>3. KeptLinkInGames => ~Failure
  BY DEF KeptLinkInGames
<1> QED
  BY <1>1, <1>2, <1>3, HandlerFirst, DllFirst DEF Next

(* In the first game of a WA process the same holds although the silence     *)
(* before it may close the link: nothing is held yet that it could sever.    *)
(* It takes a failure, 5 s without a frame while a game is live, or the      *)
(* silence between two games to let a worm walk alone.                       *)
THEOREM FirstGameNoWormWalks ==
  Spec /\ [][KeptLinkInGames]_vars => [](gameId <= 1 => NoWormWalksAlone)
<1>1. HoldInv /\ FirstInv => (gameId <= 1 => NoWormWalksAlone)
  <2> SUFFICES ASSUME HoldInv, FirstInv, gameId <= 1, GameLive
               PROVE  NoWormWalksAlone
    BY DEF NoWormWalksAlone
  <2>1. gameId \in Nat /\ gameId # 0
    BY MaxGamesAssumption DEF FirstInv, TypeOK, HooksTypeOK, BeforeFirst
  <2> QED
    BY <2>1, NothingSevered DEF FirstInv, InFirst
<1>2. Spec /\ [][KeptLinkInGames]_vars => []FirstInv
  BY InitFirst, NextFirst, PTL DEF Spec
<1> QED
  BY <1>1, <1>2, HoldInvariance, PTL

-----------------------------------------------------------------------------
(* The DLL at the end of the channel is the one of ControlHooks.             *)

\* What the DLL may do: the steps of InputDispatch, and a new process.
DllStep ==
  GameStep \/ OnFrame \/ ReloadDll \/ \E cmd \in Commands : HandleCommand(cmd)

\* Every line of the stream is a command that clients may send.
LEMMA LineIsCommand ==
  ASSUME NEW line \in WireCommands, HandleCommand(line)
  PROVE  \E cmd \in Commands : HandleCommand(cmd)
<1> DEFINE cmd == [action |-> line.action, phase |-> line.phase, value |-> line.value]
<1>1. cmd \in Commands
  BY DEF WireCommands, Commands
<1>2. HandleCommand(cmd)
  BY DEF HandleCommand
<1> QED
  BY <1>1, <1>2

(* However sockets, players, links and processes behave, they put the DLL    *)
(* through no step but those InputDispatch has proofs about, and reloads.    *)
THEOREM ChannelDrivesDll == Spec => HooksInit /\ [][DllStep]_hookVars
<1>1. Init => HooksInit
  BY DEF Init
<1>2. TypeOK /\ [Next]_vars => [DllStep]_hookVars
  <2> SUFFICES ASSUME TypeOK, Next
               PROVE  DllStep \/ UNCHANGED hookVars
    BY DEF vars
  <2>1. CASE DllReceive
    <3>1. Head(wire) \in WireCommands
      BY <2>1, HeadTailProperties DEF DllReceive, TypeOK
    <3> QED
      BY <2>1, <3>1, LineIsCommand DEF DllReceive, DllStep
  <2>2. CASE Frame \/ Game \/ WaRestart
    BY <2>2 DEF Frame, Game, WaRestart, DllStep
  <2> QED
    BY <2>1, <2>2
       DEF Next, Handler, Receive, Connect, ReceiveAllowed, ReceiveRefused, ReceiveOffline,
           Disconnect, Transport, Reconnect, Deliver, IdleTimeout, Notice, GoOffline, Dll,
           Failure, Break, BackendRestart, HandlerFails, OwnerChanges, vars
<1> QED
  BY <1>1, <1>2, TypeCorrect, PTL DEF Spec
-----------------------------------------------------------------------------
(* The channel as one set of levels.                                         *)

LevelStep == [Levels!Next]_(Levels!vars)

\* What a level will be is the same after two states if it is so for each input.
LEMMA DownStays ==
  ASSUME \A a \in HeldInputs : Down(a)' <=> Down(a)
  PROVE  DownLevels' = DownLevels
  BY DEF DownLevels

\* A step that leaves the three parts alone is none.
LEMMA LevelStutter ==
  ASSUME \A a \in HeldInputs : Down(a)' <=> Down(a), UNCHANGED <<held, severed>>
  PROVE  LevelStep
  BY DownStays DEF LevelStep, Levels!vars

\* The other direction of LevelAfterMore: the last of the new commands about an
\* action decides, and without one the level is what it was.
LEMMA LevelAfterAll ==
  ASSUME NEW old \in Seq(WireCommands), NEW new \in Seq(WireCommands),
         NEW s \in ControlStates, NEW a,
         \/ \E i \in DOMAIN new : /\ new[i].action = a /\ new[i].phase = "press"
                                  /\ \A j \in DOMAIN new : new[j].action = a => j <= i
         \/ /\ LevelAfter(old, s, a)
            /\ \A i \in DOMAIN new : new[i].action # a
  PROVE  LevelAfter(old \o new, s, a)
<1> DEFINE both == old \o new
<1>1. /\ Len(old) \in Nat /\ DOMAIN old = 1 .. Len(old)
      /\ Len(new) \in Nat /\ DOMAIN new = 1 .. Len(new)
      /\ DOMAIN both = 1 .. (Len(old) + Len(new))
      /\ \A i \in 1 .. Len(old) + Len(new) :
           both[i] = IF i <= Len(old) THEN old[i] ELSE new[i - Len(old)]
  BY LenProperties, ConcatProperties
<1>2. \A i \in DOMAIN old : i \in DOMAIN both /\ both[i] = old[i]
  BY <1>1
<1>3. \A i \in DOMAIN new : i + Len(old) \in DOMAIN both /\ both[i + Len(old)] = new[i]
  BY <1>1
<1>4. \A j \in DOMAIN both : \/ j \in DOMAIN old
                             \/ j - Len(old) \in DOMAIN new /\ both[j] = new[j - Len(old)]
  BY <1>1
<1> HIDE DEF both
<1>5. ASSUME NEW i \in DOMAIN new, new[i].action = a, new[i].phase = "press",
             \A j \in DOMAIN new : new[j].action = a => j <= i
      PROVE  LevelAfter(both, s, a)
  <2>1. i + Len(old) \in DOMAIN both /\ both[i + Len(old)] = new[i]
    BY <1>3
  <2>2. ASSUME NEW j \in DOMAIN both, both[j].action = a
        PROVE  j <= i + Len(old)
    <3>1. CASE j \in DOMAIN old
      BY <1>1, <3>1
    <3>2. CASE j - Len(old) \in DOMAIN new /\ both[j] = new[j - Len(old)]
      <4>1. j - Len(old) <= i
        BY <1>5, <2>2, <3>2
      <4> QED
        BY <1>1, <4>1
    <3> QED
      BY <1>4, <3>1, <3>2
  <2> QED
    BY <1>5, <2>1, <2>2 DEF LevelAfter
<1>6. ASSUME LevelAfter(old, s, a), \A i \in DOMAIN new : new[i].action # a
      PROVE  LevelAfter(both, s, a)
  <2>1. \A j \in DOMAIN both : both[j].action = a => j \in DOMAIN old /\ both[j] = old[j]
    BY <1>2, <1>4, <1>6
  <2>2. CASE a \in s.held /\ \A j \in DOMAIN old : old[j].action # a
    BY <2>1, <2>2 DEF LevelAfter
  <2>3. ASSUME NEW i \in DOMAIN old, old[i].action = a, old[i].phase = "press",
               \A j \in DOMAIN old : old[j].action = a => j <= i
        PROVE  LevelAfter(both, s, a)
    <3>1. i \in DOMAIN both /\ both[i] = old[i]
      BY <1>2
    <3> QED
      BY <2>1, <2>3, <3>1 DEF LevelAfter
  <2> QED
    BY <1>6, <2>2, <2>3 DEF LevelAfter
<1> QED
  BY <1>5, <1>6 DEF both

\* The other direction of LevelAfterHead: handling the oldest command leaves
\* down what was due to be.
LEMMA LevelAfterTail ==
  ASSUME NEW w \in Seq(WireCommands), w # << >>,
         NEW s \in ControlStates, NEW a \in HeldActions, LevelAfter(w, s, a)
  PROVE  LevelAfter(Tail(w),
                    ApplyEdge(s, Head(w).action, Head(w).phase, Head(w).value), a)
<1> DEFINE rest == Tail(w)
           after == ApplyEdge(s, Head(w).action, Head(w).phase, Head(w).value)
<1>1. /\ Len(w) \in Nat /\ DOMAIN w = 1 .. Len(w) /\ Len(w) >= 1
      /\ DOMAIN rest = 1 .. (Len(w) - 1)
      /\ \A i \in 1 .. Len(w) - 1 : rest[i] = w[i + 1]
      /\ Head(w) = w[1]
  BY LenProperties, HeadTailProperties, EmptySeq
<1>2. \A i \in DOMAIN rest : i + 1 \in DOMAIN w /\ rest[i] = w[i + 1]
  BY <1>1
<1>3. 1 \in DOMAIN w
  BY <1>1
<1>4. a \in after.held <=> \/ a \in s.held /\ a # w[1].action
                           \/ a = w[1].action /\ w[1].phase = "press"
  BY <1>1 DEF ApplyEdge
<1> HIDE DEF rest, after
<1>5. ASSUME NEW i \in DOMAIN w, w[i].action = a, w[i].phase = "press",
             \A j \in DOMAIN w : w[j].action = a => j <= i
      PROVE  LevelAfter(rest, after, a)
  <2>1. CASE i = 1
    <3>1. \A j \in DOMAIN rest : rest[j].action # a
      <4> SUFFICES ASSUME NEW j \in DOMAIN rest, rest[j].action = a
                   PROVE  FALSE
        OBVIOUS
      <4>1. j + 1 <= 1
        BY <1>2, <1>5, <2>1
      <4> QED
        BY <1>1, <4>1
    <3>2. a \in after.held
      BY <1>4, <1>5, <2>1
    <3> QED
      BY <3>1, <3>2 DEF LevelAfter
  <2>2. CASE i # 1
    <3>1. i - 1 \in DOMAIN rest /\ rest[i - 1] = w[i]
      BY <1>1, <2>2
    <3>2. \A j \in DOMAIN rest : rest[j].action = a => j <= i - 1
      <4> SUFFICES ASSUME NEW j \in DOMAIN rest, rest[j].action = a
                   PROVE  j <= i - 1
        OBVIOUS
      <4>1. j + 1 <= i
        BY <1>2, <1>5
      <4> QED
        BY <1>1, <4>1
    <3> QED
      BY <1>5, <3>1, <3>2 DEF LevelAfter
  <2> QED
    BY <2>1, <2>2
<1>6. ASSUME a \in s.held, \A i \in DOMAIN w : w[i].action # a
      PROVE  LevelAfter(rest, after, a)
  BY <1>2, <1>3, <1>4, <1>6 DEF LevelAfter
<1> QED
  BY <1>5, <1>6 DEF LevelAfter, rest, after

\* A line sent over a live link sets its own level, and no other.
LEMMA LineSets ==
  ASSUME TypeOK, NEW line, <<line>> \in Seq(WireCommands), Send(<<line>>), state' = state,
         NEW a \in HeldInputs
  PROVE  Down(a)' <=> \/ line.action = a /\ line.phase = "press"
                      \/ Down(a) /\ line.action # a
<1> DEFINE new == <<line>>
<1>1. wire \in Seq(WireCommands) /\ state \in ControlStates
  BY DEF TypeOK, HooksTypeOK
<1>2. DOMAIN new = {1} /\ new[1] = line /\ new \in Seq(WireCommands)
  OBVIOUS
<1>3. wire' = wire \o new
  BY DEF Send
<1> HIDE DEF new
<1>4. Down(a)' <=> LevelAfter(wire \o new, state, a)
  BY <1>3 DEF Down
<1>5. LevelAfter(wire \o new, state, a)
        => \/ line.action = a /\ line.phase = "press"
           \/ Down(a) /\ line.action # a
  BY <1>1, <1>2, LevelAfterMore DEF Down
<1>6. ASSUME line.action = a, line.phase = "press"
      PROVE  LevelAfter(wire \o new, state, a)
  <2>1. \E i \in DOMAIN new : /\ new[i].action = a /\ new[i].phase = "press"
                              /\ \A j \in DOMAIN new : new[j].action = a => j <= i
    BY <1>2, <1>6
  <2> QED
    BY <1>1, <1>2, <2>1, LevelAfterAll
<1>7. ASSUME Down(a), line.action # a
      PROVE  LevelAfter(wire \o new, state, a)
  BY <1>1, <1>2, <1>7, LevelAfterAll DEF Down
<1> QED
  BY <1>4, <1>5, <1>6, <1>7

\* _release_held ends what the handler holds, or finds it severed.
LEMMA ReleaseLetsGo ==
  ASSUME HoldInv, NEW s \in Sockets, ReleaseHeld(s), state' = state,
         held' = [held EXCEPT ![s] = {}]
  PROVE  LevelStep
<1> USE DEF HoldInv, HeldInv
<1>1. held[s] \subseteq HeldInputs
  BY DEF TypeOK
<1>2. ASSUME heldTeam[s] # NoTeam, NEW lines \in Releases(s), Send(lines)
      PROVE  LevelStep
  <2>1. /\ lines \in Seq(WireCommands)
        /\ \A i \in DOMAIN lines : lines[i].phase = "release"
        /\ {lines[i].action : i \in DOMAIN lines} = held[s]
    BY <1>2, ReleaseLines
  <2>2. wire \in Seq(WireCommands) /\ state \in ControlStates /\ wire' = wire \o lines
        /\ severed' = severed \ held[s]
    BY <1>2, <2>1 DEF TypeOK, HooksTypeOK, Send
  <2>3. ASSUME NEW a \in HeldInputs
        PROVE  Down(a)' <=> Down(a) /\ a \notin held[s]
    <3>1. Down(a)' => Down(a) /\ \A i \in DOMAIN lines : lines[i].action # a
      BY <1>2, <2>1, SendLevels
    <3>2. a \notin held[s] <=> \A i \in DOMAIN lines : lines[i].action # a
      BY <2>1
    <3>3. Down(a) /\ a \notin held[s] => Down(a)'
      BY <2>1, <2>2, <3>2, LevelAfterAll DEF Down
    <3> QED
      BY <3>1, <3>2, <3>3
  <2>4. DownLevels' = DownLevels \ held[s]
    BY <2>3 DEF DownLevels
  <2>5. Levels!LetGo(s)
    BY <2>2, <2>4 DEF Levels!LetGo
  <2> QED
    BY <2>5 DEF LevelStep, Levels!Next
<1>3. ASSUME heldTeam[s] = NoTeam \/ link # "up", UNCHANGED <<wire, severed>>
      PROVE  LevelStep
  <2>1. DownLevels' = DownLevels
    BY <1>3, DownStays DEF Down
  <2>2. held[s] \cap DownLevels \subseteq severed
    BY <1>3 DEF DownLevels, LinkLost, HeldHasTeam
  <2>3. held' = [held EXCEPT ![s] = @ \ held[s]]
    OBVIOUS
  <2>4. Levels!Abandon(s, held[s])
    BY <1>3, <2>1, <2>2, <2>3 DEF Levels!Abandon
  <2> QED
    BY <1>1, <2>4 DEF LevelStep, Levels!Next
<1> QED
  BY <1>2, <1>3 DEF ReleaseHeld

\* An allowed message presses or releases its level, or is of no level.
LEMMA AllowedStep ==
  ASSUME HoldInv, NEW s \in Sockets, NEW cmd \in Commands,
         ReceiveAllowed(s, cmd.action, cmd.phase, cmd.value)
  PROVE  LevelStep
<1> USE DEF HoldInv, HeldInv
<1> DEFINE line == Command(latest, cmd.action, cmd.phase, cmd.value)
           x == cmd.action
<1>1. /\ state' = state /\ Track(s, x, cmd.phase)
      /\ x \in Inputs /\ cmd.phase \in {"press", "release"}
      /\ line.action = x /\ line.phase = cmd.phase
  BY DEF ReceiveAllowed, hookVars, Commands, Phases, Command
<1>2. CASE link = "up"
  <2>1. <<line>> \in Seq(WireCommands) /\ Send(<<line>>)
    BY <1>2, SentLine DEF ReceiveAllowed
  <2>2. severed' = severed \ {x}
    BY <1>1, <2>1 DEF Send
  <2> HIDE DEF line
  <2>3. \A a \in HeldInputs : Down(a)' <=> \/ x = a /\ cmd.phase = "press"
                                           \/ Down(a) /\ x # a
    BY <1>1, <2>1, LineSets
  <2>4. CASE x \notin HeldActions
    <3>1. x \notin HeldInputs
      BY <2>4 DEF HeldInputs
    <3>2. held' = held
      BY <1>1, <2>4, <3>1 DEF Track, TypeOK
    <3>3. severed' = severed
      BY <2>2, <3>1 DEF TypeOK
    <3> QED
      BY <2>3, <3>1, <3>2, <3>3, LevelStutter
  <2>5. CASE x \in HeldActions /\ cmd.phase = "press"
    <3>1. x \in HeldInputs
      BY <1>1, <2>5 DEF HeldInputs
    <3>2. held' = [held EXCEPT ![s] = @ \cup {x}]
      <4>1. {x} \cap HeldActions = {x}
        BY <2>5
      <4> QED
        BY <1>1, <2>5, <4>1 DEF Track
    <3>3. DownLevels' = DownLevels \cup {x}
      BY <2>3, <2>5, <3>1 DEF DownLevels
    <3>4. Levels!Press(s, x)
      BY <2>2, <3>2, <3>3 DEF Levels!Press
    <3> QED
      BY <3>1, <3>4 DEF LevelStep, Levels!Next
  <2>6. CASE x \in HeldActions /\ cmd.phase = "release"
    <3>1. x \in HeldInputs
      BY <1>1, <2>6 DEF HeldInputs
    <3>2. held' = [held EXCEPT ![s] = @ \ {x}]
      BY <1>1, <2>6 DEF Track
    <3>3. DownLevels' = DownLevels \ {x}
      BY <2>3, <2>6, <3>1 DEF DownLevels
    <3>4. Levels!Release(s, x)
      BY <2>2, <3>2, <3>3 DEF Levels!Release
    <3> QED
      BY <3>1, <3>4 DEF LevelStep, Levels!Next
  <2> QED
    BY <1>1, <2>4, <2>5, <2>6
<1>3. CASE link # "up"
  <2>1. UNCHANGED <<wire, severed>>
    BY <1>3 DEF ReceiveAllowed
  <2>2. \A a \in HeldInputs : Down(a)' <=> Down(a)
    BY <1>1, <2>1 DEF Down
  <2>3. DownLevels' = DownLevels
    BY <2>2, DownStays
  <2>4. CASE x \notin HeldActions
    <3>1. held' = held
      BY <1>1, <2>4 DEF Track, TypeOK, HeldInputs
    <3> QED
      BY <2>1, <2>2, <3>1, LevelStutter
  <2>5. CASE x \in HeldActions /\ cmd.phase = "press"
    <3>1. x \in HeldInputs
      BY <1>1, <2>5 DEF HeldInputs
    <3>2. held' = [held EXCEPT ![s] = @ \cup {x}]
      <4>1. {x} \cap HeldActions = {x}
        BY <2>5
      <4> QED
        BY <1>1, <2>5, <4>1 DEF Track
    <3>3. Levels!PressInVain(s, x)
      BY <2>1, <2>3, <3>2 DEF Levels!PressInVain
    <3> QED
      BY <3>1, <3>3 DEF LevelStep, Levels!Next
  <2>6. CASE x \in HeldActions /\ cmd.phase = "release"
    <3>1. x \in HeldInputs
      BY <1>1, <2>6 DEF HeldInputs
    <3>2. held' = [held EXCEPT ![s] = @ \ {x}]
      BY <1>1, <2>6 DEF Track
    <3>3. {x} \cap DownLevels \subseteq severed
      BY <1>3 DEF DownLevels, LinkLost
    <3>4. Levels!Abandon(s, {x})
      BY <2>1, <2>3, <3>2, <3>3 DEF Levels!Abandon
    <3>5. {x} \in SUBSET HeldInputs
      BY <3>1
    <3> QED
      BY <3>4, <3>5 DEF LevelStep, Levels!Next
  <2> QED
    BY <1>1, <2>4, <2>5, <2>6
<1> QED
  BY <1>2, <1>3

\* Each of a handler's steps is one of the levels.
LEMMA HandlerLevels ==
  ASSUME HoldInv, NEW s \in Sockets, Handler(s)
  PROVE  LevelStep
<1> USE DEF HoldInv, HeldInv
<1>1. CASE Connect(s) \/ ReceiveOffline(s)
  <2>1. UNCHANGED <<held, severed, wire, state>>
    BY <1>1 DEF Connect, ReceiveOffline, vars, hookVars, backendVars, linkVars
  <2> QED
    BY <2>1, LevelStutter DEF Down
<1>2. CASE \E cmd \in Commands : ReceiveAllowed(s, cmd.action, cmd.phase, cmd.value)
  BY <1>2, AllowedStep
<1>3. CASE ReceiveRefused(s)
  <2>1. ReleaseHeld(s) /\ state' = state
    BY <1>3 DEF ReceiveRefused, hookVars
  <2>2. held' = [held EXCEPT ![s] = {}]
    BY <1>3 DEF ReceiveRefused, HeldHasTeam
  <2> QED
    BY <2>1, <2>2, ReleaseLetsGo
<1>4. CASE Disconnect(s)
  BY <1>4, ReleaseLetsGo DEF Disconnect, CloseHandler, hookVars
<1> QED
  BY <1>1, <1>2, <1>3, <1>4 DEF Handler, Receive

\* So is each step of the transport or of the DLL; most are none.
LEMMA OtherLevels ==
  ASSUME HoldInv, Transport \/ Dll
  PROVE  LevelStep
<1> USE DEF HoldInv, HeldInv
<1>1. held' = held
  BY DEF Transport, Reconnect, Deliver, IdleTimeout, Notice, GoOffline,
         Dll, DllReceive, Frame, Game, backendVars
<1>2. CASE Reconnect \/ Deliver \/ Notice \/ GoOffline
  <2>1. UNCHANGED <<severed, wire, state>>
    BY <1>2 DEF Reconnect, Deliver, Notice, GoOffline, hookVars
  <2> QED
    BY <1>1, <2>1, LevelStutter DEF Down
<1>3. CASE IdleTimeout
  <2>1. DownLevels' = DownLevels /\ severed' = DownLevels'
    <3>1. UNCHANGED <<wire, state>> /\ severed' = DownLevels
      BY <1>3 DEF IdleTimeout, hookVars, DownLevels
    <3> QED
      BY <3>1, DownStays DEF Down
  <2>2. Levels!Lose
    BY <1>1, <2>1 DEF Levels!Lose, DownLevels
  <2> QED
    BY <2>2 DEF LevelStep, Levels!Next
<1>4. CASE DllReceive
  <2>1. /\ wire \in Seq(WireCommands) /\ wire # << >> /\ state \in ControlStates
        /\ wire' = Tail(wire) /\ severed' = severed
        /\ state' = ApplyEdge(state, Head(wire).action, Head(wire).phase, Head(wire).value)
    BY <1>4 DEF DllReceive, HandleCommand, TypeOK, HooksTypeOK
  <2>2. ASSUME NEW a \in HeldInputs
        PROVE  Down(a)' <=> Down(a)
    <3>1. a \in HeldActions
      BY DEF HeldInputs
    <3>2. Down(a)' <=> LevelAfter(Tail(wire), ApplyEdge(state, Head(wire).action,
                                            Head(wire).phase, Head(wire).value), a)
      BY <2>1 DEF Down
    <3> QED
      BY <2>1, <3>1, <3>2, LevelAfterHead, LevelAfterTail DEF Down
  <2> QED
    BY <1>1, <2>1, <2>2, LevelStutter
<1>5. CASE Frame
  <2>1. state'.held = state.held /\ UNCHANGED <<wire, severed>>
    BY <1>5, FrameTypes DEF Frame, TypeOK
  <2>2. \A a \in HeldInputs : Down(a)' <=> Down(a)
    BY <2>1 DEF Down, LevelAfter
  <2> QED
    BY <1>1, <2>1, <2>2, LevelStutter
<1>6. CASE Game
  <2>1. state'.held \subseteq state.held /\ UNCHANGED <<wire, severed>>
    BY <1>6, GameStepTypes DEF Game, linkVars, TypeOK
  <2>2. \A a : Down(a)' => Down(a)
    BY <2>1 DEF Down, LevelAfter
  <2>3. Levels!GameEnds
    BY <1>1, <2>1, <2>2 DEF Levels!GameEnds, DownLevels
  <2> QED
    BY <2>3 DEF LevelStep, Levels!Next
<1> QED
  BY <1>2, <1>3, <1>4, <1>5, <1>6 DEF Transport, Dll

\* So is each failure.
LEMMA FailureLevels ==
  ASSUME HoldInv, Failure
  PROVE  LevelStep
<1> USE DEF HoldInv, HeldInv
<1>1. CASE Break
  <2>1. severed' = DownLevels' /\ held' = held
    BY <1>1 DEF Break, LoseTail, DownLevels, Down, hookVars, backendVars
  <2>2. Levels!Lose
    BY <2>1 DEF Levels!Lose, DownLevels
  <2> QED
    BY <2>2 DEF LevelStep, Levels!Next
<1>2. CASE WaRestart
  <2>1. state'.held = {} /\ wire' = << >> /\ severed' = {} /\ held' = held
    BY <1>2, ReloadTypes DEF WaRestart, backendVars
  <2>2. DownLevels' = {}
    BY <2>1 DEF DownLevels, Down, LevelAfter
  <2>3. Levels!Lose
    BY <2>1, <2>2 DEF Levels!Lose
  <2> QED
    BY <2>3 DEF LevelStep, Levels!Next
<1>3. CASE BackendRestart
  <2>1. severed' = DownLevels' /\ held' = Levels!Nothing
    BY <1>3 DEF BackendRestart, LoseTail, DownLevels, Down, hookVars, Levels!Nothing
  <2>2. Levels!Lose
    BY <2>1 DEF Levels!Lose, DownLevels
  <2> QED
    BY <2>2 DEF LevelStep, Levels!Next
<1>4. ASSUME NEW s \in Sockets, HandlerFails(s)
      PROVE  LevelStep
  <2>1. held[s] \subseteq HeldInputs
    BY DEF TypeOK
  <2>2. /\ DownLevels' = DownLevels
        /\ held' = [held EXCEPT ![s] = @ \ held[s]]
        /\ severed' = severed \cup {a \in held[s] : Down(a)}
    BY <1>4, DownStays DEF HandlerFails, CloseHandler, linkVars, hookVars, Down
  <2>3. {a \in held[s] : Down(a)} = held[s] \cap DownLevels
    BY <2>1 DEF DownLevels
  <2>4. Levels!Abandon(s, held[s])
    BY <2>2, <2>3 DEF Levels!Abandon
  <2> QED
    BY <2>1, <2>4 DEF LevelStep, Levels!Next
<1> QED
  BY <1>1, <1>2, <1>3, <1>4 DEF Failure

LEMMA StepIsOfLevels ==
  ASSUME HoldInv, [Next]_vars
  PROVE  LevelStep
<1>1. CASE OwnerChanges \/ UNCHANGED vars
  <2>1. UNCHANGED <<held, severed, wire, state>>
    BY <1>1 DEF OwnerChanges, vars, hookVars, backendVars, linkVars
  <2> QED
    BY <2>1, LevelStutter DEF Down
<1>2. CASE \E s \in Sockets : Handler(s)
  BY <1>2, HandlerLevels
<1>3. CASE Transport \/ Dll
  BY <1>3, OtherLevels
<1>4. CASE Failure
  BY <1>4, FailureLevels
<1> QED
  BY <1>1, <1>2, <1>3, <1>4 DEF Next

(* Seen from the players, the handlers, the stream, the cached turn and the  *)
(* two threads of the DLL are one set of levels: a message works at once or, *)
(* on a link that is lost, not at all; another's command in between, a late  *)
(* snapshot or a frame makes no difference.                                  *)
THEOREM ChannelImplementsLevels == Spec => ImplementsLevels
<1>1. Init => Levels!Init
  <2>1. Init => \A a \in HeldInputs : ~Down(a)
    BY EmptyRequestsNothing DEF Init, HooksInit, Down, LevelAfter
  <2> QED
    BY <2>1 DEF Init, Levels!Init, Levels!Nothing, DownLevels
<1>2. HoldInv /\ [Next]_vars => [Levels!Next]_(Levels!vars)
  <2> SUFFICES ASSUME HoldInv, [Next]_vars
               PROVE  [Levels!Next]_(Levels!vars)
    OBVIOUS
  <2>1. LevelStep
    BY StepIsOfLevels
  <2> QED
    BY <2>1 DEF LevelStep
<1> QED
  BY <1>1, <1>2, HoldInvariance, PTL DEF Spec, Levels!Spec, ImplementsLevels

(* So no level goes down but by the press of a player who holds it, or as    *)
(* what a lost link leaves of an earlier one.                                *)
THEOREM LevelsGoDownByPress == Spec => Levels!DownByPress
<1>1. HoldInv /\ [Next]_vars
        => [\A a \in DownLevels' \ DownLevels :
              a \in severed' \/ \E s \in Sockets : a \in held'[s]]_(Levels!vars)
  <2> SUFFICES ASSUME HoldInv, [Next]_vars, NEW a \in DownLevels' \ DownLevels
               PROVE  a \in severed' \/ \E s \in Sockets : a \in held'[s]
    OBVIOUS
  <2>1. LevelStep
    BY StepIsOfLevels
  <2>2. DOMAIN held = Sockets
    BY DEF HoldInv, HeldInv, TypeOK
  <2>3. CASE \E s \in Sockets, b \in HeldInputs :
               Levels!Press(s, b) \/ Levels!PressInVain(s, b) \/ Levels!Release(s, b)
    BY <2>2, <2>3 DEF Levels!Press, Levels!PressInVain, Levels!Release
  <2>4. CASE \E s \in Sockets : Levels!LetGo(s) \/ \E set \in SUBSET HeldInputs : Levels!Abandon(s, set)
    BY <2>4 DEF Levels!LetGo, Levels!Abandon
  <2>5. CASE Levels!Lose \/ Levels!GameEnds \/ UNCHANGED Levels!vars
    BY <2>5 DEF Levels!Lose, Levels!GameEnds, Levels!vars
  <2> QED
    BY <2>1, <2>3, <2>4, <2>5 DEF LevelStep, Levels!Next
<1> QED
  BY <1>1, HoldInvariance, PTL DEF Spec, Levels!DownByPress
=============================================================================
