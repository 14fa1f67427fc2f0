---------------------------- MODULE ControlChannel ----------------------------
(***************************************************************************)
(* The player control channel end to end: the /ws/control handlers of       *)
(* src/backend/app/main.py, the TCP transport of ipc.py, the IPC server of  *)
(* src/dll/src/IpcServer.cpp and, below them, the DLL of ControlHooks.tla.  *)
(*                                                                          *)
(* The control handlers run on one event loop and await nothing between     *)
(* reading the cached state and tracking what they sent, so each received   *)
(* message is one step.  The transport's reader thread, the DLL's IPC       *)
(* thread and the game thread interleave with them at will, and the claim   *)
(* table may change between any two messages (TeamClaims.tla says when).    *)
(***************************************************************************)
EXTENDS ControlHooks, Sequences, FiniteSets

CONSTANTS
  Sockets,    \* control WebSockets
  Users,
  UserOf,     \* the authenticated email of each socket
  NoUser,     \* email_for_team is None
  Owner,      \* the claim table at the start
  Offline,    \* latest_state() is None
  MaxWire,    \* bound on commands in flight
  MaxPushed,  \* bound on snapshots in flight; the DLL drops when it is full
  MaxFaults   \* bound on broken links, dying processes or handlers, and
              \* changes of the claim table

ASSUME UserOfAssumption == UserOf \in [Sockets -> Users]
ASSUME OwnerAssumption == NoUser \notin Users /\ Owner \in [Teams -> Users \cup {NoUser}]
ASSUME OfflineAssumption == Offline \notin Teams \cup {NoTeam}
ASSUME BoundsAssumption ==
  MaxWire \in Nat /\ MaxPushed \in Nat /\ MaxFaults \in Nat

VARIABLES
  open,       \* sockets whose handler is running
  held,       \* the handler's "held" set
  heldTeam,   \* the handler's "held_team"
  owner,      \* store.email_for_team
  link,       \* "up"; "broken", not noticed yet; "down": _sock is None
  latest,     \* turn_team of the transport's _latest, or Offline
  wire,       \* commands sent and not yet handled by the DLL, oldest first
  pushed,     \* turn_team of the snapshots in flight, oldest first
  severed,    \* history: levels left down when a link or a process was lost
  faults      \* faults so far

backendVars == <<open, held, heldTeam, owner>>
linkVars == <<link, latest, wire, pushed>>
vars == <<hookVars, backendVars, linkVars, severed, faults>>

WireCommands ==
  {line \in [team : Teams, action : Inputs, phase : Phases, value : Values \cup {0}] :
     line.action = "select_weapon" \/ line.value = 0}

HeldInputs == Inputs \cap HeldActions

Init ==
  /\ HooksInit
  /\ open = {}
  /\ held = [s \in Sockets |-> {}]
  /\ heldTeam = [s \in Sockets |-> NoTeam]
  /\ owner = Owner
  /\ link = "down"
  /\ latest = Offline
  /\ wire = << >>
  /\ pushed = << >>
  /\ severed = {}
  /\ faults = 0

\* The level of an action after a state has taken a sequence of commands.
LevelAfter(commands, s, action) ==
  \/ \E i \in DOMAIN commands :
       /\ commands[i].action = action /\ commands[i].phase = "press"
       /\ \A j \in DOMAIN commands : commands[j].action = action => j <= i
  \/ /\ action \in s.held
     /\ \A i \in DOMAIN commands : commands[i].action # action

\* The level the DLL will hold for an action once the wire is drained.
Down(action) == LevelAfter(wire, state, action)

-----------------------------------------------------------------------------
(* The backend: one control handler per socket.                             *)

Command(team, action, phase, value) ==
  [team |-> team, action |-> action, phase |-> phase, value |-> value]

\* send_command over a live connection: the line is in the stream for good.
Send(commands) ==
  /\ Len(wire) + Len(commands) <= MaxWire
  /\ wire' = wire \o commands
  /\ severed' = severed \ {commands[i].action : i \in DOMAIN commands}

\* The release lines of _release_held, in the order the set iterates.
Releases(s) ==
  LET n == Cardinality(held[s])
      orders == {o \in [1 .. n -> held[s]] : \A a \in held[s] : \E i \in 1 .. n : o[i] = a}
  IN  {[i \in 1 .. n |-> Command(heldTeam[s], o[i], "release", 0)] : o \in orders}

\* Variant used as a mutant: releases only while the team still has the turn.
ReleaseHeldOnTurn(s) ==
  \/ /\ heldTeam[s] = latest /\ link = "up"
     /\ \E lines \in Releases(s) : Send(lines)
  \/ /\ heldTeam[s] # latest \/ link # "up"
     /\ UNCHANGED <<wire, severed>>

\* _release_held: each send may raise GameOfflineError, which is swallowed.
ReleaseHeld(s) ==
  \/ /\ heldTeam[s] # NoTeam /\ link = "up"
     /\ \E lines \in Releases(s) : Send(lines)
  \/ /\ heldTeam[s] = NoTeam \/ link # "up"
     /\ UNCHANGED <<wire, severed>>

Connect(s) ==
  /\ s \notin open
  /\ open' = open \cup {s}
  /\ UNCHANGED <<held, heldTeam, owner, hookVars, linkVars, severed, faults>>

\* Variant used as a mutant: only another's turn is refused, nobody's is not.
IsNotOthersTurn(s) ==
  latest = NoTeam \/ (latest \in Teams /\ owner[latest] = UserOf[s])

\* _is_users_turn on the snapshot the transport has cached.
IsUsersTurn(s) == latest \in Teams /\ owner[latest] = UserOf[s]

\* Variant used as a mutant: held is tracked, held_team is not.
TrackWithoutTeam(s, action, phase) ==
  /\ held' = [held EXCEPT ![s] =
                IF phase = "press" THEN @ \cup ({action} \cap HeldActions)
                                   ELSE @ \ {action}]
  /\ UNCHANGED heldTeam

\* held_team and held after a command was sent; one-shots are not tracked.
Track(s, action, phase) ==
  /\ held' = [held EXCEPT ![s] =
                IF phase = "press" THEN @ \cup ({action} \cap HeldActions)
                                   ELSE @ \ {action}]
  /\ heldTeam' = [heldTeam EXCEPT ![s] =
                    IF action \in HeldActions THEN latest ELSE @]

ReceiveAllowed(s, action, phase, value) ==
  /\ s \in open /\ IsUsersTurn(s)
  /\ link # "down"
  /\ \/ link = "up" /\ Send(<<Command(latest, action, phase, value)>>)
     \/ link = "broken" /\ UNCHANGED <<wire, severed>>  \* accepted, then lost
  /\ Track(s, action, phase)
  /\ UNCHANGED <<open, owner, link, latest, pushed, hookVars, faults>>

\* "not your turn".
ReceiveRefused(s) ==
  /\ s \in open /\ latest # Offline /\ ~IsUsersTurn(s)
  /\ ReleaseHeld(s)
  /\ held' = [held EXCEPT ![s] = IF heldTeam[s] = NoTeam THEN @ ELSE {}]
  /\ UNCHANGED <<open, heldTeam, owner, link, latest, pushed, hookVars, faults>>

\* "game offline": no snapshot, or send_command raised; nothing is tracked.
ReceiveOffline(s) ==
  /\ s \in open
  /\ latest = Offline \/ (IsUsersTurn(s) /\ link # "up")
  /\ UNCHANGED vars

CloseHandler(s) ==
  /\ open' = open \ {s}
  /\ held' = [held EXCEPT ![s] = {}]
  /\ heldTeam' = [heldTeam EXCEPT ![s] = NoTeam]

\* Variant used as a mutant: a closed socket is forgotten, not released.
DisconnectForgets(s) ==
  /\ s \in open
  /\ CloseHandler(s)
  /\ UNCHANGED <<owner, linkVars, hookVars, severed, faults>>

\* WebSocketDisconnect.
Disconnect(s) ==
  /\ s \in open
  /\ ReleaseHeld(s)
  /\ CloseHandler(s)
  /\ UNCHANGED <<owner, link, latest, pushed, hookVars, faults>>

-----------------------------------------------------------------------------
(* The transport's reader thread and the connection.                        *)

\* create_connection succeeds, _sock is set; the DLL serves it once it has
\* drained the one before.
Reconnect ==
  /\ link = "down" /\ latest = Offline
  /\ link' = "up"
  /\ UNCHANGED <<latest, wire, pushed, backendVars, hookVars, severed, faults>>

\* _on_line: a snapshot becomes the latest.
Deliver ==
  /\ link # "down" /\ pushed # << >>
  /\ latest' = Head(pushed)
  /\ pushed' = Tail(pushed)
  /\ UNCHANGED <<link, wire, backendVars, hookVars, severed, faults>>

\* Closing a connection may discard the end of what the DLL has not read;
\* every level that is then down has lost the link its release would take.
LoseTail ==
  \E k \in 0 .. Len(wire) :
    /\ wire' = SubSeq(wire, 1, k)
    /\ severed' = {a \in HeldInputs : LevelAfter(wire', state, a)}

\* Bounds what happens seldom: failures, stalls and changes of the table.
Fault == faults < MaxFaults /\ faults' = faults + 1

\* recv ran into its 5 s timeout: between games no frame is drawn, in a live
\* game WA has stalled, which counts among the faults.  Nothing is unread, so
\* the close is orderly and the DLL gets the whole wire.
IdleTimeout ==
  /\ link = "up" /\ pushed = << >>
  /\ IF GameLive THEN Fault ELSE UNCHANGED faults
  /\ link' = "down"
  /\ severed' = {a \in HeldInputs : Down(a)}
  /\ UNCHANGED <<latest, wire, pushed, backendVars, hookVars>>

\* The stream ended: "finally" clears _sock, and _latest in a second step.
Notice ==
  /\ link = "broken"
  /\ link' = "down"
  /\ pushed' = << >>
  /\ UNCHANGED <<latest, wire, backendVars, hookVars, severed, faults>>

GoOffline ==
  /\ link = "down" /\ latest # Offline
  /\ latest' = Offline
  /\ UNCHANGED <<link, wire, pushed, backendVars, hookVars, severed, faults>>

-----------------------------------------------------------------------------
(* The DLL.                                                                 *)

\* serveClient: the IPC thread handles the next line.
DllReceive ==
  /\ wire # << >>
  /\ wire' = Tail(wire)
  /\ UNCHANGED <<link, latest, pushed, backendVars, severed, faults>>
  /\ HandleCommand(Head(wire))

\* pushState: best effort, a frame may be throttled or dropped.
Frame ==
  /\ OnFrame
  /\ \/ /\ link = "up" /\ Len(pushed) < MaxPushed
        /\ pushed' = Append(pushed, BuildSnapshot.turn_team)
     \/ UNCHANGED pushed
  /\ UNCHANGED <<link, latest, wire, backendVars, severed, faults>>

Game ==
  /\ GameStep
  /\ UNCHANGED <<backendVars, linkVars, severed, faults>>

-----------------------------------------------------------------------------
(* What may fail, at most MaxFaults times.                                  *)

\* The connection resets, pushState gives up on a partial line, or it pushes
\* into a connection that the backend has closed and the DLL not yet drained.
Break ==
  /\ Fault
  /\ link \in {"up", "down"}
  /\ link' = IF link = "up" THEN "broken" ELSE link
  /\ LoseTail
  /\ UNCHANGED <<latest, pushed, backendVars, hookVars>>

\* WA exits or crashes and is started again.
WaRestart ==
  /\ Fault
  /\ ReloadDll
  /\ wire' = << >>
  /\ link' = IF link = "up" THEN "broken" ELSE link
  /\ severed' = {}
  /\ UNCHANGED <<latest, pushed, backendVars>>

\* The backend dies with its sockets; nobody is left to send a release.
BackendRestart ==
  /\ Fault
  /\ LoseTail
  /\ open' = {}
  /\ held' = [s \in Sockets |-> {}]
  /\ heldTeam' = [s \in Sockets |-> NoTeam]
  /\ link' = "down" /\ latest' = Offline /\ pushed' = << >>
  /\ UNCHANGED <<owner, hookVars>>

\* A handler ends in any exception but WebSocketDisconnect.
HandlerFails(s) ==
  /\ Fault
  /\ s \in open
  /\ CloseHandler(s)
  /\ severed' = severed \cup {a \in held[s] : Down(a)}
  /\ UNCHANGED <<owner, linkVars, hookVars>>

-----------------------------------------------------------------------------
(* The claim table, at most MaxFaults times.                                *)

\* store.claim: the team is free and the user has none.
ClaimTeam(team, user) ==
  /\ owner[team] = NoUser
  /\ \A other \in Teams : owner[other] # user
  /\ owner' = [owner EXCEPT ![team] = user]

\* delete_mapping; and clear_all, by an admin or for a new game.
FreeTeams(teams) ==
  /\ \E team \in teams : owner[team] # NoUser
  /\ owner' = [team \in Teams |-> IF team \in teams THEN NoUser ELSE owner[team]]

OwnerChanges ==
  /\ Fault
  /\ \/ \E team \in Teams, user \in Users : ClaimTeam(team, user)
     \/ \E team \in Teams : FreeTeams({team})
     \/ FreeTeams(Teams)
  /\ UNCHANGED <<open, held, heldTeam, linkVars, hookVars, severed>>

-----------------------------------------------------------------------------
Receive(s) ==
  \/ \E cmd \in Commands : ReceiveAllowed(s, cmd.action, cmd.phase, cmd.value)
  \/ ReceiveRefused(s)
  \/ ReceiveOffline(s)

Handler(s) == Connect(s) \/ Receive(s) \/ Disconnect(s)

Transport == Reconnect \/ Deliver \/ IdleTimeout \/ Notice \/ GoOffline

Dll == DllReceive \/ Frame \/ Game

Failure ==
  Break \/ WaRestart \/ BackendRestart \/ \E s \in Sockets : HandlerFails(s)

Next ==
  (\E s \in Sockets : Handler(s)) \/ Transport \/ Dll \/ Failure \/ OwnerChanges

Spec == Init /\ [][Next]_vars

(* The DLL's IPC thread polls its socket every 5 ms (serveClient).            *)
FairSpec == Spec /\ WF_vars(DllReceive)

-----------------------------------------------------------------------------
(* Types of the channel and of the DLL below it.                             *)
TypeOK ==
  /\ HooksTypeOK
  /\ open \subseteq Sockets
  /\ held \in [Sockets -> SUBSET HeldInputs]
  /\ heldTeam \in [Sockets -> Teams \cup {NoTeam}]
  /\ owner \in [Teams -> Users \cup {NoUser}]
  /\ link \in {"up", "broken", "down"}
  /\ latest \in Teams \cup {NoTeam, Offline}
  /\ wire \in Seq(WireCommands)
  /\ pushed \in Seq(Teams \cup {NoTeam})
  /\ severed \subseteq HeldInputs
  /\ faults \in 0 .. MaxFaults

(* No level stays down behind everybody's back: once what is in flight is    *)
(* handled, each level the DLL holds is tracked by a socket that is open and *)
(* will release it, or was cut off by a lost connection or process.  This is *)
(* what held, held_team and _release_held of main.py are for.                *)
NoOrphanHold ==
  \A a \in HeldInputs :
    Down(a) => a \in severed \/ \E s \in open : a \in held[s]

(* _release_held returns at once when held_team is None: whoever holds       *)
(* something has a team, even after the table has given it to someone else,  *)
(* and a closed socket holds nothing.                                        *)
HeldHasTeam ==
  \A s \in Sockets : held[s] # {} => s \in open /\ heldTeam[s] # NoTeam

(* A level nobody holds any more is released by the DLL, unless somebody     *)
(* presses it again or the link is lost with the release on it.              *)
OrphanIsReleased ==
  \A a \in HeldInputs :
    (a \in state.held /\ a \notin severed /\ \A s \in open : a \notin held[s])
      ~> (a \notin state.held \/ a \in severed \/ \E s \in open : a \in held[s])

DownLevels == {a \in HeldInputs : Down(a)}

Levels == INSTANCE HeldLevels
            WITH Levels <- HeldInputs, down <- DownLevels, holds <- held, cut <- severed

(* Seen from the players, the handlers, the stream, the cached turn and the  *)
(* two threads of the DLL are one set of levels: a message works at once or, *)
(* on a link that is lost, not at all; another's command in between, a late  *)
(* snapshot or a frame makes no difference.                                  *)
ImplementsLevels == Levels!Spec

-----------------------------------------------------------------------------
(* README.md says the turn-holder check is enforced inside the DLL, not just *)
(* in the web layer: the DLL acts on a command only while the command's team *)
(* has the turn.                                                             *)
DllEnforcesTurn == [][DllReceive => Head(wire).team = turnTeam]_vars

(* WA_INTERNALS.md says the backend releases held inputs on disconnect and   *)
(* turn loss, so that a dropped phone leaves no worm walking.  Without any   *)
(* fault: in a live game on a working link, with nothing in flight, a level  *)
(* that is down is down because some player holds it.                        *)
NoWormWalksAlone ==
  (/\ GameLive /\ turnTeam # NoTeam /\ latest = turnTeam
   /\ link = "up" /\ wire = << >>)
    => \A a \in state.held : \E s \in open : a \in held[s]
=============================================================================
