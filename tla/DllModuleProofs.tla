--------------------------- MODULE DllModuleProofs ----------------------------
(***************************************************************************)
(* What DllModule.tla and IpcServer.tla claim of the sockets, the threads   *)
(* and the hooks, for any number of handles, any builds of WA and any       *)
(* signatures that tell its functions apart.  Two inductive invariants:     *)
(* ServerInv says what is behind each handle, LoadInv how far a load has    *)
(* come and where its addresses are from.                                   *)
(***************************************************************************)
EXTENDS DllModule, SequenceTheorems, TLAPS

ListenPcs == ServingPcs \cup {"binding", "loop", "accepting", "leaving",
                              "close_listener", "killed"}

\* Only the accepted connection and the listening socket are the server's, each
\* behind one handle, and the listening socket's handle is never a connection.
ServerInv ==
  /\ ClientIsServed
  /\ HandleIsOwn
  /\ pc \in ServingPcs => conn \in Handles
  /\ pc = "enter" => ~dropped
  /\ \A h \in Handles :
       /\ sock[h] = "conn" => h = conn /\ h # listenSock /\ pc \in ServingPcs \cup {"killed"}
       /\ sock[h] = "listen" => h = listenSock /\ pc \in ListenPcs /\ dllMain # "stop_reset"

\* The steps of install() that are through have found, or hooked, their name.
Progress ==
  dllMain = "attaching" =>
    \A i \in 1 .. step - 1 :
      /\ Program[i].op = "scan" => memo[Program[i].name] # NoAddr
      /\ Program[i].op = "hook" => hooks[Program[i].name] # NoAddr

LoadInv ==
  /\ dllMain = "unloaded" => pc = "none" /\ hooks = NoHooks /\ memo = NoAddrs
  /\ dllMain = "attaching" /\ step # 10 => pc = "none"
  /\ dllMain = "failing" => pc = "none"
  /\ Progress
  /\ AllOrNothing
  /\ dllMain # "unloaded" =>
       \A n \in HookNames : /\ hooks[n] \in {NoAddr, memo[n]}
                            /\ memo[n] \in {NoAddr, file[n], Home[build][n]}

Inv == TypeOK /\ ServerInv /\ LoadInv
-----------------------------------------------------------------------------
(* The scanner.                                                              *)

\* A scan finds the function itself, or nothing in a build that lacks it.
LEMMA ScanFindsHome ==
  ASSUME build \in Builds, NEW n \in Names
  PROVE  Scanned(n) = Home[build][n]
<1> DEFINE image == Image[build]
           pattern == Pattern[n]
           home == Home[build][n]
<1>1. /\ image \in Seq(Bytes) /\ Len(image) \in Nat
      /\ pattern \in Seq(Bytes \cup {Wild}) /\ Len(pattern) \in Nat
      /\ DOMAIN pattern = 1 .. Len(pattern)
      /\ home \in 0 .. Len(image)
  BY HomeAssumption, PatternAssumption, LenProperties
<1>2. \A p \in 1 .. Len(image) :
        p = home <=> /\ Len(pattern) > 0 /\ p + Len(pattern) <= Len(image) + 1
                     /\ MatchAt(image, p, pattern)
  <2>1. pattern # << >> <=> Len(pattern) > 0
    BY <1>1, EmptySeq
  <2>2. \A p : MatchAt(image, p, pattern)
              <=> \A i \in DOMAIN pattern : pattern[i] = Wild \/ pattern[i] = image[p + i - 1]
    BY <1>1 DEF MatchAt
  <2>3. \A p \in 1 .. Len(image) :
          p = home <=>
            /\ pattern # << >> /\ p + Len(pattern) <= Len(image) + 1
            /\ \A i \in DOMAIN pattern : pattern[i] = Wild \/ pattern[i] = image[p + i - 1]
    BY SignatureAssumption
  <2> HIDE DEF image, pattern, home
  <2> QED
    BY <2>1, <2>2, <2>3
<1> HIDE DEF image, pattern, home
<1>3. Matches(image, pattern) = {home} \ {NoAddr}
  <2>1. \A p : p \in 1 .. (Len(image) + 1) - Len(pattern) /\ Len(pattern) > 0
              <=> p \in 1 .. Len(image) /\ Len(pattern) > 0 /\ p + Len(pattern) <= Len(image) + 1
    BY <1>1
  <2>2. \A p : p \in Matches(image, pattern) <=> p \in 1 .. Len(image) /\ p = home
    BY <1>2, <2>1 DEF Matches
  <2> QED
    BY <1>1, <2>2 DEF NoAddr
<1>4. home \in Int
  BY <1>1
<1>5. CASE home = NoAddr
  BY <1>3, <1>5 DEF Scanned, FindInMainModule, image, pattern, home
<1>6. CASE home # NoAddr
  <2>1. Matches(image, pattern) = {home}
    BY <1>3, <1>6
  <2>2. (CHOOSE p \in {home} : \A q \in {home} : p <= q) = home
    BY <1>4
  <2>3. FindInMainModule(image, pattern) = home
    BY <2>1, <2>2 DEF FindInMainModule
  <2> QED
    BY <2>3 DEF Scanned, image, pattern, home
<1> QED
  BY <1>5, <1>6
-----------------------------------------------------------------------------
(* Types.                                                                    *)

\* install() has ten steps.
LEMMA ProgramLength == Len(Program) = 10
  BY DEF Program

\* What each step of install() does, and to which name.
LEMMA ProgramSteps ==
  /\ \A i \in {1, 2, 3, 7} : Program[i].op = "scan"
  /\ \A i \in {4, 5, 6, 8} : Program[i].op = "hook"
  /\ Program[9].op = "serve" /\ Program[10].op = "save"
  /\ Program[1].name = "InitializeW2App" /\ Program[4].name = "InitializeW2App"
  /\ Program[2].name = "ConstructGameGlobal" /\ Program[5].name = "ConstructGameGlobal"
  /\ Program[3].name = "DestroyGameGlobal" /\ Program[6].name = "DestroyGameGlobal"
  /\ Program[7].name = "CTurnGameHandleMessage" /\ Program[8].name = "CTurnGameHandleMessage"
  BY DEF Program

\* Only saving comes last, so that a step before it has a successor.
LEMMA StepsOn ==
  ASSUME step \in 1 .. Len(Program), NEW op \in {"scan", "hook", "serve"}, NEW name,
         Doing(op, name)
  PROVE  step \in 1 .. 9 /\ step + 1 \in 1 .. Len(Program)
  BY ProgramLength, ProgramSteps DEF Doing

\* Every address a scan returns is a number.
LEMMA ScannedType ==
  ASSUME build \in Builds, NEW n \in Names
  PROVE  Scanned(n) \in Nat
<1>1. Image[build] \in Seq(Bytes) /\ Home[build] \in [Names -> 0 .. Len(Image[build])]
  BY HomeAssumption
<1>2. Len(Image[build]) \in Nat /\ Home[build][n] \in 0 .. Len(Image[build])
  BY <1>1, LenProperties
<1> QED
  BY <1>2, ScanFindsHome

\* The types hold initially.
LEMMA InitType == Init => TypeOK
<1> SUFFICES ASSUME Init
             PROVE  TypeOK
  OBVIOUS
<1>1. ServerTypeOK
  BY DEF Init, ServerInit, ServerTypeOK, SocketKinds, ThreadPcs
<1>2. file \in [Names -> Nat] /\ memo \in [Names -> Nat] /\ hooks \in [HookNames -> Nat]
  BY DEF Init, NoAddrs, NoHooks, NoAddr
<1>3. step \in 1 .. Len(Program) /\ torn \in 0 .. MaxTorn
  BY ProgramLength, TornAssumption DEF Init
<1> QED
  BY <1>1, <1>2, <1>3 DEF Init, TypeOK, DllMainPcs

\* The server's steps keep the server's types.
LEMMA ServerTypes ==
  ASSUME ServerTypeOK, dllMain \in DllMainPcs,
         ThreadStep \/ Push \/ PushBegins \/ Surroundings \/ Stop
  PROVE  ServerTypeOK' /\ dllMain' \in DllMainPcs
<1> USE DEF ServerTypeOK
<1>0. CASE OpenListener \/ Accept
  BY <1>0 DEF OpenListener, Accept, ThreadPcs, ServingPcs, SocketKinds
<1>1. CASE BindListener \/ LoopTest \/ AcceptRefused \/ AcceptError
  BY <1>1 DEF BindListener, LoopTest, AcceptRefused, AcceptError, ThreadPcs, ServingPcs,
              SocketKinds
<1>2. CASE EnterService \/ LeaveService \/ ForeignError \/ EndService
  BY <1>2 DEF EnterService, LeaveService, ForeignError, EndService, ClearClient,
              ThreadPcs, ServingPcs
<1>3. CASE FinishService \/ CheckListener \/ CloseListener \/ ResetListener \/ ThreadEnds
  BY <1>3 DEF FinishService, CloseConnection, CheckListener, CloseListener, ResetListener,
              ThreadEnds, CloseSocket, ThreadPcs, ServingPcs, SocketKinds
<1>4. CASE Push \/ PushBegins
  BY <1>4 DEF Push, PushReturns, PushDropsClient, PushBegins, CloseSocket, SocketKinds
<1>5. CASE BackendConnects \/ BackendCloses \/ ForeignSocket
  BY <1>5 DEF BackendConnects, BackendCloses, ForeignSocket, CloseSocket, SocketKinds
<1>6. CASE Stop
  BY <1>6 DEF Stop, StopChecksListener, StopClosesListener, StopResetsListener, StopJoins,
              CloseSocket, SocketKinds, DllMainPcs, StopPcs, serverVars
<1> QED
  BY <1>0, <1>1, <1>2, <1>3, <1>4, <1>5, <1>6 DEF ThreadStep, Surroundings

\* Unloading the module resets what it takes along.
LEMMA UnloadTypes ==
  ASSUME TypeOK, Unload
  PROVE  /\ ServerTypeOK' /\ dllMain' \in DllMainPcs
         /\ memo' \in [Names -> Nat] /\ found' \in BOOLEAN
         /\ hooks' \in [HookNames -> Nat]
         /\ step' \in 1 .. Len(Program) /\ ammo' \in {"untried", "found", "failed"}
<1>1. ServerTypeOK' /\ dllMain' \in DllMainPcs
  BY DEF Unload, TypeOK, ServerTypeOK, SocketKinds, ThreadPcs, DllMainPcs
<1>2. memo' \in [Names -> Nat] /\ hooks' \in [HookNames -> Nat]
  BY DEF Unload, NoAddrs, NoHooks, NoAddr
<1>3. step' \in 1 .. Len(Program)
  BY ProgramLength DEF Unload
<1> QED
  BY <1>1, <1>2, <1>3 DEF Unload
\* Every step keeps the types.
LEMMA NextType == TypeOK /\ [Next]_vars => TypeOK'
<1> SUFFICES ASSUME TypeOK, [Next]_vars
             PROVE  TypeOK'
  OBVIOUS
<1>1. CASE AttachSkips \/ AttachBegins \/ AttachFails
  <2>1. NoHooks \in [HookNames -> Nat]
    BY DEF NoHooks, NoAddr
  <2>2. 1 \in 1 .. Len(Program)
    BY ProgramLength
  <2> QED
    BY <1>1, <2>1, <2>2 DEF AttachSkips, AttachBegins, AttachFails, TypeOK, ServerTypeOK,
       DllMainPcs, serverVars, moduleVars
<1>2. ASSUME NEW name \in HookNames, Scan(name)
      PROVE  TypeOK'
  <2>1. step + 1 \in 1 .. Len(Program)
    BY <1>2, StepsOn DEF Scan, TypeOK
  <2>2. name \in Names /\ Scanned(name) \in Nat
    BY ScannedType DEF TypeOK, Names
  <2>3. memo' \in [Names -> Nat] /\ found' \in BOOLEAN
    BY <1>2, <2>2 DEF Scan, ScanPattern, TypeOK
  <2>4. step' \in 1 .. Len(Program) /\ dllMain' \in DllMainPcs
    BY <1>2, <2>1 DEF Scan, Done, Throw, TypeOK, DllMainPcs
  <2> QED
    BY <1>2, <2>3, <2>4 DEF Scan, TypeOK, ServerTypeOK, serverVars
<1>3. ASSUME NEW name \in HookNames, Hook(name)
      PROVE  TypeOK'
  <2>1. step + 1 \in 1 .. Len(Program)
    BY <1>3, StepsOn DEF Hook, TypeOK
  <2>2. memo[name] \in Nat
    BY DEF TypeOK, Names
  <2>3. hooks' \in [HookNames -> Nat]
    BY <1>3, <2>2 DEF Hook, HookOrThrow, TypeOK
  <2>4. step' \in 1 .. Len(Program) /\ dllMain' \in DllMainPcs
    BY <1>3, <2>1 DEF Hook, HookOrThrow, Done, Throw, TypeOK, DllMainPcs
  <2> QED
    BY <1>3, <2>3, <2>4 DEF Hook, TypeOK, ServerTypeOK, serverVars
<1>4. CASE Serve
  <2>1. step + 1 \in 1 .. Len(Program)
    BY <1>4, StepsOn DEF Serve, TypeOK
  <2> QED
    <3>1. running' \in BOOLEAN /\ pc' \in ThreadPcs
      BY <1>4 DEF Serve, SpawnThread, TypeOK, ServerTypeOK, ThreadPcs
    <3>2. UNCHANGED <<listenSock, client, sock, conn, pushing, backlog, peer, dropped>>
      BY <1>4 DEF Serve, SpawnThread
    <3>3. ServerTypeOK'
      BY <3>1, <3>2 DEF TypeOK, ServerTypeOK
    <3>4. /\ step' \in 1 .. Len(Program)
          /\ UNCHANGED <<dllMain, build, file, memo, found, hooks, ammo, torn>>
      BY <1>4, <2>1 DEF Serve, Done
    <3> QED
      BY <3>3, <3>4 DEF TypeOK
<1>5. CASE SaveOffsets
  BY <1>5 DEF SaveOffsets, AttachEnds, TypeOK, ServerTypeOK, DllMainPcs, serverVars
<1>6. CASE Detach
  <2>1. pc' \in ThreadPcs /\ pushing' \in BOOLEAN
    BY <1>6 DEF Detach, TypeOK, ServerTypeOK, ThreadPcs
  <2>2. dllMain' \in DllMainPcs /\ running' \in BOOLEAN
    BY <1>6 DEF Detach, DllMainPcs, StopPcs
  <2> QED
    BY <1>6, <2>1, <2>2 DEF Detach, TypeOK, ServerTypeOK, moduleVars
<1>7. CASE Cleanup \/ Crash
  BY <1>7, UnloadTypes DEF Cleanup, Crash, TypeOK
<1>8. CASE CrashInSave
  <2>1. torn' \in 0 .. MaxTorn
    BY <1>8, TornAssumption DEF CrashInSave, TypeOK
  <2>2. PICK k \in 0 .. Len(SaveOrder), cut \in {NoAddr, TornAddr} :
          file' = [n \in Names |->
                     LET i == CHOOSE j \in DOMAIN SaveOrder : SaveOrder[j] = n
                     IN  IF i <= k THEN memo[n]
                         ELSE IF i = k + 1 /\ memo[n] # NoAddr THEN cut ELSE NoAddr]
    BY <1>8 DEF CrashInSave
  <2>3. cut \in Nat /\ NoAddr \in Nat
    BY TornAssumption DEF NoAddr
  <2>4. file' \in [Names -> Nat]
    BY <2>2, <2>3 DEF TypeOK
  <2> QED
    BY <1>8, <2>1, <2>4, UnloadTypes DEF CrashInSave, TypeOK
<1>9. CASE FramePushes
  <2>1. ServerTypeOK' /\ dllMain' \in DllMainPcs
    BY <1>9, ServerTypes DEF FramePushes, TypeOK
  <2> QED
    BY <1>9, <2>1 DEF FramePushes, moduleVars, TypeOK
<1>10. CASE ResolveAmmoTable
  <2>1. Scanned("ReadAmmoFromWAM") \in Nat
    BY ScannedType DEF TypeOK, Names
  <2>2. memo' \in [Names -> Nat] /\ found' \in BOOLEAN
    BY <1>10, <2>1 DEF ResolveAmmoTable, ScanPattern, TypeOK
  <2> QED
    BY <1>10, <2>2 DEF ResolveAmmoTable, TypeOK, ServerTypeOK, serverVars
<1>11. CASE WaUpdated
  BY <1>11 DEF WaUpdated, TypeOK, ServerTypeOK, serverVars
<1>12. CASE Server
  <2>1. ServerTypeOK' /\ dllMain' \in DllMainPcs
    BY <1>12, ServerTypes DEF Server, TypeOK
  <2> QED
    BY <1>12, <2>1 DEF Server, moduleVars, TypeOK
<1>13. CASE UNCHANGED vars
  BY <1>13 DEF vars, serverVars, moduleVars, TypeOK, ServerTypeOK
<1> QED
  BY <1>1, <1>2, <1>3, <1>4, <1>5, <1>6, <1>7, <1>8, <1>9, <1>10, <1>11, <1>12, <1>13
     DEF Next, Attach

(* Types of the sockets, the threads, the load and the cache file, for any   *)
(* handles, builds, signatures and bounds.                                   *)
THEOREM TypeCorrect == Spec => []TypeOK
  BY InitType, NextType, PTL DEF Spec
-----------------------------------------------------------------------------
(* The sockets.                                                              *)

LEMMA InitServer == Init => ServerInv
  BY InvalidAssumption DEF Init, ServerInit, ServerInv, ClientIsServed, HandleIsOwn,
     ServingPcs

\* The steps of the three threads keep the handles apart.
LEMMA ServerSteps ==
  ASSUME ServerTypeOK, ServerInv,
         ThreadStep \/ Push \/ PushBegins \/ Surroundings \/ Stop
  PROVE  ServerInv'
<1> USE InvalidAssumption DEF ServerTypeOK, ServerInv, ClientIsServed, HandleIsOwn,
        ServingPcs, ListenPcs
<1>1. CASE OpenListener
  BY <1>1 DEF OpenListener, LoaderLocked
<1>2. CASE BindListener
  BY <1>2 DEF BindListener
<1>3. CASE LoopTest
  BY <1>3 DEF LoopTest
<1>4. CASE Accept
  BY <1>4 DEF Accept, Listening
<1>5. CASE AcceptRefused
  BY <1>5 DEF AcceptRefused
<1>6. CASE AcceptError
  BY <1>6 DEF AcceptError
<1>7. CASE EnterService
  BY <1>7 DEF EnterService
<1>8. CASE LeaveService
  BY <1>8 DEF LeaveService
<1>9. CASE ForeignError
  BY <1>9 DEF ForeignError
<1>10. CASE EndService
  BY <1>10 DEF EndService, ClearClient
<1>11. CASE FinishService
  BY <1>11 DEF FinishService, CloseConnection, CloseSocket
<1>12. CASE CheckListener
  BY <1>12 DEF CheckListener
<1>13. CASE CloseListener
  BY <1>13 DEF CloseListener, CloseSocket
<1>14. CASE ResetListener
  BY <1>14 DEF ResetListener
<1>15. CASE ThreadEnds
  BY <1>15 DEF ThreadEnds
<1>16. CASE PushBegins
  BY <1>16 DEF PushBegins
<1>17. CASE PushReturns
  BY <1>17 DEF PushReturns
<1>18. CASE PushDropsClient
  BY <1>18 DEF PushDropsClient, CloseSocket
<1>19. CASE StopChecksListener
  BY <1>19 DEF StopChecksListener, serverVars
<1>20. CASE StopClosesListener
  BY <1>20 DEF StopClosesListener, CloseSocket
<1>21. CASE StopResetsListener
  BY <1>21 DEF StopResetsListener
<1>22. CASE StopJoins
  BY <1>22 DEF StopJoins, serverVars
<1>23. CASE BackendConnects
  BY <1>23 DEF BackendConnects
<1>24. CASE BackendCloses
  BY <1>24 DEF BackendCloses
<1>25. CASE ForeignSocket
  BY <1>25 DEF ForeignSocket, CloseSocket
<1> QED
  BY <1>1, <1>2, <1>3, <1>4, <1>5, <1>6, <1>7, <1>8, <1>9, <1>10, <1>11, <1>12, <1>13,
     <1>14, <1>15, <1>16, <1>17, <1>18, <1>19, <1>20, <1>21, <1>22, <1>23, <1>24, <1>25
     DEF ThreadStep, Push, Surroundings, Stop

\* Nothing of the server is left once the module or the process is.
LEMMA UnloadServer == Unload => ServerInv'
  BY InvalidAssumption DEF Unload, ServerInv, ClientIsServed, HandleIsOwn, ServingPcs
\* A step that leaves the sockets alone, and does not come to stop_reset.
LEMMA ServerKept ==
  ASSUME ServerInv, UNCHANGED serverVars, dllMain' = dllMain \/ dllMain' # "stop_reset"
  PROVE  ServerInv'
  BY DEF ServerInv, ClientIsServed, HandleIsOwn, ServingPcs, ListenPcs, serverVars

LEMMA NextServer == TypeOK /\ ServerInv /\ LoadInv /\ [Next]_vars => ServerInv'
<1> SUFFICES ASSUME TypeOK, ServerInv, LoadInv, [Next]_vars
             PROVE  ServerInv'
  OBVIOUS
<1>1. CASE AttachSkips \/ AttachBegins \/ AttachFails \/ SaveOffsets
  BY <1>1, ServerKept DEF AttachSkips, AttachBegins, AttachFails, SaveOffsets, AttachEnds
<1>2. ASSUME NEW name \in HookNames, Scan(name) \/ Hook(name)
      PROVE  ServerInv'
  BY <1>2, ServerKept DEF Scan, Hook, HookOrThrow, Done, Throw
<1>3. CASE Serve
  <2>1. pc = "none"
    BY <1>3, ProgramSteps DEF Serve, Doing, LoadInv
  <2> QED
    BY <1>3, <2>1 DEF Serve, SpawnThread, Done, ServerInv, ClientIsServed, HandleIsOwn,
       ServingPcs, ListenPcs
<1>4. CASE Detach
  BY <1>4 DEF Detach, ServerInv, ClientIsServed, HandleIsOwn, ServingPcs, ListenPcs,
     TypeOK, ServerTypeOK
<1>5. CASE Cleanup \/ Crash \/ CrashInSave
  BY <1>5, UnloadServer DEF Cleanup, Crash, CrashInSave
<1>6. CASE FramePushes \/ Server
  BY <1>6, ServerSteps DEF FramePushes, Server, TypeOK
<1>7. CASE ResolveAmmoTable \/ WaUpdated \/ UNCHANGED vars
  BY <1>7, ServerKept DEF ResolveAmmoTable, WaUpdated, vars
<1> QED
  BY <1>1, <1>2, <1>3, <1>4, <1>5, <1>6, <1>7 DEF Next, Attach

-----------------------------------------------------------------------------
(* The load.                                                                 *)

LEMMA InitLoad == Init => LoadInv
  BY DEF Init, ServerInit, LoadInv, Progress, AllOrNothing, Hooked, NoHooks

\* What the steps before it have done when a name is hooked or served.
LEMMA ScannedBefore ==
  ASSUME TypeOK, LoadInv, NEW name \in HookNames, Doing("hook", name)
  PROVE  memo[name] # NoAddr
<1>1. step \in 1 .. 10 /\ dllMain = "attaching" /\ Program[step].op = "hook"
      /\ Program[step].name = name
  BY ProgramLength DEF TypeOK, Doing
<1>2. step \in {4, 5, 6, 8}
  BY <1>1, ProgramSteps
<1>3. \A i \in 1 .. step - 1 : Program[i].op = "scan" => memo[Program[i].name] # NoAddr
  BY <1>1 DEF LoadInv, Progress
<1> QED
  BY <1>1, <1>2, <1>3, ProgramSteps

LEMMA AllHooked ==
  ASSUME TypeOK, LoadInv, dllMain = "attaching", step \in {9, 10}
  PROVE  Hooked = HookNames
<1>1. \A i \in {4, 5, 6, 8} : hooks[Program[i].name] # NoAddr
  <2>1. \A i \in {4, 5, 6, 8} : i \in 1 .. step - 1
    OBVIOUS
  <2> QED
    BY <2>1, ProgramSteps DEF LoadInv, Progress
<1> QED
  BY <1>1, ProgramSteps DEF Hooked, HookNames, W2AppNames

\* Unloading resets the load.
LEMMA UnloadLoad == Unload => LoadInv'
  BY DEF Unload, LoadInv, Progress, AllOrNothing, Hooked, NoHooks
\* The server's steps begin no thread and leave the load alone.
LEMMA ServerKeepsLoad ==
  ASSUME LoadInv, UNCHANGED moduleVars,
         ThreadStep \/ Push \/ PushBegins \/ Surroundings \/ Stop
  PROVE  LoadInv'
<1>1. pc = "none" => pc' = "none"
  BY DEF ThreadStep, OpenListener, BindListener, LoopTest, Accept, AcceptRefused, EnterService,
     LeaveService, EndService, FinishService, CheckListener, CloseListener, ResetListener,
     ThreadEnds, Push, PushBegins, PushReturns, PushDropsClient, Surroundings, AcceptError,
     ForeignError, BackendConnects, BackendCloses, ForeignSocket, Stop, StopChecksListener,
     StopClosesListener, StopResetsListener, StopJoins, serverVars
<1>2. \/ dllMain' = dllMain
      \/ dllMain \in StopPcs /\ dllMain' \in StopPcs \cup {"cleanup"}
  BY DEF ThreadStep, OpenListener, BindListener, LoopTest, Accept, AcceptRefused, EnterService,
     LeaveService, EndService, FinishService, CheckListener, CloseListener, ResetListener,
     ThreadEnds, Push, PushBegins, PushReturns, PushDropsClient, Surroundings, AcceptError,
     ForeignError, BackendConnects, BackendCloses, ForeignSocket, Stop, StopChecksListener,
     StopClosesListener, StopResetsListener, StopJoins, StopPcs
<1>3. memo' = memo /\ hooks' = hooks /\ step' = step /\ file' = file /\ build' = build
  BY DEF moduleVars
<1> QED
  BY <1>1, <1>2, <1>3 DEF LoadInv, Progress, AllOrNothing, Hooked, StopPcs

\* A step of install() that looks a name up.
LEMMA ScanKeepsLoad ==
  ASSUME TypeOK, LoadInv, NEW name \in HookNames, Scan(name)
  PROVE  LoadInv'
<1>1. /\ step \in {1, 2, 3, 7} /\ dllMain = "attaching" /\ Program[step].name = name
      /\ pc = "none" /\ pc' = "none"
  BY ProgramLength, ProgramSteps DEF TypeOK, Doing, Scan, LoadInv, serverVars
<1>2. hooks' = hooks /\ file' = file /\ build' = build
  BY DEF Scan
<1>3. name \in Names /\ Scanned(name) = Home[build][name]
  BY ScanFindsHome DEF TypeOK, Names
<1>4. \A n \in HookNames : memo[n] # NoAddr => memo'[n] = memo[n]
  BY DEF Scan, ScanPattern, TypeOK, Names
<1>5. \A n \in HookNames : memo'[n] = memo[n] \/ (memo[n] = NoAddr /\ memo'[n] = Home[build][n])
  <2>1. \/ memo' = memo
        \/ memo[name] = NoAddr /\ memo' = [memo EXCEPT ![name] = Home[build][name]]
    BY <1>3 DEF Scan, ScanPattern
  <2>2. memo \in [Names -> Nat] /\ HookNames \subseteq Names
    BY DEF TypeOK, Names
  <2> QED
    BY <1>3, <2>1, <2>2
<1>6. \A n \in HookNames : /\ hooks'[n] \in {NoAddr, memo'[n]}
                           /\ memo'[n] \in {NoAddr, file'[n], Home[build'][n]}
  BY <1>1, <1>2, <1>4, <1>5 DEF LoadInv
<1>7. CASE dllMain' = "failing"
  BY <1>1, <1>2, <1>6, <1>7 DEF LoadInv, Progress, AllOrNothing, Hooked
<1>8. CASE dllMain' = "attaching" /\ step' = step + 1 /\ memo'[name] # NoAddr
  <2>1. \A i \in 1 .. step : Program[i].op \in {"scan", "hook"} /\ Program[i].name \in HookNames
    BY <1>1, ProgramSteps DEF HookNames, W2AppNames
  <2>2. Progress'
    <3> SUFFICES ASSUME NEW i \in 1 .. step
                 PROVE  /\ Program[i].op = "scan" => memo'[Program[i].name] # NoAddr
                        /\ Program[i].op = "hook" => hooks'[Program[i].name] # NoAddr
      BY <1>1, <1>8 DEF Progress
    <3>1. CASE i = step
      BY <1>1, <1>8, <3>1, ProgramSteps
    <3>2. CASE i \in 1 .. step - 1
      BY <1>1, <1>2, <1>4, <2>1, <3>2 DEF LoadInv, Progress
    <3> QED
      BY <1>1, <3>1, <3>2
  <2> QED
    BY <1>1, <1>2, <1>6, <1>8, <2>2 DEF LoadInv, AllOrNothing, Hooked
<1> QED
  BY <1>1, <1>7, <1>8, <1>3 DEF Scan, ScanPattern, Done, Throw, TypeOK

\* A step of install() that sets a detour.
LEMMA HookKeepsLoad ==
  ASSUME TypeOK, LoadInv, NEW name \in HookNames, Hook(name)
  PROVE  LoadInv'
<1>1. /\ step \in {4, 5, 6, 8} /\ dllMain = "attaching" /\ Program[step].name = name
      /\ pc = "none" /\ pc' = "none" /\ memo[name] # NoAddr
  BY ProgramLength, ProgramSteps, ScannedBefore DEF TypeOK, Doing, Hook, LoadInv, serverVars
<1>2. memo' = memo /\ file' = file /\ build' = build
  BY DEF Hook
<1>3. \A n \in HookNames : hooks'[n] = hooks[n] \/ (hooks'[n] = memo[n] /\ n = name)
  <2>1. hooks' = hooks \/ hooks' = [hooks EXCEPT ![name] = memo[name]]
    BY DEF Hook, HookOrThrow
  <2>2. hooks \in [HookNames -> Nat]
    BY DEF TypeOK
  <2> QED
    BY <2>1, <2>2
<1>4. \A n \in HookNames : /\ hooks'[n] \in {NoAddr, memo'[n]}
                           /\ memo'[n] \in {NoAddr, file'[n], Home[build'][n]}
  BY <1>1, <1>2, <1>3 DEF LoadInv
<1>5. CASE dllMain' = "failing"
  BY <1>1, <1>2, <1>4, <1>5 DEF LoadInv, Progress, AllOrNothing, Hooked
<1>6. CASE dllMain' = "attaching" /\ step' = step + 1 /\ hooks'[name] = memo[name]
  <2>1. \A i \in 1 .. step : Program[i].op \in {"scan", "hook"} /\ Program[i].name \in HookNames
    BY <1>1, ProgramSteps DEF HookNames, W2AppNames
  <2>2. \A n \in HookNames : hooks[n] # NoAddr => hooks'[n] # NoAddr
    BY <1>1, <1>3
  <2>3. Progress'
    <3> SUFFICES ASSUME NEW i \in 1 .. step
                 PROVE  /\ Program[i].op = "scan" => memo'[Program[i].name] # NoAddr
                        /\ Program[i].op = "hook" => hooks'[Program[i].name] # NoAddr
      BY <1>1, <1>6 DEF Progress
    <3>1. CASE i = step
      BY <1>1, <1>6, <3>1, ProgramSteps
    <3>2. CASE i \in 1 .. step - 1
      BY <1>1, <1>2, <2>1, <2>2, <3>2 DEF LoadInv, Progress
    <3> QED
      BY <1>1, <3>1, <3>2
  <2> QED
    BY <1>1, <1>2, <1>4, <1>6, <2>3 DEF LoadInv, AllOrNothing, Hooked
<1> QED
  BY <1>1, <1>5, <1>6 DEF Hook, HookOrThrow, Done, Throw, TypeOK
LEMMA NextLoad == TypeOK /\ ServerInv /\ LoadInv /\ [Next]_vars => LoadInv'
<1> SUFFICES ASSUME TypeOK, ServerInv, LoadInv, [Next]_vars
             PROVE  LoadInv'
  OBVIOUS
<1>1. CASE AttachSkips \/ AttachBegins
  <2>1. /\ pc = "none" /\ pc' = "none" /\ hooks = NoHooks /\ hooks' = NoHooks
        /\ memo = NoAddrs /\ file' = file /\ build' = build
    BY <1>1 DEF AttachSkips, AttachBegins, LoadInv, serverVars, moduleVars
  <2>2. CASE AttachSkips
    BY <2>1, <2>2 DEF AttachSkips, LoadInv, Progress, AllOrNothing, Hooked, NoHooks, NoAddrs,
       moduleVars, Names
  <2>3. CASE AttachBegins
    BY <2>1, <2>3 DEF AttachBegins, LoadInv, Progress, AllOrNothing, Hooked, NoHooks
  <2> QED
    BY <1>1, <2>2, <2>3
<1>2. CASE AttachFails
  BY <1>2 DEF AttachFails, LoadInv, Progress, AllOrNothing, Hooked, NoHooks, serverVars
<1>3. ASSUME NEW name \in HookNames, Scan(name) \/ Hook(name)
      PROVE  LoadInv'
  BY <1>3, ScanKeepsLoad, HookKeepsLoad
<1>4. CASE Serve
  <2>1. step = 9 /\ dllMain = "attaching" /\ Hooked = HookNames
    BY <1>4, ProgramLength, ProgramSteps, AllHooked DEF Serve, Doing, TypeOK
  <2>2. step' = 10 /\ dllMain' = "attaching" /\ Hooked' = HookNames
    BY <1>4, <2>1 DEF Serve, Done, Hooked
  <2>3. Progress'
    <3>1. \A i \in 1 .. 9 : i \in 1 .. step - 1 \/ i = 9
      BY <2>1
    <3> QED
      BY <1>4, <2>1, <2>2, <3>1, ProgramSteps DEF Serve, LoadInv, Progress
  <2> QED
    BY <1>4, <2>1, <2>2, <2>3 DEF Serve, LoadInv, AllOrNothing
<1>5. CASE SaveOffsets
  <2>1. step = 10 /\ dllMain = "attaching" /\ Hooked = HookNames
    BY <1>5, ProgramLength, ProgramSteps, AllHooked DEF SaveOffsets, Doing, TypeOK
  <2>2. Hooked' = HookNames /\ dllMain' = "idle"
    BY <1>5, <2>1 DEF SaveOffsets, AttachEnds, Hooked
  <2>3. HookNames # {}
    BY DEF HookNames
  <2> QED
    BY <1>5, <2>1, <2>2, <2>3 DEF SaveOffsets, LoadInv, Progress, AllOrNothing
<1>6. CASE Detach
  BY <1>6 DEF Detach, LoadInv, Progress, AllOrNothing, Hooked, moduleVars
<1>7. CASE Cleanup \/ Crash \/ CrashInSave
  BY <1>7, UnloadLoad DEF Cleanup, Crash, CrashInSave
<1>8. CASE FramePushes \/ Server
  BY <1>8, ServerKeepsLoad DEF FramePushes, Server
<1>9. CASE ResolveAmmoTable
  <2>1. \A n \in HookNames : memo'[n] = memo[n]
    BY <1>9 DEF ResolveAmmoTable, ScanPattern, TypeOK, Names, HookNames, W2AppNames
  <2> QED
    BY <1>9, <2>1 DEF ResolveAmmoTable, LoadInv, Progress, AllOrNothing, Hooked, serverVars
<1>10. CASE WaUpdated
  BY <1>10 DEF WaUpdated, LoadInv, Progress, AllOrNothing, Hooked, serverVars
<1>11. CASE UNCHANGED vars
  BY <1>11 DEF vars, serverVars, moduleVars, LoadInv, Progress, AllOrNothing, Hooked
<1> QED
  BY <1>1, <1>2, <1>3, <1>4, <1>5, <1>6, <1>7, <1>8, <1>9, <1>10, <1>11 DEF Next, Attach

-----------------------------------------------------------------------------
LEMMA Invariance == Spec => []Inv
<1>1. Init => Inv
  BY InitType, InitServer, InitLoad DEF Inv
<1>2. Inv /\ [Next]_vars => Inv'
  BY NextType, NextServer, NextLoad DEF Inv
<1> QED
  BY <1>1, <1>2, PTL DEF Spec

(* The game thread only ever sends on the connection being served: the order *)
(* of setClient and closesocket, and the mutex, keep every frame off a       *)
(* socket that is closed, or somebody else's.                                *)
THEOREM FramesGoToTheClient == Spec => []ClientIsServed
<1>1. Inv => ClientIsServed
  BY DEF Inv, ServerInv
<1> QED
  BY <1>1, Invariance, PTL

(* The IPC thread reads and closes the connection it accepted, unless        *)
(* pushState has closed it before.                                           *)
THEOREM ServedHandleIsOwn == Spec => []HandleIsOwn
<1>1. Inv => HandleIsOwn
  BY DEF Inv, ServerInv
<1> QED
  BY <1>1, Invariance, PTL

(* The thread leaves none of the server's sockets open, however stop() and   *)
(* its own end overlap.                                                      *)
THEOREM ThreadLeavesNothingOpen == Spec => []NothingLeftOpen
<1>1. Inv => NothingLeftOpen
  <2> SUFFICES ASSUME Inv, pc \in {"returned", "gone"}, NEW h \in Handles
               PROVE  sock[h] \in {"closed", "foreign"}
    BY DEF NothingLeftOpen
  <2>1. sock[h] \in SocketKinds
    BY DEF Inv, TypeOK, ServerTypeOK
  <2> QED
    BY <2>1 DEF Inv, ServerInv, ServingPcs, ListenPcs, SocketKinds
<1> QED
  BY <1>1, Invariance, PTL

(* After DllMain WA has all the hooks or none, and the server thread only    *)
(* with all of them.                                                         *)
THEOREM HooksAreAllOrNothing == Spec => []AllOrNothing
<1>1. Inv => AllOrNothing
  BY DEF Inv, LoadInv
<1> QED
  BY <1>1, Invariance, PTL

(* With a cache file that is true of this build every hook is set at the     *)
(* function it is meant for.                                                 *)
THEOREM HooksAreRightByATrueFile == Spec => []WrongHooksComeFromFile
<1>1. Inv => WrongHooksComeFromFile
  <2> SUFFICES ASSUME Inv, \A n \in HookNames : file[n] \in {NoAddr, Home[build][n]},
                      NEW n \in Hooked
               PROVE  hooks[n] = Home[build][n]
    BY DEF WrongHooksComeFromFile
  <2>1. n \in HookNames /\ hooks[n] # NoAddr
    BY DEF Hooked
  <2>2. dllMain # "unloaded"
    BY <2>1 DEF Inv, LoadInv, NoHooks
  <2> QED
    BY <2>1, <2>2 DEF Inv, LoadInv
<1> QED
  BY <1>1, Invariance, PTL
-----------------------------------------------------------------------------
(* Whose sockets the three threads close.                                    *)

\* The listening socket goes only by the hand that then forgets its handle,
\* and pushState's drop is the one way to lose the connection being served.
OwnInv ==
  /\ listenSock \in Handles /\ sock[listenSock] # "listen"
       => dllMain = "stop_reset" \/ pc \in {"reset_listener", "killed"}
  /\ pc \in ServingPcs => conn # listenSock /\ (sock[conn] = "conn" <=> ~dropped)

LEMMA OwnSteps ==
  ASSUME ServerTypeOK, ServerInv, OwnInv,
         ThreadStep \/ Push \/ PushBegins \/ Surroundings \/ Stop
  PROVE  OwnInv'
<1> USE InvalidAssumption DEF ServerTypeOK, ServerInv, ClientIsServed, HandleIsOwn, OwnInv,
        ServingPcs, ListenPcs
<1>1. CASE OpenListener
  BY <1>1 DEF OpenListener, LoaderLocked
<1>2. CASE BindListener
  BY <1>2 DEF BindListener
<1>3. CASE LoopTest
  BY <1>3 DEF LoopTest
<1>4. CASE Accept
  BY <1>4 DEF Accept, Listening
<1>5. CASE AcceptRefused
  BY <1>5 DEF AcceptRefused
<1>6. CASE AcceptError
  BY <1>6 DEF AcceptError
<1>7. CASE EnterService
  BY <1>7 DEF EnterService
<1>8. CASE LeaveService
  BY <1>8 DEF LeaveService
<1>9. CASE ForeignError
  BY <1>9 DEF ForeignError
<1>10. CASE EndService
  BY <1>10 DEF EndService, ClearClient
<1>11. CASE FinishService
  BY <1>11 DEF FinishService, CloseConnection, CloseSocket
<1>12. CASE CheckListener
  BY <1>12 DEF CheckListener
<1>13. CASE CloseListener
  BY <1>13 DEF CloseListener, CloseSocket
<1>14. CASE ResetListener
  BY <1>14 DEF ResetListener
<1>15. CASE ThreadEnds
  BY <1>15 DEF ThreadEnds
<1>16. CASE PushBegins
  BY <1>16 DEF PushBegins
<1>17. CASE PushReturns
  BY <1>17 DEF PushReturns
<1>18. CASE PushDropsClient
  BY <1>18 DEF PushDropsClient, CloseSocket
<1>19. CASE StopChecksListener
  BY <1>19 DEF StopChecksListener, serverVars
<1>20. CASE StopClosesListener
  BY <1>20 DEF StopClosesListener, CloseSocket
<1>21. CASE StopResetsListener
  BY <1>21 DEF StopResetsListener
<1>22. CASE StopJoins
  BY <1>22 DEF StopJoins, serverVars
<1>23. CASE BackendConnects
  BY <1>23 DEF BackendConnects
<1>24. CASE BackendCloses
  BY <1>24 DEF BackendCloses
<1>25. CASE ForeignSocket
  BY <1>25 DEF ForeignSocket, CloseSocket
<1> QED
  BY <1>1, <1>2, <1>3, <1>4, <1>5, <1>6, <1>7, <1>8, <1>9, <1>10, <1>11, <1>12, <1>13,
     <1>14, <1>15, <1>16, <1>17, <1>18, <1>19, <1>20, <1>21, <1>22, <1>23, <1>24, <1>25
     DEF ThreadStep, Push, Surroundings, Stop

\* A step that leaves the sockets alone, outside stop().
LEMMA OwnKept ==
  ASSUME OwnInv, UNCHANGED serverVars, dllMain # "stop_reset"
  PROVE  OwnInv'
  BY DEF OwnInv, ServingPcs, serverVars

LEMMA NextOwn == Inv /\ OwnInv /\ [Next]_vars => OwnInv'
<1> SUFFICES ASSUME Inv, OwnInv, [Next]_vars
             PROVE  OwnInv'
  OBVIOUS
<1>1. CASE AttachSkips \/ AttachBegins \/ AttachFails \/ SaveOffsets
  BY <1>1, OwnKept DEF AttachSkips, AttachBegins, AttachFails, SaveOffsets, Doing
<1>2. ASSUME NEW name \in HookNames, Scan(name) \/ Hook(name)
      PROVE  OwnInv'
  BY <1>2, OwnKept DEF Scan, Hook, Doing
<1>3. CASE Serve
  <2>1. pc = "none" /\ dllMain = "attaching"
    BY <1>3, ProgramSteps DEF Serve, Doing, LoadInv, Inv
  <2> QED
    BY <1>3, <2>1 DEF Serve, SpawnThread, OwnInv, ServingPcs
<1>4. CASE Detach
  BY <1>4 DEF Detach, OwnInv, ServingPcs
<1>5. CASE Cleanup \/ Crash \/ CrashInSave
  BY <1>5, InvalidAssumption DEF Cleanup, Crash, CrashInSave, Unload, OwnInv, ServingPcs
<1>6. CASE FramePushes \/ Server
  BY <1>6, OwnSteps DEF FramePushes, Server, Inv, TypeOK
<1>7. CASE ResolveAmmoTable \/ WaUpdated
  BY <1>7, OwnKept DEF ResolveAmmoTable, WaUpdated
<1>8. CASE UNCHANGED vars
  BY <1>8 DEF vars, serverVars, OwnInv, ServingPcs
<1> QED
  BY <1>1, <1>2, <1>3, <1>4, <1>5, <1>6, <1>7, <1>8 DEF Next, Attach

LEMMA OwnInvariance == Spec => [](Inv /\ OwnInv)
<1>1. Init => OwnInv
  BY InvalidAssumption DEF Init, ServerInit, OwnInv, ServingPcs
<1> QED
  BY <1>1, NextOwn, Invariance, PTL DEF Spec

\* The two ways to close the number of a socket that is somebody else's: the
\* connection's, which pushState has closed before, and the listening socket's,
\* which stop() and the end of serverLoop each close while the other is between
\* its closesocket and its reset of g_listenSock.
ClosesTwice(h) ==
  \/ FinishService /\ dropped /\ h = conn
  \/ CloseListener /\ dllMain = "stop_reset" /\ h = listenSock
  \/ StopClosesListener /\ pc \in {"reset_listener", "killed"} /\ h = listenSock

(* No closesocket of the server ends a socket that WA, or another module of  *)
(* its process, has opened, except in the two double closes of the code.     *)
ClosesOwnOnly ==
  [][\A h \in Handles :
       sock[h] = "foreign" /\ sock'[h] # "foreign" => ForeignSocket \/ ClosesTwice(h)]_vars

THEOREM ForeignSocketsAreSafe == Spec => ClosesOwnOnly
<1>1. ASSUME Inv, OwnInv, Next, NEW h \in Handles, sock[h] = "foreign", sock'[h] # "foreign"
      PROVE  ForeignSocket \/ ClosesTwice(h)
  <2>1. PushDropsClient \/ FinishService \/ CloseListener \/ StopClosesListener \/ ForeignSocket
    <3>1. CASE Server \/ FramePushes
      BY <1>1, <3>1 DEF Inv, TypeOK, ServerTypeOK, Server, FramePushes, ThreadStep, Push, Surroundings,
         Stop, OpenListener, BindListener, LoopTest, Accept, AcceptRefused, AcceptError,
         EnterService, LeaveService, ForeignError, EndService, ClearClient, CheckListener,
         ResetListener, ThreadEnds, PushBegins, PushReturns, StopChecksListener,
         StopResetsListener, StopJoins, BackendConnects, BackendCloses, serverVars
    <3>2. CASE Cleanup \/ Crash \/ CrashInSave
      BY <1>1, <3>2 DEF Cleanup, Crash, CrashInSave, Unload
    <3>3. CASE Attach \/ Detach \/ ResolveAmmoTable \/ WaUpdated
      BY <1>1, <3>3 DEF Attach, AttachSkips, AttachBegins, AttachFails, SaveOffsets, Serve,
         SpawnThread, Scan, Hook, Detach, ResolveAmmoTable, WaUpdated, serverVars
    <3> QED
      BY <1>1, <3>1, <3>2, <3>3 DEF Next
  <2>2. CASE PushDropsClient
    BY <1>1, <2>2 DEF Inv, ServerInv, ClientIsServed, PushDropsClient, CloseSocket
  <2>3. CASE FinishService
    BY <1>1, <2>3 DEF OwnInv, FinishService, CloseConnection, CloseSocket, ServingPcs, ClosesTwice
  <2>4. CASE CloseListener
    BY <1>1, <2>4 DEF OwnInv, CloseListener, CloseSocket, ClosesTwice
  <2>5. CASE StopClosesListener
    BY <1>1, <2>5 DEF OwnInv, StopClosesListener, CloseSocket, ClosesTwice
  <2> QED
    BY <2>1, <2>2, <2>3, <2>4, <2>5
<1>2. Inv /\ OwnInv /\ [Next]_vars
        => [\A h \in Handles :
              sock[h] = "foreign" /\ sock'[h] # "foreign" => ForeignSocket \/ ClosesTwice(h)]_vars
  BY <1>1
<1> QED
  BY <1>2, OwnInvariance, PTL DEF Spec, ClosesOwnOnly

(* pushState's "the read loop will also notice": once it has dropped the     *)
(* connection being served, recv finds no open connection of the server      *)
(* behind the handle, and it finds one as long as it has not.  A closed one  *)
(* ends the service; somebody else's is what WaitingIsServed leaves out.     *)
DropIsNoticed ==
  pc \in ServingPcs => /\ sock[conn] = "conn" <=> ~dropped
                       /\ sock[conn] = "closed" => ServiceEnds

THEOREM ReadLoopSeesTheDrop == Spec => []DropIsNoticed
<1>1. OwnInv => DropIsNoticed
  BY DEF OwnInv, DropIsNoticed, ServiceEnds
<1> QED
  BY <1>1, OwnInvariance, PTL

-----------------------------------------------------------------------------
(* The cache file over several processes.                                    *)

HooksAreRight == \A n \in Hooked : hooks[n] = Home[build][n]

\* Before the first save that is cut short, the file and what was read from it
\* are true of the build.
FileInv ==
  torn = 0 =>
    \A n \in Names : file[n] \in {NoAddr, Home[build][n]} /\ memo[n] \in {NoAddr, Home[build][n]}

\* A scan adds the function's own address.
LEMMA ScanKeepsFile ==
  ASSUME TypeOK, FileInv, NEW name \in Names, ScanPattern(name), UNCHANGED <<build, file, torn>>
  PROVE  FileInv'
<1>1. Scanned(name) = Home[build][name]
  BY ScanFindsHome DEF TypeOK
<1>2. \A n \in Names : memo'[n] \in {memo[n], Home[build][n]}
  BY <1>1 DEF ScanPattern, TypeOK
<1> QED
  BY <1>2 DEF FileInv

LEMMA NextFile == TypeOK /\ FileInv /\ [Next /\ ~WaUpdated]_vars => FileInv'
<1> SUFFICES ASSUME TypeOK, FileInv, [Next /\ ~WaUpdated]_vars
             PROVE  FileInv'
  OBVIOUS
<1> USE DEF FileInv
<1>1. CASE AttachSkips \/ AttachBegins \/ AttachFails \/ SaveOffsets \/ Serve
  BY <1>1 DEF AttachSkips, AttachBegins, AttachFails, SaveOffsets, Serve, moduleVars
<1>2. ASSUME NEW name \in HookNames, Scan(name) \/ Hook(name)
      PROVE  FileInv'
  BY <1>2, ScanKeepsFile DEF Scan, Hook, Names
<1>3. CASE Cleanup \/ Crash
  BY <1>3 DEF Cleanup, Crash, Unload, NoAddrs
<1>4. CASE CrashInSave
  BY <1>4 DEF CrashInSave, TypeOK
<1>5. CASE ResolveAmmoTable
  BY <1>5, ScanKeepsFile DEF ResolveAmmoTable, Names
<1>6. CASE Detach \/ FramePushes \/ Server \/ UNCHANGED vars
  BY <1>6 DEF Detach, FramePushes, Server, vars, moduleVars
<1> QED
  BY <1>1, <1>2, <1>3, <1>4, <1>5, <1>6 DEF Next, Attach

(* As long as WA.exe is not replaced and no save of the cache is cut short,  *)
(* every hook is at its function, in every process and whatever was cached,  *)
(* scanned, crashed or failed before: nothing but a new build or a torn file *)
(* can send a detour astray.                                                 *)
THEOREM HooksAreRightInOneBuild ==
  Spec /\ [][~WaUpdated]_vars => [](torn = 0 => HooksAreRight)
<1>1. Init => FileInv
  BY DEF Init, FileInv, NoAddrs
<1>2. [Next]_vars /\ [~WaUpdated]_vars => [Next /\ ~WaUpdated]_vars
  OBVIOUS
<1>3. Inv /\ FileInv => (torn = 0 => HooksAreRight)
  <2> SUFFICES ASSUME Inv, FileInv, torn = 0, NEW n \in Hooked
               PROVE  hooks[n] = Home[build][n]
    BY DEF HooksAreRight
  <2>1. n \in HookNames /\ n \in Names /\ hooks[n] # NoAddr
    BY DEF Hooked, Names
  <2>2. dllMain # "unloaded"
    BY <2>1 DEF Inv, LoadInv, NoHooks
  <2> QED
    BY <2>1, <2>2 DEF Inv, LoadInv, FileInv
<1>4. Inv => TypeOK
  BY DEF Inv
<1> QED
  BY <1>1, <1>2, <1>3, <1>4, NextFile, Invariance, PTL DEF Spec
-----------------------------------------------------------------------------
(* The end of the thread that stop() waits for.                              *)

(* Why ThreadCanExit fails, whatever the sockets do: a stop() that has to    *)
(* wait for a thread that lives waits until the process dies, since the      *)
(* thread needs the loader lock to end and DllMain keeps it until it has.    *)
StopWaitsForEver ==
  [][dllMain = "stop_join" /\ pc \notin {"gone", "killed"}
       => \/ dllMain' = "stop_join" /\ pc' \notin {"gone", "killed"}
          \/ dllMain' = "unloaded" /\ Crash]_vars

THEOREM LiveThreadIsNeverJoined == Spec => StopWaitsForEver
<1>1. ASSUME Next, dllMain = "stop_join", pc \notin {"gone", "killed"}
      PROVE  \/ dllMain' = "stop_join" /\ pc' \notin {"gone", "killed"}
             \/ dllMain' = "unloaded" /\ Crash
  <2>1. ~Attach /\ ~Detach /\ ~Cleanup /\ ~ResolveAmmoTable /\ ~CrashInSave /\ ~WaUpdated
    BY <1>1 DEF Attach, AttachSkips, AttachBegins, AttachFails, SaveOffsets, Serve, Scan, Hook,
                Doing, Detach, Cleanup, ResolveAmmoTable, CrashInSave, WaUpdated
  <2>2. CASE FramePushes
    BY <1>1, <2>2 DEF FramePushes, PushBegins
  <2>3. CASE Server
    <3>1. CASE ThreadStep
      BY <1>1, <3>1 DEF ThreadStep, OpenListener, BindListener, LoopTest, Accept, AcceptRefused,
         EnterService, LeaveService, EndService, FinishService, CheckListener, CloseListener,
         ResetListener, ThreadEnds, LoaderLocked
    <3>2. CASE Push \/ Surroundings
      BY <1>1, <3>2 DEF Push, PushReturns, PushDropsClient, Surroundings, AcceptError,
         ForeignError, BackendConnects, BackendCloses, ForeignSocket
    <3>3. CASE Stop
      BY <1>1, <3>3 DEF Stop, StopChecksListener, StopClosesListener, StopResetsListener, StopJoins
    <3> QED
      BY <2>3, <3>1, <3>2, <3>3 DEF Server
  <2>4. CASE Crash
    BY <2>4 DEF Crash, Unload
  <2> QED
    BY <1>1, <2>1, <2>2, <2>3, <2>4 DEF Next
<1>2. [Next]_vars
        => [dllMain = "stop_join" /\ pc \notin {"gone", "killed"}
              => \/ dllMain' = "stop_join" /\ pc' \notin {"gone", "killed"}
                 \/ dllMain' = "unloaded" /\ Crash]_vars
  BY <1>1
<1> QED
  BY <1>2, PTL DEF Spec, StopWaitsForEver
=============================================================================
