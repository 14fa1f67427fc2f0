------------------------------ MODULE DllModule ------------------------------
(***************************************************************************)
(* The life of the plugin inside WA's process: DllMain (dllmain.cpp), the   *)
(* install() of each subsystem, the detours and the offset cache of         *)
(* Hooks.cpp and, below them, the server of IpcServer.tla.                  *)
(*                                                                          *)
(* WA.exe is an image of bytes, an address a position in it, and 0 none.    *)
(* The cache file outlives the process, and the build may change between    *)
(* two processes.                                                           *)
(***************************************************************************)
EXTENDS IpcServer, Sequences

CONSTANTS
  Builds,     \* builds of WA.exe
  Bytes,
  Image,      \* the bytes of each build's mapped image
  Pattern,    \* the signature of each name, Wild where the mask has a "?"
  Wild,
  Home,       \* where each build has each function, or NoAddr
  TornAddr,   \* an entry cut short in the middle of its digits
  MaxTorn     \* bound on saves that are cut short

W2AppNames == {"InitializeW2App", "ConstructGameGlobal", "DestroyGameGlobal"}

HookNames == W2AppNames \cup {"CTurnGameHandleMessage"}

Names == HookNames \cup {"ReadAmmoFromWAM"}

NoAddr == 0

\* Variant used as a mutant: the last byte of the pattern is not compared.
MatchesButLast(image, p, pattern) ==
  \A i \in 1 .. Len(pattern) - 1 : pattern[i] \in {Wild, image[p + i - 1]}

\* matchAt: every byte under an 'x' of the mask agrees.
MatchAt(image, p, pattern) ==
  \A i \in 1 .. Len(pattern) : pattern[i] \in {Wild, image[p + i - 1]}

\* Where the pattern fits; nowhere if it is empty or longer than the image.
Matches(image, pattern) ==
  {p \in 1 .. (Len(image) + 1) - Len(pattern) :
     Len(pattern) > 0 /\ MatchAt(image, p, pattern)}

\* findInMainModule returns the lowest match, or 0.
FindInMainModule(image, pattern) ==
  LET hits == Matches(image, pattern)
  IN  IF hits = {} THEN NoAddr
      ELSE CHOOSE p \in hits : \A q \in hits : p <= q

ASSUME HomeAssumption ==
  \A b \in Builds : /\ Image[b] \in Seq(Bytes)
                    /\ Home[b] \in [Names -> 0 .. Len(Image[b])]

ASSUME PatternAssumption == Pattern \in [Names -> Seq(Bytes \cup {Wild})]
ASSUME TornAssumption == TornAddr \in Nat /\ MaxTorn \in Nat

\* A signature fits the function it was taken from, and nothing else.
ASSUME SignatureAssumption ==
  \A b \in Builds, n \in Names : \A p \in 1 .. Len(Image[b]) :
    p = Home[b][n] <=>
      /\ Pattern[n] # << >> /\ p + Len(Pattern[n]) <= Len(Image[b]) + 1
      /\ \A i \in DOMAIN Pattern[n] :
           Pattern[n][i] = Wild \/ Pattern[n][i] = Image[b][p + i - 1]

VARIABLES
  build,      \* the build of WA.exe on disk and in the process
  file,       \* the cache file
  memo,       \* scanNameToAddr
  found,      \* foundNewOffsets
  hooks,      \* detours: the address each hook was set at, or NoAddr
  step,       \* how far install() has come
  ammo,       \* g_ammoScanTried and g_ammoTable
  torn        \* saves cut short so far

moduleVars == <<build, file, memo, found, hooks, step, ammo, torn>>
vars == <<serverVars, dllMain, moduleVars>>

\* What a scan of the running WA.exe for this name finds.
Scanned(name) == FindInMainModule(Image[build], Pattern[name])

\* install(): W2App, CTaskTurnGame and IpcServer; the others only log.
Program ==
  <<[op |-> "scan", name |-> "InitializeW2App"],
    [op |-> "scan", name |-> "ConstructGameGlobal"],
    [op |-> "scan", name |-> "DestroyGameGlobal"],
    [op |-> "hook", name |-> "InitializeW2App"],
    [op |-> "hook", name |-> "ConstructGameGlobal"],
    [op |-> "hook", name |-> "DestroyGameGlobal"],
    [op |-> "scan", name |-> "CTurnGameHandleMessage"],
    [op |-> "hook", name |-> "CTurnGameHandleMessage"],
    [op |-> "serve", name |-> "IpcServer"],
    [op |-> "save", name |-> "offsets"]>>

\* The order in which saveOffsets walks its map.
SaveOrder ==
  <<"CTurnGameHandleMessage", "ConstructGameGlobal", "DestroyGameGlobal",
    "InitializeW2App", "ReadAmmoFromWAM">>

NoAddrs == [n \in Names |-> NoAddr]
NoHooks == [n \in HookNames |-> NoAddr]

Hooked == {n \in HookNames : hooks[n] # NoAddr}

Init ==
  /\ ServerInit
  /\ dllMain = "unloaded"
  /\ build \in Builds
  /\ file = NoAddrs
  /\ memo = NoAddrs
  /\ found = FALSE
  /\ hooks = NoHooks
  /\ step = 1
  /\ ammo = "untried"
  /\ torn = 0

-----------------------------------------------------------------------------
(* DLL_PROCESS_ATTACH.                                                      *)

\* The settings disable the module, or another copy holds the mutex.
AttachSkips ==
  /\ dllMain = "unloaded"
  /\ dllMain' = "idle"
  /\ UNCHANGED <<serverVars, moduleVars>>

\* loadOffsets, at the head of install().
AttachBegins ==
  /\ dllMain = "unloaded"
  /\ dllMain' = "attaching"
  /\ memo' = file
  /\ step' = 1
  /\ UNCHANGED <<serverVars, build, file, found, hooks, ammo, torn>>

Doing(op, name) ==
  dllMain = "attaching" /\ Program[step].op = op /\ Program[step].name = name

Done == step' = step + 1 /\ UNCHANGED dllMain

\* The exception ends install(); DllMain shows a message box.
Throw == dllMain' = "failing" /\ UNCHANGED step

\* What scanPattern does with one name; a cached address is not looked at.
ScanPattern(name) ==
  \/ /\ memo[name] # NoAddr
     /\ UNCHANGED <<memo, found>>
  \/ /\ memo[name] = NoAddr /\ Scanned(name) # NoAddr
     /\ memo' = [memo EXCEPT ![name] = Scanned(name)]
     /\ found' = TRUE

\* The pattern is neither cached nor in WA.exe.
ScanFails(name) == memo[name] = NoAddr /\ Scanned(name) = NoAddr

Scan(name) ==
  /\ Doing("scan", name)
  /\ \/ ScanPattern(name) /\ Done
     \/ ScanFails(name) /\ Throw /\ UNCHANGED <<memo, found>>
  /\ UNCHANGED <<serverVars, build, file, hooks, ammo, torn>>

\* Variant used as a mutant: a hook that fails is only logged.
HookOrLog(name) ==
  \/ hooks' = [hooks EXCEPT ![name] = memo[name]] /\ Done
  \/ UNCHANGED hooks /\ Done

\* The detour is set, or PolyHook refuses the target.
HookOrThrow(name) ==
  \/ hooks' = [hooks EXCEPT ![name] = memo[name]] /\ Done
  \/ UNCHANGED hooks /\ Throw

Hook(name) ==
  /\ Doing("hook", name)
  /\ HookOrThrow(name)
  /\ UNCHANGED <<serverVars, build, file, memo, found, ammo, torn>>

Serve ==
  /\ Doing("serve", "IpcServer")
  /\ SpawnThread
  /\ Done
  /\ UNCHANGED <<build, file, memo, found, hooks, ammo, torn>>

\* Variant used as a mutant: install() goes on behind its last step.
AttachStepsOn == step' = step + 1 /\ dllMain' = "idle"

AttachEnds == step' = step /\ dllMain' = "idle"

SaveOffsets ==
  /\ Doing("save", "offsets")
  /\ file' = IF found THEN memo ELSE file
  /\ AttachEnds
  /\ UNCHANGED <<serverVars, build, memo, found, hooks, ammo, torn>>

\* The user has closed the message box; the module stays loaded.
AttachFails ==
  /\ dllMain = "failing"
  /\ hooks' = NoHooks
  /\ dllMain' = "idle"
  /\ UNCHANGED <<serverVars, build, file, memo, found, step, ammo, torn>>

Attach ==
  \/ AttachSkips \/ AttachBegins \/ AttachFails \/ SaveOffsets \/ Serve
  \/ \E name \in HookNames : Scan(name) \/ Hook(name)

-----------------------------------------------------------------------------
(* DLL_PROCESS_DETACH.                                                      *)

\* FreeLibrary, or the end of the process, which has killed its other threads.
Detach ==
  /\ dllMain = "idle"
  /\ \/ UNCHANGED <<pc, pushing>>
     \/ /\ pc' = IF pc = "none" THEN "none" ELSE "killed"
        /\ pushing' = FALSE
  /\ running' = FALSE
  /\ dllMain' = IF running THEN "stop_check" ELSE "cleanup"
  /\ UNCHANGED <<listenSock, client, sock, conn, backlog, peer, dropped, moduleVars>>

\* What a process or a mapping of the module that ends takes along.
Unload ==
  /\ dllMain' = "unloaded"
  /\ running' = FALSE /\ listenSock' = Invalid /\ client' = Invalid
  /\ sock' = [h \in Handles |-> IF sock[h] = "foreign" THEN "foreign" ELSE "closed"]
  /\ pc' = "none" /\ conn' = Invalid /\ pushing' = FALSE
  /\ backlog' = FALSE /\ peer' = FALSE /\ dropped' = FALSE
  /\ memo' = NoAddrs /\ found' = FALSE /\ hooks' = NoHooks
  /\ step' = 1 /\ ammo' = "untried"

\* Hooks::cleanup.
Cleanup ==
  /\ dllMain = "cleanup"
  /\ Unload
  /\ UNCHANGED <<build, file, torn>>

-----------------------------------------------------------------------------
(* The game thread and the world.                                           *)

\* A frame reaches pushState through the hook of the turn-game task.
FramePushes ==
  /\ dllMain \notin {"attaching", "failing"} /\ pc # "killed"
  /\ Hooked = HookNames
  /\ PushBegins
  /\ UNCHANGED moduleVars

\* resolveAmmoTable, once per process, after the offsets were saved.
ResolveAmmoTable ==
  /\ dllMain = "idle" /\ Hooked = HookNames
  /\ ammo = "untried"
  /\ \/ ScanPattern("ReadAmmoFromWAM") /\ ammo' = "found"
     \/ ScanFails("ReadAmmoFromWAM") /\ ammo' = "failed" /\ UNCHANGED <<memo, found>>
  /\ UNCHANGED <<serverVars, dllMain, build, file, hooks, step, torn>>

Crash ==
  /\ dllMain # "unloaded"
  /\ Unload
  /\ UNCHANGED <<build, file, torn>>

\* The process dies while saveOffsets writes: the file was truncated before,
\* some lines are whole, and the digits of the next one may be cut.
CrashInSave ==
  /\ Doing("save", "offsets") /\ found
  /\ torn < MaxTorn /\ torn' = torn + 1
  /\ \E k \in 0 .. Len(SaveOrder), cut \in {NoAddr, TornAddr} :
       file' = [n \in Names |->
                  LET i == CHOOSE j \in DOMAIN SaveOrder : SaveOrder[j] = n
                  IN  IF i <= k THEN memo[n]
                      ELSE IF i = k + 1 /\ memo[n] # NoAddr THEN cut ELSE NoAddr]
  /\ Unload
  /\ UNCHANGED build

WaUpdated ==
  /\ dllMain = "unloaded"
  /\ build' \in Builds \ {build}
  /\ UNCHANGED <<serverVars, dllMain, file, memo, found, hooks, step, ammo, torn>>

-----------------------------------------------------------------------------
Server ==
  /\ ThreadStep \/ Push \/ Surroundings \/ Stop
  /\ UNCHANGED moduleVars

Next ==
  \/ Attach \/ Detach \/ Cleanup
  \/ FramePushes \/ ResolveAmmoTable
  \/ Server
  \/ Crash \/ CrashInSave \/ WaUpdated

Spec == Init /\ [][Next]_vars

(* The IPC thread and the thread in stop() run on, and a push comes to an    *)
(* end: send never blocks and the spin is bounded (IpcServer.cpp:236).  The  *)
(* throttle leaves g_clientMutex free for 15 ms between two pushes, so the   *)
(* IPC thread gets it in the end.                                            *)
FairSpec ==
  /\ Spec
  /\ WF_vars(ThreadStep /\ UNCHANGED moduleVars)
  /\ SF_vars((EnterService \/ EndService) /\ UNCHANGED moduleVars)
  /\ WF_vars(Push /\ UNCHANGED moduleVars)
  /\ WF_vars(Stop /\ UNCHANGED moduleVars)

-----------------------------------------------------------------------------
TypeOK ==
  /\ ServerTypeOK
  /\ dllMain \in DllMainPcs
  /\ build \in Builds
  /\ file \in [Names -> Nat]
  /\ memo \in [Names -> Nat]
  /\ found \in BOOLEAN
  /\ hooks \in [HookNames -> Nat]
  /\ step \in 1 .. Len(Program)
  /\ ammo \in {"untried", "found", "failed"}
  /\ torn \in 0 .. MaxTorn

(* Once DllMain has returned, WA has all the hooks or none, whatever scan or *)
(* detour failed; the server thread exists only with all of them, and begins *)
(* only after DllMain is through.                                            *)
AllOrNothing ==
  /\ dllMain = "idle" => Hooked \in {{}, HookNames}
  /\ pc # "none" => Hooked = HookNames
  /\ dllMain = "idle" /\ Hooked = {} => pc = "none"

(* While the cache file holds only what is true of this build, no hook is    *)
(* set anywhere else: the scanner finds the function itself, and wrong       *)
(* targets come from the file alone.                                         *)
WrongHooksComeFromFile ==
  (\A n \in HookNames : file[n] \in {NoAddr, Home[build][n]})
    => \A n \in Hooked : hooks[n] = Home[build][n]

=============================================================================
