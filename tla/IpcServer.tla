------------------------------ MODULE IpcServer ------------------------------
(***************************************************************************)
(* The sockets of src/dll/src/IpcServer.cpp and the three threads that      *)
(* share them: the IPC thread (serverLoop, serveClient), the game thread    *)
(* (pushState) and the thread in DllMain (install, stop).  g_client is      *)
(* guarded by g_clientMutex; g_listenSock by nothing, so each access to it  *)
(* is a step of its own.                                                    *)
(*                                                                          *)
(* A SOCKET is a number that the system gives out again once it is closed,  *)
(* to whoever in the process opens a socket next: "sock" says what is       *)
(* behind each number now.  The loader lock is held while DllMain runs; a   *)
(* thread needs it to begin and to end.                                     *)
(***************************************************************************)
EXTENDS Naturals, FiniteSets

CONSTANTS
  Handles,    \* the numbers a SOCKET may have
  Invalid,    \* INVALID_SOCKET
  MaxForeign  \* bound on the other sockets open in WA's process

ASSUME InvalidAssumption == Invalid \notin Handles

VARIABLES
  running,    \* g_running
  listenSock, \* g_listenSock
  client,     \* g_client
  sock,       \* what the system has behind each handle
  pc,         \* where the IPC thread is
  conn,       \* serverLoop's local "client"
  pushing,    \* the game thread is in pushState and holds g_clientMutex
  backlog,    \* a connection of the backend waits to be accepted
  peer,       \* the backend's end of the accepted connection is open
  dllMain,    \* where the thread in DllMain is
  dropped     \* history: pushState has closed the connection being served

serverVars ==
  <<running, listenSock, client, sock, pc, conn, pushing, backlog, peer, dropped>>

\* "foreign": a socket that WA, or another module in it, has opened.
SocketKinds == {"closed", "listen", "conn", "foreign"}

ServingPcs == {"enter", "serving", "unset", "close"}

ThreadPcs ==
  ServingPcs \cup {"none", "starting", "binding", "loop", "accepting", "leaving",
                   "close_listener", "reset_listener", "returned", "gone", "killed"}

StopPcs == {"stop_check", "stop_close", "stop_reset", "stop_join"}

DllMainPcs == {"unloaded", "attaching", "failing", "idle", "cleanup"} \cup StopPcs

ServerInit ==
  /\ running = FALSE
  /\ listenSock = Invalid
  /\ client = Invalid
  /\ sock = [h \in Handles |-> "closed"]
  /\ pc = "none"
  /\ conn = Invalid
  /\ pushing = FALSE
  /\ backlog = FALSE
  /\ peer = FALSE
  /\ dropped = FALSE

LoaderLocked == dllMain \notin {"unloaded", "idle"}

\* closesocket: Invalid and a number nothing is behind only return an error.
CloseSocket(h) == sock' = [x \in Handles |-> IF x = h THEN "closed" ELSE sock[x]]

Listening == listenSock \in Handles /\ sock[listenSock] = "listen"

-----------------------------------------------------------------------------
(* The IPC thread: serverLoop.                                              *)

\* IpcServer::install spawns the thread, which cannot begin before DllMain ends.
SpawnThread ==
  /\ \/ running /\ UNCHANGED <<running, pc>>
     \/ ~running /\ running' = TRUE /\ pc' = "starting"
  /\ UNCHANGED <<listenSock, client, sock, conn, pushing, backlog, peer, dropped>>

\* WSAStartup and socket().
OpenListener ==
  /\ pc = "starting" /\ ~LoaderLocked
  /\ \/ \E h \in Handles :
          /\ sock[h] = "closed"
          /\ sock' = [sock EXCEPT ![h] = "listen"]
          /\ listenSock' = h
          /\ pc' = "binding"
     \/ pc' = "returned" /\ UNCHANGED <<sock, listenSock>>
  /\ UNCHANGED <<running, client, conn, pushing, backlog, peer, dropped, dllMain>>

\* bind and listen; the port may be taken.
BindListener ==
  /\ pc = "binding"
  /\ \/ Listening /\ pc' = "loop"
     \/ pc' = "close_listener"
  /\ UNCHANGED <<running, listenSock, client, sock, conn, pushing, backlog, peer,
                 dropped, dllMain>>

LoopTest ==
  /\ pc = "loop"
  /\ pc' = IF running THEN "accepting" ELSE "leaving"
  /\ UNCHANGED <<running, listenSock, client, sock, conn, pushing, backlog, peer,
                 dropped, dllMain>>

Accept ==
  /\ pc = "accepting" /\ Listening /\ backlog
  /\ \E h \in Handles :
       /\ sock[h] = "closed"
       /\ sock' = [sock EXCEPT ![h] = "conn"]
       /\ conn' = h
  /\ pc' = "enter"
  /\ backlog' = FALSE /\ peer' = TRUE /\ dropped' = FALSE
  /\ UNCHANGED <<running, listenSock, client, pushing, dllMain>>

\* stop() has closed the listening socket.
AcceptRefused ==
  /\ pc = "accepting" /\ ~Listening
  /\ pc' = "leaving"
  /\ UNCHANGED <<running, listenSock, client, sock, conn, pushing, backlog, peer,
                 dropped, dllMain>>

\* accept() fails on a good listening socket, and the loop takes it for stop().
AcceptError ==
  /\ pc = "accepting" /\ Listening
  /\ pc' = "leaving"
  /\ UNCHANGED <<running, listenSock, client, sock, conn, pushing, backlog, peer,
                 dropped, dllMain>>

-----------------------------------------------------------------------------
(* The IPC thread: serveClient, and the close behind it.                    *)

EnterService ==
  /\ pc = "enter" /\ ~pushing
  /\ client' = conn
  /\ pc' = "serving"
  /\ UNCHANGED <<running, listenSock, sock, conn, pushing, backlog, peer, dropped, dllMain>>

\* Variant used as a mutant: the loop polls on, whatever recv says.
ServiceEndsOnStop == ~running

\* The loop test fails, recv reports the end of the stream, or an error.
ServiceEnds ==
  \/ ~running
  \/ sock[conn] = "closed"
  \/ sock[conn] = "conn" /\ ~peer

LeaveService ==
  /\ pc = "serving" /\ ServiceEnds
  /\ pc' = "unset"
  /\ UNCHANGED <<running, listenSock, client, sock, conn, pushing, backlog, peer,
                 dropped, dllMain>>

\* recv on a socket of somebody else may find it in error; it need not.
ForeignError ==
  /\ pc = "serving" /\ sock[conn] = "foreign"
  /\ pc' = "unset"
  /\ UNCHANGED <<running, listenSock, client, sock, conn, pushing, backlog, peer,
                 dropped, dllMain>>

\* Variant used as a mutant: the handle is closed while g_client still has it.
ClearClientLate ==
  /\ CloseSocket(conn)
  /\ UNCHANGED client

\* setClient(INVALID_SOCKET).
ClearClient ==
  /\ client' = Invalid
  /\ UNCHANGED sock

EndService ==
  /\ pc = "unset" /\ ~pushing
  /\ ClearClient
  /\ pc' = "close"
  /\ UNCHANGED <<running, listenSock, conn, pushing, backlog, peer, dropped, dllMain>>

\* Variant used as a mutant: nobody closes the connection.
ForgetConnection == UNCHANGED sock

\* closesocket(client) in serverLoop, whether or not pushState has been there.
CloseConnection == CloseSocket(conn)

FinishService ==
  /\ pc = "close"
  /\ CloseConnection
  /\ conn' = Invalid /\ peer' = FALSE
  /\ pc' = "loop"
  /\ UNCHANGED <<running, listenSock, client, pushing, backlog, dropped, dllMain>>

-----------------------------------------------------------------------------
(* The IPC thread: the end of serverLoop and of the thread.                 *)

CheckListener ==
  /\ pc = "leaving"
  /\ pc' = IF listenSock = Invalid THEN "returned" ELSE "close_listener"
  /\ UNCHANGED <<running, listenSock, client, sock, conn, pushing, backlog, peer,
                 dropped, dllMain>>

CloseListener ==
  /\ pc = "close_listener"
  /\ CloseSocket(listenSock)
  /\ pc' = "reset_listener"
  /\ UNCHANGED <<running, listenSock, client, conn, pushing, backlog, peer, dropped, dllMain>>

ResetListener ==
  /\ pc = "reset_listener"
  /\ listenSock' = Invalid
  /\ pc' = "returned"
  /\ UNCHANGED <<running, client, sock, conn, pushing, backlog, peer, dropped, dllMain>>

\* The thread terminates once it has told every module of the process.
ThreadEnds ==
  /\ pc = "returned" /\ ~LoaderLocked
  /\ pc' = "gone"
  /\ UNCHANGED <<running, listenSock, client, sock, conn, pushing, backlog, peer,
                 dropped, dllMain>>

-----------------------------------------------------------------------------
(* The game thread: pushState.  Without a client it returns at once.        *)

PushBegins ==
  /\ ~pushing /\ client # Invalid
  /\ pushing' = TRUE
  /\ UNCHANGED <<running, listenSock, client, sock, pc, conn, backlog, peer, dropped, dllMain>>

\* The line is sent, or dropped whole.
PushReturns ==
  /\ pushing
  /\ pushing' = FALSE
  /\ UNCHANGED <<running, listenSock, client, sock, pc, conn, backlog, peer, dropped, dllMain>>

\* A line stalls halfway, or send fails.
PushDropsClient ==
  /\ pushing
  /\ CloseSocket(client)
  /\ client' = Invalid
  /\ pushing' = FALSE
  /\ dropped' = TRUE
  /\ UNCHANGED <<running, listenSock, pc, conn, backlog, peer, dllMain>>

-----------------------------------------------------------------------------
(* IpcServer::stop, on the thread that is in DllMain.                       *)

StopChecksListener ==
  /\ dllMain = "stop_check"
  /\ dllMain' = IF listenSock = Invalid THEN "stop_join" ELSE "stop_close"
  /\ UNCHANGED serverVars

\* Variant used as a mutant: stop() closes the client's socket, too.
StopClosesBoth ==
  /\ dllMain = "stop_close"
  /\ sock' = [h \in Handles |-> IF h \in {listenSock, client} THEN "closed" ELSE sock[h]]
  /\ dllMain' = "stop_reset"
  /\ UNCHANGED <<running, listenSock, client, pc, conn, pushing, backlog, peer, dropped>>

StopClosesListener ==
  /\ dllMain = "stop_close"
  /\ CloseSocket(listenSock)
  /\ dllMain' = "stop_reset"
  /\ UNCHANGED <<running, listenSock, client, pc, conn, pushing, backlog, peer, dropped>>

StopResetsListener ==
  /\ dllMain = "stop_reset"
  /\ listenSock' = Invalid
  /\ dllMain' = "stop_join"
  /\ UNCHANGED <<running, client, sock, pc, conn, pushing, backlog, peer, dropped>>

StopJoins ==
  /\ dllMain = "stop_join"
  /\ pc \in {"gone", "killed"}
  /\ dllMain' = "cleanup"
  /\ UNCHANGED serverVars

Stop == StopChecksListener \/ StopClosesListener \/ StopResetsListener \/ StopJoins

-----------------------------------------------------------------------------
(* Around the server: the backend, and the other sockets of the process.    *)

\* create_connection of a backend that has no connection.
BackendConnects ==
  /\ Listening /\ ~backlog /\ ~peer
  /\ backlog' = TRUE
  /\ UNCHANGED <<running, listenSock, client, sock, pc, conn, pushing, peer, dropped, dllMain>>

\* The backend closes or dies, or the connection is reset.
BackendCloses ==
  /\ peer
  /\ peer' = FALSE
  /\ UNCHANGED <<running, listenSock, client, sock, pc, conn, pushing, backlog, dropped, dllMain>>

ForeignSocket ==
  /\ \E h \in Handles :
       \/ /\ sock[h] = "closed"
          /\ Cardinality({x \in Handles : sock[x] = "foreign"}) < MaxForeign
          /\ sock' = [sock EXCEPT ![h] = "foreign"]
       \/ sock[h] = "foreign" /\ CloseSocket(h)
  /\ UNCHANGED <<running, listenSock, client, pc, conn, pushing, backlog, peer, dropped, dllMain>>

-----------------------------------------------------------------------------
\* What the IPC thread does of itself.
ThreadStep ==
  \/ OpenListener \/ BindListener \/ LoopTest \/ Accept \/ AcceptRefused
  \/ EnterService \/ LeaveService \/ EndService \/ FinishService
  \/ CheckListener \/ CloseListener \/ ResetListener \/ ThreadEnds

Push == PushReturns \/ PushDropsClient

Surroundings ==
  AcceptError \/ ForeignError \/ BackendConnects \/ BackendCloses \/ ForeignSocket

-----------------------------------------------------------------------------
ServerTypeOK ==
  /\ running \in BOOLEAN
  /\ listenSock \in Handles \cup {Invalid}
  /\ client \in Handles \cup {Invalid}
  /\ sock \in [Handles -> SocketKinds]
  /\ pc \in ThreadPcs
  /\ conn \in Handles \cup {Invalid}
  /\ pushing \in BOOLEAN
  /\ backlog \in BOOLEAN
  /\ peer \in BOOLEAN
  /\ dropped \in BOOLEAN

(* The game thread sends only on the connection being served, and the number *)
(* in g_client is that connection's: the order of setClient and closesocket, *)
(* with the mutex, keeps a frame off a closed socket and off anybody else's. *)
ClientIsServed ==
  /\ client # Invalid => /\ client = conn
                         /\ sock[conn] = "conn"
                         /\ pc \in {"serving", "unset", "killed"}
  /\ pushing => client # Invalid

(* The IPC thread reads and closes the connection it accepted: its handle    *)
(* can only have gone to somebody else after pushState has closed it.        *)
HandleIsOwn ==
  pc \in ServingPcs /\ ~dropped => sock[conn] = "conn"

(* However stop() and the end of serverLoop overlap, the thread leaves no    *)
(* socket of the server open behind it.                                      *)
NothingLeftOpen ==
  pc \in {"returned", "gone"} => \A h \in Handles : sock[h] \in {"closed", "foreign"}

(* A backend that waits is accepted: the connection before it ends, even if  *)
(* pushState has closed it under the read loop.  Not so if accept() failed,  *)
(* the server is stopped, or the number was given out to somebody else while *)
(* the loop still reads it.                                                  *)
WaitingIsServed ==
  backlog ~> \/ ~backlog \/ ~running
             \/ pc \in {"returned", "gone", "killed"}
             \/ pc \in ServingPcs /\ sock[conn] = "foreign"

-----------------------------------------------------------------------------
(* The comment at IpcServer.cpp:257 says that closing the listening socket   *)
(* unblocks accept() "so the thread can exit": the thread that stop() waits  *)
(* for is gone in the end, unless the process dies first.                    *)
ThreadCanExit ==
  (dllMain = "stop_join") ~> (pc \in {"gone", "killed"} \/ dllMain = "unloaded")
=============================================================================
