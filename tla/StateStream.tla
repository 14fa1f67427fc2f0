------------------------------ MODULE StateStream -----------------------------
(***************************************************************************)
(* One snapshot's way from a frame of WA to latest_state(): pushState of    *)
(* src/dll/src/IpcServer.cpp, the bytes between the two sockets, and the    *)
(* reader thread of src/backend/app/ipc.py.                                 *)
(*                                                                          *)
(* A line is cut in two pieces, of which the tail has the newline: send may *)
(* take the head alone, and recv may return any number of pieces.  A frame  *)
(* stands for its snapshot, and frames are numbered over WA restarts.       *)
(***************************************************************************)
EXTENDS Naturals, Sequences

CONSTANTS
  Offline,   \* latest_state() is None
  MaxFrames, \* bound on the frames drawn
  Cap,       \* pieces that fit between the two sockets
  MaxSpins   \* 200 in pushState

ASSUME BoundsAssumption == MaxFrames \in Nat /\ Cap \in Nat /\ MaxSpins \in Nat
ASSUME OfflineAssumption == Offline \notin Nat

VARIABLES
  frame,     \* the frame drawn last
  unsent,    \* what pushState has still to send; it holds g_clientMutex till then
  spins,
  client,    \* g_client: "none", "live", or "stale" when the backend has closed
  sock,      \* the reader's socket: "none", "open", "cut" at the DLL's end, "left"
  stream,    \* the pieces between the two sockets
  buf,       \* the reader's buffer
  latest,    \* _latest
  shown      \* history: the last snapshot that _latest was

vars == <<frame, unsent, spins, client, sock, stream, buf, latest, shown>>

Pieces == [n : 1 .. MaxFrames, part : {"head", "tail"}]

HeadOf(n) == [n |-> n, part |-> "head"]
TailOf(n) == [n |-> n, part |-> "tail"]

\* stateLine: one snapshot, one line.
StateLine(n) == <<HeadOf(n), TailOf(n)>>

Init ==
  /\ frame = 0
  /\ unsent = << >> /\ spins = 0
  /\ client = "none" /\ sock = "none"
  /\ stream = << >> /\ buf = << >>
  /\ latest = Offline /\ shown = 0

-----------------------------------------------------------------------------
(* The game thread: pushState, once a frame.                                *)

NextFrame == unsent = << >> /\ frame < MaxFrames /\ frame' = frame + 1

\* Throttled, no client, the buffer is full, or sent into a socket whose other
\* end is gone.
FrameLeftOut ==
  /\ NextFrame
  /\ UNCHANGED <<unsent, spins, client, sock, stream, buf, latest, shown>>

\* send takes the line as a whole.
PushWhole ==
  /\ NextFrame
  /\ client = "live" /\ Len(stream) + 2 <= Cap
  /\ stream' = stream \o StateLine(frame + 1)
  /\ UNCHANGED <<unsent, spins, client, sock, buf, latest, shown>>

\* send takes part of the line.
PushPart ==
  /\ NextFrame
  /\ client = "live" /\ Len(stream) + 1 <= Cap
  /\ stream' = Append(stream, HeadOf(frame + 1))
  /\ unsent' = <<TailOf(frame + 1)>> /\ spins' = 0
  /\ UNCHANGED <<client, sock, buf, latest, shown>>

\* closesocket(g_client); g_client = INVALID_SOCKET.
DropClient ==
  /\ client' = "none"
  /\ sock' = IF client = "live" /\ sock = "open" THEN "cut" ELSE sock

PushFails ==
  /\ NextFrame
  /\ client # "none" /\ DropClient
  /\ UNCHANGED <<unsent, spins, stream, buf, latest, shown>>

\* The rest of a partial line goes through.
FinishLine ==
  /\ unsent # << >>
  /\ \/ client = "live" /\ Len(stream) < Cap /\ stream' = stream \o unsent
     \/ client = "stale" /\ UNCHANGED stream
  /\ unsent' = << >>
  /\ UNCHANGED <<frame, spins, client, sock, buf, latest, shown>>

\* Variant used as a mutant: nobody counts the spins.
SpinOn == UNCHANGED spins

CountSpin == spins < MaxSpins /\ spins' = spins + 1

\* WSAEWOULDBLOCK in the middle of a line.
Spin ==
  /\ unsent # << >>
  /\ client = "live" => Len(stream) >= Cap
  /\ CountSpin
  /\ UNCHANGED <<frame, unsent, client, sock, stream, buf, latest, shown>>

\* Variant used as a mutant: the frame is dropped, and the connection kept.
GiveUpLine == UNCHANGED <<client, sock>>

\* Mid-line stall: the connection is closed, so that the backend comes again.
GiveUp == DropClient

\* Too many spins, or send fails in the middle of the line.
AbandonLine ==
  /\ unsent # << >>
  /\ GiveUp
  /\ unsent' = << >>
  /\ UNCHANGED <<frame, spins, stream, buf, latest, shown>>

\* pushState, once it has begun a line.
PushOn == FinishLine \/ Spin \/ (spins = MaxSpins /\ AbandonLine)

-----------------------------------------------------------------------------
(* The IPC thread, when it has the mutex.                                   *)

\* accept, and setClient in serveClient.
Accept ==
  /\ unsent = << >> /\ client = "none" /\ sock = "open"
  /\ client' = "live"
  /\ UNCHANGED <<frame, unsent, spins, sock, stream, buf, latest, shown>>

\* recv reports the end of the connection, or an error.
EndService ==
  /\ unsent = << >> /\ client # "none"
  /\ DropClient
  /\ UNCHANGED <<frame, unsent, spins, stream, buf, latest, shown>>

\* The WA process ends; another one may follow.
DllDies ==
  /\ client' = "none"
  /\ sock' = IF sock = "open" THEN "cut" ELSE sock
  /\ unsent' = << >>
  /\ UNCHANGED <<frame, spins, stream, buf, latest, shown>>

\* The end of a connection may overtake what was sent on it.
LoseTail ==
  /\ sock = "cut" /\ stream # << >>
  /\ stream' = SubSeq(stream, 1, Len(stream) - 1)
  /\ UNCHANGED <<frame, unsent, spins, client, sock, buf, latest, shown>>

-----------------------------------------------------------------------------
(* The reader thread.                                                       *)

Connect ==
  /\ sock = "none"
  /\ sock' = "open"
  /\ UNCHANGED <<frame, unsent, spins, client, stream, buf, latest, shown>>

Newlines(s) == {i \in DOMAIN s : s[i].part = "tail"}

\* The position behind which the last of s begins: its last newline, or 0.
LastNewline(s) ==
  IF Newlines(s) = {} THEN 0
  ELSE CHOOSE i \in Newlines(s) : \A j \in Newlines(s) : j <= i

\* Variant used as a mutant: the buffer keeps the line that was parsed.
KeepParsed(input) == input

\* What the loop over complete lines leaves in the buffer.
Rest(input) == SubSeq(input, LastNewline(input) + 1, Len(input))

\* Variant used as a mutant: the line before the last complete one is parsed.
LineBefore(input) ==
  LET before == SubSeq(input, 1, LastNewline(input) - 1)
  IN  SubSeq(before, 1, LastNewline(before))

\* The one line that is parsed: the last complete one.
LastLine(input) ==
  LET before == SubSeq(input, 1, LastNewline(input) - 1)
  IN  SubSeq(input, LastNewline(before) + 1, LastNewline(input))

Wellformed(line) == \E n \in 1 .. MaxFrames : line = StateLine(n)

\* recv, and the lines it completes; a line that does not parse is ignored.
Receive(k) ==
  LET input == buf \o SubSeq(stream, 1, k)
      line == LastLine(input)
  IN  /\ sock \in {"open", "cut"}
      /\ stream' = SubSeq(stream, k + 1, Len(stream))
      /\ buf' = Rest(input)
      /\ \/ /\ Newlines(input) # {} /\ Wellformed(line)
            /\ latest' = line[1].n /\ shown' = line[1].n
         \/ /\ Newlines(input) = {} \/ ~Wellformed(line)
            /\ UNCHANGED <<latest, shown>>
      /\ UNCHANGED <<frame, unsent, spins, client, sock>>

\* Nothing came for 5 s, or the connection has ended.
Leave ==
  /\ sock \in {"open", "cut"}
  /\ sock' = "left"
  /\ UNCHANGED <<frame, unsent, spins, client, stream, buf, latest, shown>>

\* _set_latest(None) and s.close(); the buffer was _consume's own.
GoOffline ==
  /\ sock = "left"
  /\ sock' = "none"
  /\ client' = IF client = "live" THEN "stale" ELSE client
  /\ latest' = Offline
  /\ stream' = << >> /\ buf' = << >>
  /\ UNCHANGED <<frame, unsent, spins, shown>>

-----------------------------------------------------------------------------
Reader == \E k \in 1 .. Len(stream) : Receive(k)

Next ==
  \/ FrameLeftOut \/ PushWhole \/ PushPart \/ PushFails
  \/ FinishLine \/ Spin \/ AbandonLine
  \/ Accept \/ EndService \/ DllDies \/ LoseTail
  \/ Connect \/ Reader \/ Leave \/ GoOffline

Spec == Init /\ [][Next]_vars

(* pushState runs on once it has begun, and the reader reads what there is.  *)
FairSpec == Spec /\ WF_vars(PushOn) /\ WF_vars(Reader)

-----------------------------------------------------------------------------
(* Types; after each recv the buffer holds a part of one line.               *)
TypeOK ==
  /\ frame \in 0 .. MaxFrames
  /\ unsent \in {<< >>} \cup {<<TailOf(n)>> : n \in 1 .. MaxFrames}
  /\ spins \in 0 .. MaxSpins
  /\ client \in {"none", "live", "stale"}
  /\ sock \in {"none", "open", "cut", "left"}
  /\ stream \in Seq(Pieces) /\ Len(stream) <= Cap
  /\ buf \in Seq(Pieces) /\ Newlines(buf) = {}
  /\ latest \in {Offline} \cup 1 .. MaxFrames
  /\ shown \in 0 .. MaxFrames

\* What the reader of this connection has not yet got rid of.
Unread == buf \o stream

(* However sends stop short and receives cut in, each newline ends the line  *)
(* that was begun before it: the reader never takes half a line, or two      *)
(* halves, for one, and "ignore a malformed/partial line" in _on_line never  *)
(* has to.                                                                   *)
NoTornLine ==
  \A i \in DOMAIN Unread :
    /\ Unread[i].part = "tail" => i > 1 /\ Unread[i - 1] = HeadOf(Unread[i].n)
    /\ Unread[i].part = "head" /\ i < Len(Unread) => Unread[i + 1] = TailOf(Unread[i].n)

(* The comment on pushState, "rather than ever stalling the game": a frame   *)
(* that has begun a line ends, even if the backend never reads again.        *)
FrameNeverStalls == unsent # << >> ~> unsent = << >>

(* A snapshot that was sent whole, or a newer one, is shown while the        *)
(* connection lasts, however often the reader skips what it thinks stale.    *)
PushedIsShown ==
  \A n \in 1 .. MaxFrames :
    (sock = "open" /\ \E i \in DOMAIN Unread : Unread[i] = TailOf(n))
      ~> (sock # "open" \/ (latest # Offline /\ latest >= n))

-----------------------------------------------------------------------------
\* The frames whose line is complete and still to be read.
Complete == {Unread[i].n : i \in Newlines(Unread)}

Channel == INSTANCE SnapshotChannel
             WITH sent <- frame, inflight <- Complete, latest <- latest, shown <- shown

(* Dropped frames, partial sends, skipped lines and lost connections are all *)
(* a reader of latest_state() can tell: what it sees never goes back.        *)
ImplementsChannel == Channel!Spec
=============================================================================
