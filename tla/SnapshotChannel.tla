--------------------------- MODULE SnapshotChannel ----------------------------
(***************************************************************************)
(* What the push stream promises to whoever reads the backend's latest      *)
(* snapshot: frames may be left out or lost, and none is invented, shown    *)
(* twice or shown after a newer one, not even over a lost connection.       *)
(***************************************************************************)
EXTENDS Naturals

CONSTANTS
  Offline,   \* there is no snapshot
  MaxFrames  \* bound on the frames drawn

VARIABLES
  sent,      \* the number of the frame drawn last
  inflight,  \* the frames on their way
  latest,    \* the frame whose snapshot is shown, or Offline
  shown      \* the last one that was, 0 before the first

vars == <<sent, inflight, latest, shown>>

Init ==
  /\ sent = 0
  /\ inflight = {}
  /\ latest = Offline
  /\ shown = 0

\* A new frame, with its snapshot left out, or under way at once.
Draw ==
  /\ sent < MaxFrames
  /\ sent' = sent + 1
  /\ inflight' = inflight \/ inflight' = inflight \cup {sent + 1}
  /\ UNCHANGED <<latest, shown>>

\* The snapshot of the frame drawn last comes on its way late.
Finish ==
  /\ sent > shown
  /\ inflight' = inflight \cup {sent}
  /\ UNCHANGED <<sent, latest, shown>>

\* Whatever was under way before it is passed over.
Show(n) ==
  /\ latest' = n /\ shown' = n
  /\ inflight' = {m \in inflight : m > n}
  /\ UNCHANGED sent

Lose ==
  /\ inflight' \subseteq inflight
  /\ latest' \in {latest, Offline}
  /\ UNCHANGED <<sent, shown>>

Next == Draw \/ Finish \/ Lose \/ \E n \in inflight : Show(n)

Spec == Init /\ [][Next]_vars

-----------------------------------------------------------------------------
(* The snapshots shown, over all connections, are of ever later frames.      *)
NeverGoesBack == [][latest' # latest /\ latest' # Offline => latest' > shown]_vars
=============================================================================
