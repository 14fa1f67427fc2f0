------------------------------ MODULE HeldLevels -------------------------------
(***************************************************************************)
(* What the control channel promises of held inputs, as if handlers, stream *)
(* and DLL were one: a set of levels, who holds which of them, and which    *)
(* have lost the link their release would have taken.  There is no wire,    *)
(* no snapshot and no turn, and a message takes effect when it is sent.     *)
(***************************************************************************)
CONSTANTS Sockets, Levels

VARIABLES
  down,   \* the levels that are down, or will be once all is handled
  holds,  \* what each socket holds
  cut     \* levels somebody let go of, or may, without a release

vars == <<down, holds, cut>>

Nothing == [s \in Sockets |-> {}]

Init == down = {} /\ holds = Nothing /\ cut = {}

Press(s, a) ==
  /\ holds' = [holds EXCEPT ![s] = @ \cup {a}]
  /\ down' = down \cup {a}
  /\ cut' = cut \ {a}

\* A press that is accepted, and lost with the link.
PressInVain(s, a) ==
  /\ holds' = [holds EXCEPT ![s] = @ \cup {a}]
  /\ UNCHANGED <<down, cut>>

\* One release ends the level, whoever else holds it.
Release(s, a) ==
  /\ holds' = [holds EXCEPT ![s] = @ \ {a}]
  /\ down' = down \ {a}
  /\ cut' = cut \ {a}

\* The turn is another's, or the socket closes.
LetGo(s) ==
  /\ holds' = [holds EXCEPT ![s] = {}]
  /\ down' = down \ holds[s]
  /\ cut' = cut \ holds[s]

\* A socket no longer holds something, and nobody tells the DLL.
Abandon(s, set) ==
  /\ holds' = [holds EXCEPT ![s] = @ \ set]
  /\ cut' = cut \cup (set \cap down)
  /\ UNCHANGED down

\* A link or a process is lost, and with it the end of what was sent.
Lose ==
  /\ down' \subseteq Levels
  /\ cut' = down'
  /\ holds' \in {holds, Nothing}

\* The game ends, and levels with it.
GameEnds ==
  /\ UNCHANGED <<holds, cut>>
  /\ down' \subseteq down

Next ==
  \/ GameEnds
  \/ \E s \in Sockets, a \in Levels : Press(s, a) \/ PressInVain(s, a) \/ Release(s, a)
  \/ \E s \in Sockets : LetGo(s) \/ \E set \in SUBSET Levels : Abandon(s, set)
  \/ Lose

Spec == Init /\ [][Next]_vars

-----------------------------------------------------------------------------
(* No level goes down but by a press of somebody who then holds it, or as    *)
(* what a lost link leaves.                                                  *)
DownByPress ==
  [][\A a \in down' \ down : a \in cut' \/ \E s \in Sockets : a \in holds'[s]]_vars
=============================================================================
