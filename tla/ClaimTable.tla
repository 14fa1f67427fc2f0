------------------------------ MODULE ClaimTable ------------------------------
(***************************************************************************)
(* What claiming promises, each claim decided in one step: a user asks for  *)
(* the team that has the turn, gets it if both are free, is refused only if *)
(* one of them is not, and keeps it until an admin or a newer game takes it *)
(* away.                                                                    *)
(***************************************************************************)
EXTENDS Naturals

CONSTANTS Teams, NoTeam, Users, Games

VARIABLES
  owners,    \* pairs of a team and the user who owns it
  wanted,    \* the pairs that users have asked for
  turn,      \* the team that has the turn, as the backend sees it
  compared   \* the newest game the backend has compared, 0 for none

vars == <<owners, wanted, turn, compared>>

Init ==
  /\ owners = {}
  /\ wanted = {}
  /\ turn = NoTeam
  /\ compared = 0

Free(claim) ==
  \A other \in owners : other[1] # claim[1] /\ other[2] # claim[2]

Ask(user) ==
  /\ turn # NoTeam
  /\ wanted' = wanted \cup {<<turn, user>>}
  /\ UNCHANGED <<owners, turn, compared>>

\* The user may have asked for it twice.
Grant(claim) ==
  /\ Free(claim)
  /\ owners' = owners \cup {claim}
  /\ wanted' \in {wanted, wanted \ {claim}}
  /\ UNCHANGED <<turn, compared>>

Refuse(claim) ==
  /\ ~Free(claim)
  /\ wanted' = wanted \ {claim}
  /\ UNCHANGED <<owners, turn, compared>>

TurnChanges ==
  /\ turn' \in Teams \cup {NoTeam}
  /\ UNCHANGED <<owners, wanted, compared>>

Delete(team) ==
  /\ owners' = {claim \in owners : claim[1] # team}
  /\ UNCHANGED <<wanted, turn, compared>>

Clear ==
  /\ owners' = {}
  /\ UNCHANGED <<wanted, turn, compared>>

\* Games are told apart by ids that may repeat; the first one takes nothing.
NewerGame(game) ==
  /\ game > compared
  /\ compared' = game
  /\ owners' = owners \/ (compared # 0 /\ owners' = {})
  /\ UNCHANGED <<wanted, turn>>

Restart ==
  /\ wanted' = {}
  /\ turn' = NoTeam
  /\ compared' = 0
  /\ UNCHANGED owners

Next ==
  \/ TurnChanges
  \/ \E user \in Users : Ask(user)
  \/ \E claim \in wanted : Grant(claim) \/ Refuse(claim)
  \/ \E team \in Teams : Delete(team)
  \/ Clear
  \/ \E game \in Games : NewerGame(game)
  \/ Restart

Spec == Init /\ [][Next]_vars
===============================================================================
