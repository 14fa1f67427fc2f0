-------------------------------- MODULE PageTeam --------------------------------
(***************************************************************************)
(* What the control page knows: whose turn it is and which team is the      *)
(* user's (src/frontend/src/App.tsx, useGameState.ts and the claim button   *)
(* of pages/ControlPage.tsx), for one tab of one user, against the parts of *)
(* the backend behind it: the broadcaster that feeds /ws/state and the      *)
(* claim table behind /api/me and /api/claim.                               *)
(*                                                                          *)
(* The turn comes with the stream, the team with fetches the page makes now *)
(* and then.  The module is about how the two part from the backend: a lost *)
(* stream, a fetch overtaken by another, a clear nobody told the page of.   *)
(*                                                                          *)
(* History: untold and the news of a message mark a team the broadcaster    *)
(* cleared until the message that follows it is handled; told is the id of  *)
(* the last snapshot handled since the page was mounted; a fetch is "stale" *)
(* once the table has changed after it was answered, and "late" once a      *)
(* newer answer was shown before it; spoiled says that the page's team may  *)
(* be wrong for a reason MyTeamExplained lists.                             *)
(***************************************************************************)
EXTENDS Naturals, Sequences

CONSTANTS
  Teams, NoTeam,
  Fetches,     \* identities of GET /api/me requests under way
  Troubles,    \* which of "failure", "elsewhere", "drop", "remount", "restart"
               \* and "offline" happen
  MaxTroubles, \* bound on how many
  MaxGames,    \* bound on the game ids of one WA process
  MaxInbox,    \* bound on messages on their way to the page
  MaxClaims    \* bound on clicks on the claim button whose request is under way

ASSUME NoTeamAssumption == NoTeam \notin Teams
ASSUME BoundsAssumption ==
  MaxTroubles \in Nat /\ MaxGames \in Nat /\ MaxInbox \in Nat \ {0} /\ MaxClaims \in Nat

VARIABLES
  wa,        \* what WA would push now: game_id and turn_team
  online,    \* latest_state() is not None
  own,       \* the team the table maps to the user
  last,      \* _last_game_id
  untold,    \* history: cleared since the last snapshot sent to the page
  stream,    \* the state socket: "down" or "open"
  inbox,     \* messages on it
  shown,     \* snap?.turn_team ?? null
  lastId,    \* lastGameId, as a set of at most one
  told,      \* history: what lastId should be
  team,      \* me?.team ?? null
  fetches,   \* refreshMe() calls under way
  claims,    \* how many calls of onClaim() have a request "sent" or "granted"
  spoiled,   \* history: the page's team may be wrong
  troubles   \* how many there have been

backend == <<wa, online, own, last, untold>>
feed == <<stream, inbox, shown, lastId, told>>
mine == <<team, fetches, claims, spoiled>>
pageVars == <<backend, feed, mine, troubles>>

Ids == 0 .. MaxGames
Turns == Teams \cup {NoTeam}
Messages ==
  {m \in [kind : {"state", "offline"}, id : Ids, turn : Turns, news : BOOLEAN] :
     m.kind = "offline" => ~m.news}
FetchStates == {"asked", "fresh", "stale", "late"}

\* App has just asked for /api/me, the page for its stream.
PageInit ==
  /\ wa = [id |-> 0, turn |-> NoTeam]
  /\ online = FALSE
  /\ own = NoTeam
  /\ last = 0
  /\ untold = FALSE
  /\ stream = "down"
  /\ inbox = <<>>
  /\ shown = NoTeam
  /\ lastId = {}
  /\ told = {}
  /\ team = NoTeam
  /\ \E f \in Fetches : fetches = {[name |-> f, team |-> NoTeam, state |-> "asked"]}
  /\ claims = [state \in {"sent", "granted"} |-> 0]
  /\ spoiled = FALSE
  /\ troubles = 0

Meets(trouble) ==
  /\ trouble \in Troubles
  /\ troubles < MaxTroubles
  /\ troubles' = troubles + 1

-----------------------------------------------------------------------------
(* refreshMe() and the rows it reads.                                        *)

\* api.me() leaves the page, under a name no fetch under way has.
Asks(set) ==
  \E f \in Fetches :
    /\ \A g \in set : g.name # f
    /\ fetches' = set \cup {[name |-> f, team |-> NoTeam, state |-> "asked"]}

\* History: the table has changed, answers already given are behind it.
Outdated(set) ==
  {[f EXCEPT !.state = IF @ = "fresh" THEN "stale" ELSE @] : f \in set}

\* History: an up-to-date answer was shown before the stale ones.
Overtaken(set) ==
  {[f EXCEPT !.state = IF @ = "stale" THEN "late" ELSE @] : f \in set}

\* GET /api/me reads the table.
MeAnswers(f) ==
  /\ f \in fetches /\ f.state = "asked"
  /\ fetches' = (fetches \ {f}) \cup {[f EXCEPT !.team = own, !.state = "fresh"]}
  /\ UNCHANGED <<backend, feed, team, claims, spoiled, troubles>>

\* .then(setMe): whichever answer comes.
MeArrives(f) ==
  /\ f \in fetches /\ f.state # "asked"
  /\ team' = f.team
  /\ fetches' = IF f.state = "fresh" THEN Overtaken(fetches \ {f}) ELSE fetches \ {f}
  /\ spoiled' = (f.state = "late" \/ (spoiled /\ f.state # "fresh"))
  /\ UNCHANGED <<backend, feed, claims, troubles>>

\* .catch(setError): the page does not ask again.
MeFails(f) ==
  /\ Meets("failure")
  /\ f \in fetches
  /\ fetches' = fetches \ {f}
  /\ spoiled' = TRUE
  /\ UNCHANGED <<backend, feed, team, claims>>

\* The user's row changes by another hand: an admin's, or another tab's claim.
OwnChangesElsewhere ==
  /\ Meets("elsewhere")
  /\ \E t \in Turns \ {own} : own' = t
  /\ fetches' = Outdated(fetches)
  /\ spoiled' = TRUE
  /\ UNCHANGED <<wa, online, last, untold, feed, team, claims>>

-----------------------------------------------------------------------------
(* The claim button.                                                         *)

\* canClaim, and onClaim() up to its await; the button stays enabled meanwhile.
Claim ==
  /\ claims["sent"] + claims["granted"] < MaxClaims
  /\ team = NoTeam /\ shown # NoTeam
  /\ claims' = [claims EXCEPT !["sent"] = @ + 1]
  /\ UNCHANGED <<backend, feed, team, fetches, spoiled, troubles>>

\* POST /api/claim grants the team that has the turn when it is handled ...
ClaimIsGranted ==
  /\ claims["sent"] # 0
  /\ online /\ own = NoTeam /\ wa.turn # NoTeam
  /\ claims' = [claims EXCEPT !["sent"] = @ - 1, !["granted"] = @ + 1]
  /\ own' = wa.turn
  /\ fetches' = Outdated(fetches)
  /\ UNCHANGED <<wa, online, last, untold, feed, team, spoiled, troubles>>

\* ... or refuses, as when another user owns it or another click was first;
\* setClaimError(), here or because the request was lost.
ClaimIsRefused ==
  /\ claims["sent"] # 0
  /\ claims' = [claims EXCEPT !["sent"] = @ - 1]
  /\ UNCHANGED <<backend, feed, team, fetches, spoiled, troubles>>

\* refreshMe().
ClaimReturns ==
  /\ claims["granted"] # 0
  /\ claims' = [claims EXCEPT !["granted"] = @ - 1]
  /\ Asks(fetches)
  /\ UNCHANGED <<backend, feed, team, spoiled, troubles>>

\* The answer is lost: a granted team goes unnoticed.
ClaimFails ==
  /\ Meets("failure")
  /\ claims["granted"] # 0
  /\ claims' = [claims EXCEPT !["granted"] = @ - 1]
  /\ spoiled' = TRUE
  /\ UNCHANGED <<backend, feed, team, fetches>>

-----------------------------------------------------------------------------
(* The broadcaster.                                                          *)

\* _envelope(latest_state()); only a snapshot can tell of a clear.
Envelope(news) ==
  IF online THEN [kind |-> "state", id |-> wa.id, turn |-> wa.turn, news |-> news]
            ELSE [kind |-> "offline", id |-> 0, turn |-> NoTeam, news |-> FALSE]

\* _detect_new_game: on_new_game clears the table.
IsNewGame == online /\ wa.id \notin {0, last} /\ last # 0

\* One round of the broadcast loop.
Tick ==
  LET cleared == IsNewGame /\ own # NoTeam
  IN  /\ Len(inbox) < MaxInbox
      /\ own' = IF IsNewGame THEN NoTeam ELSE own
      /\ fetches' = IF cleared THEN Outdated(fetches) ELSE fetches
      /\ last' = IF online /\ wa.id # 0 THEN wa.id ELSE last
      /\ untold' = ((untold \/ cleared) /\ ~(stream = "open" /\ online))
      /\ inbox' = IF stream = "open" THEN Append(inbox, Envelope(untold \/ cleared))
                                     ELSE inbox
      /\ UNCHANGED <<wa, online, stream, shown, lastId, told, team, claims, spoiled, troubles>>

\* A (re)connect succeeds: connect() sends what is latest, before any tick.
StreamOpens ==
  /\ stream = "down"
  /\ stream' = "open"
  /\ inbox' = <<Envelope(untold)>>
  /\ untold' = (untold /\ ~online)
  /\ UNCHANGED <<wa, online, own, last, shown, lastId, told, mine, troubles>>

\* Variant used as a mutant: messages of the old socket are still handled.
LosesStreamOnly ==
  /\ stream' = "down"
  /\ UNCHANGED <<inbox, untold>>

\* History: with the messages on it, the stream loses what they had to tell.
LosesStream ==
  /\ stream' = "down"
  /\ inbox' = <<>>
  /\ untold' = (untold \/ \E i \in 1 .. Len(inbox) : inbox[i].news)

\* onclose: setOffline(true) only; the snapshot stays as it was.
StreamDrops ==
  /\ Meets("drop")
  /\ stream = "open"
  /\ LosesStream
  /\ UNCHANGED <<wa, online, own, last, shown, lastId, told, mine>>

-----------------------------------------------------------------------------
(* useGameState: onmessage.                                                  *)

\* Variant used as a mutant: the id is compared with itself.
IdChangesAfterUpdate(id) == {id} # {} /\ id \notin {id}

\* A game id was seen before, and it was another one.
IdChanges(id) == lastId # {} /\ id \notin lastId

MessageArrives ==
  /\ inbox # <<>>
  /\ inbox' = Tail(inbox)
  /\ LET m == Head(inbox)
     IN  /\ shown' = m.turn
         /\ IF m.kind = "offline"
            THEN UNCHANGED <<lastId, told, fetches, spoiled>>
            ELSE /\ lastId' = {m.id}
                 /\ told' = {m.id}
                 /\ spoiled' = (spoiled \/ (m.news /\ told \in {{}, {m.id}}))
                 /\ IF IdChanges(m.id) THEN Asks(fetches) ELSE UNCHANGED fetches
  /\ UNCHANGED <<backend, stream, team, claims, troubles>>

\* Another page and back: the subscription starts anew, App keeps me and its
\* fetches.
PageRemounts ==
  /\ Meets("remount")
  /\ LosesStream
  /\ shown' = NoTeam
  /\ lastId' = {}
  /\ told' = {}
  /\ UNCHANGED <<wa, online, own, last, mine>>

-----------------------------------------------------------------------------
(* WA and the link to it.                                                    *)

NewGame ==
  /\ wa.id < MaxGames
  /\ wa' = [id |-> wa.id + 1, turn |-> NoTeam]
  /\ UNCHANGED <<online, own, last, untold, feed, mine, troubles>>

TurnChanges ==
  /\ wa.id # 0
  /\ \E t \in Turns \ {wa.turn} : wa' = [wa EXCEPT !.turn = t]
  /\ UNCHANGED <<online, own, last, untold, feed, mine, troubles>>

\* A new WA process counts its games from 1 again.
WaRestarts ==
  /\ Meets("restart")
  /\ wa.id # 0
  /\ wa' = [id |-> 0, turn |-> NoTeam]
  /\ UNCHANGED <<online, own, last, untold, feed, mine>>

LinkComes ==
  /\ ~online
  /\ online' = TRUE
  /\ UNCHANGED <<wa, own, last, untold, feed, mine, troubles>>

LinkGoes ==
  /\ Meets("offline")
  /\ online
  /\ online' = FALSE
  /\ UNCHANGED <<wa, own, last, untold, feed, mine>>

FetchSteps == \E f \in fetches : MeAnswers(f) \/ MeArrives(f)

Fetching == FetchSteps \/ OwnChangesElsewhere \/ \E f \in fetches : MeFails(f)

Claiming ==
  Claim \/ ClaimIsGranted \/ ClaimIsRefused \/ ClaimReturns \/ ClaimFails

Feeding == Tick \/ StreamOpens \/ StreamDrops \/ MessageArrives

Game == NewGame \/ TurnChanges \/ WaRestarts \/ LinkComes \/ LinkGoes

PageSteps == Fetching \/ Claiming \/ Feeding \/ Game

PageSpec == PageInit /\ [][PageSteps \/ PageRemounts]_pageVars

-----------------------------------------------------------------------------
(* Types of the backend's part, the stream and the page's team.              *)
PageTypeOK ==
  /\ wa \in [id : Ids, turn : Turns]
  /\ online \in BOOLEAN
  /\ own \in Turns
  /\ last \in Ids
  /\ untold \in BOOLEAN
  /\ stream \in {"down", "open"}
  /\ inbox \in Seq(Messages)
  /\ stream = "down" => inbox = <<>>
  /\ shown \in Turns
  /\ lastId \in {{}} \cup {{id} : id \in Ids}
  /\ told \subseteq Ids
  /\ team \in Turns
  /\ fetches \subseteq [name : Fetches, team : Turns, state : FetchStates]
  /\ claims \in [{"sent", "granted"} -> 0 .. MaxClaims]
  /\ claims["sent"] + claims["granted"] <= MaxClaims
  /\ spoiled \in BOOLEAN
  /\ troubles \in 0 .. MaxTroubles

(* Nothing is on its way that could still change what the page knows.        *)
Settled ==
  /\ fetches = {} /\ claims["sent"] = 0 /\ claims["granted"] = 0
  /\ stream = "open" /\ inbox = <<>> /\ ~untold

(* On a page with nothing under way, a team that is not the user's in the    *)
(* table comes from one of: a row changed by another hand, a fetch or claim  *)
(* whose answer was lost, answers shown out of order, a clear the page could *)
(* not tell from its messages, which named no id before or the same id.      *)
MyTeamExplained == Settled /\ team # own => spoiled

-----------------------------------------------------------------------------
(* ControlPage.tsx:26 says that on a new game the claimed team is fetched    *)
(* again: with every answer arriving and no other hand at the table, the     *)
(* team a settled page shows is the user's.                                  *)
NewGameIsNoticed == Settled => team = own
=============================================================================
