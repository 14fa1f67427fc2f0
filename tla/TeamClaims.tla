------------------------------ MODULE TeamClaims ------------------------------
(***************************************************************************)
(* Who owns which team: the SQLite table of src/backend/app/store.py, the   *)
(* claim and admin endpoints of main.py, and the new-game detection of      *)
(* broadcaster.py that is meant to empty the table between games.           *)
(*                                                                          *)
(* Endpoints run on pool threads, the broadcaster on the event loop, the    *)
(* transport on its reader thread.  Each store call holds the store's lock  *)
(* and each read of the latest snapshot the transport's, so a step here is  *)
(* one such call; anything may happen between two of them.                  *)
(*                                                                          *)
(* The true number of a game (counted over WA restarts) is history: a row   *)
(* carries the game its claimant saw, and the reason why no clear may come  *)
(* to remove it: "late", a newer game was detected before the insert;       *)
(* "early", the backend had compared no game yet; "carried", the backend    *)
(* was restarted since; "reused", a later game had the id of the one before *)
(* it, from another WA process; or "none".                                  *)
(***************************************************************************)
EXTENDS Naturals

CONSTANTS
  Teams, NoTeam,
  Users,        \* lower-cased emails
  Requests,     \* identities of concurrent POST /api/claim requests
  MaxGames,     \* bound on games played
  MaxSessions,  \* bound on WA processes
  MaxRestarts   \* bound on backend restarts

ASSUME NoTeamAssumption == NoTeam \notin Teams
ASSUME BoundsAssumption ==
  MaxGames \in Nat /\ MaxSessions \in Nat /\ MaxRestarts \in Nat

VARIABLES
  rows,      \* table team_mapping
  wa,        \* what WA would push now: id is its game_id, game the true number
  session,   \* WA processes so far
  online,    \* latest_state() is not None
  latest,    \* the snapshot it is, NoGame while it is None
  pending,   \* claim requests between two of their calls
  tick,      \* the snapshot a broadcaster tick has read, as a set of at most one
  last,      \* _last_game_id
  seen,      \* history: true number of the game the last tick compared
  restarts

vars == <<rows, wa, session, online, latest, pending, tick, last, seen, restarts>>

Games == 0 .. MaxGames
Excuses == {"none", "late", "early", "carried", "reused"}
Rows == [team : Teams, email : Users, game : Games, excuse : Excuses]
Snapshots == [id : Games, game : Games, turn : Teams \cup {NoTeam}]
Pending == [request : Requests, step : {"check", "insert"}, email : Users,
            turn : Teams \cup {NoTeam}, game : Games]

NoGame == [id |-> 0, game |-> 0, turn |-> NoTeam]

Init ==
  /\ rows = {}
  /\ wa = NoGame
  /\ session = 1
  /\ online = FALSE
  /\ latest = NoGame
  /\ pending = {}
  /\ tick = {}
  /\ last = 0
  /\ seen = 0
  /\ restarts = 0

-----------------------------------------------------------------------------
(* The store.                                                               *)

\* Variant used as a mutant: the table without UNIQUE on email.
ConflictsByTeam(team, email) == \E row \in rows : row.team = team

\* What makes claim()'s INSERT raise IntegrityError.
Conflicts(team, email) ==
  \E row \in rows : row.team = team \/ row.email = email

Owners == {<<row.team, row.email>> : row \in rows}

Owns(email) == \E row \in rows : row.email = email

-----------------------------------------------------------------------------
(* POST /api/claim, one step per call.                                      *)

\* get_state(); without a snapshot the request ends in a 503.
ClaimBegins(request, email) ==
  /\ \A p \in pending : p.request # request
  /\ online
  /\ pending' = pending \cup {[request |-> request, step |-> "check", email |-> email,
                               turn |-> latest.turn, game |-> latest.game]}
  /\ UNCHANGED <<rows, wa, session, online, latest, tick, last, seen, restarts>>

\* Variant used as a mutant: the turn may be nobody's.
ClaimChecksOwnerOnly(p) ==
  /\ p \in pending /\ p.step = "check"
  /\ \/ Owns(p.email) /\ pending' = pending \ {p}
     \/ /\ ~Owns(p.email)
        /\ pending' = (pending \ {p}) \cup {[p EXCEPT !.step = "insert"]}
  /\ UNCHANGED <<rows, wa, session, online, latest, tick, last, seen, restarts>>

\* team_for_email(): one team per user; and a team must have the turn.
ClaimChecks(p) ==
  /\ p \in pending /\ p.step = "check"
  /\ \/ /\ Owns(p.email) \/ p.turn = NoTeam
        /\ pending' = pending \ {p}
     \/ /\ ~Owns(p.email) /\ p.turn # NoTeam
        /\ pending' = (pending \ {p}) \cup {[p EXCEPT !.step = "insert"]}
  /\ UNCHANGED <<rows, wa, session, online, latest, tick, last, seen, restarts>>

\* History: what a row inserted now can say for itself.
Excuse(g) == IF last = 0 THEN "early" ELSE IF g < seen THEN "late" ELSE "none"

\* store.claim(): first write wins.
ClaimInserts(p) ==
  /\ p \in pending /\ p.step = "insert"
  /\ pending' = pending \ {p}
  /\ \/ Conflicts(p.turn, p.email) /\ UNCHANGED rows
     \/ /\ ~Conflicts(p.turn, p.email)
        /\ rows' = rows \cup {[team |-> p.turn, email |-> p.email, game |-> p.game,
                               excuse |-> Excuse(p.game)]}
  /\ UNCHANGED <<wa, session, online, latest, tick, last, seen, restarts>>

-----------------------------------------------------------------------------
(* Admin endpoints.                                                         *)

DeleteMapping(team) ==
  /\ rows' = {row \in rows : row.team # team}
  /\ UNCHANGED <<wa, session, online, latest, pending, tick, last, seen, restarts>>

ClearMappings ==
  /\ rows' = {}
  /\ UNCHANGED <<wa, session, online, latest, pending, tick, last, seen, restarts>>

Admin == ClearMappings \/ \E team \in Teams : DeleteMapping(team)

-----------------------------------------------------------------------------
(* The broadcaster.                                                         *)

\* Variant used as a mutant: game_id 0 counts as a game.
TickReadsAnyGame ==
  /\ tick = {}
  /\ online
  /\ tick' = {latest}
  /\ UNCHANGED <<rows, wa, session, online, latest, pending, last, seen, restarts>>

\* snap = latest_state(); None and game_id 0 end the tick.
TickReads ==
  /\ tick = {}
  /\ online /\ latest.id # 0
  /\ tick' = {latest}
  /\ UNCHANGED <<rows, wa, session, online, latest, pending, last, seen, restarts>>

\* Variant used as a mutant: _last_game_id is assigned before it is compared.
DetectAfterUpdate(snap) == IF snap.id # snap.id /\ last # 0 THEN {} ELSE rows

\* _detect_new_game: on_new_game clears the table.
DetectNewGame(snap) == IF snap.id # last /\ last # 0 THEN {} ELSE rows

\* History: an id used again hides a later game from the comparison.
Excused(row, snap) ==
  IF snap.id = last /\ seen < snap.game /\ row.game < snap.game /\ row.excuse = "none"
  THEN [row EXCEPT !.excuse = "reused"] ELSE row

TickDetects ==
  \E snap \in tick :
    /\ rows' = {Excused(row, snap) : row \in DetectNewGame(snap)}
    /\ last' = snap.id
    /\ seen' = snap.game
    /\ tick' = {}
    /\ UNCHANGED <<wa, session, online, latest, pending, restarts>>

-----------------------------------------------------------------------------
(* WA, the link and the backend process.                                    *)

\* ConstructGameGlobal bumps gameId.
NewGame ==
  /\ wa.game < MaxGames
  /\ wa' = [id |-> wa.id + 1, game |-> wa.game + 1, turn |-> NoTeam]
  /\ UNCHANGED <<rows, session, online, latest, pending, tick, last, seen, restarts>>

\* StartTurn, FinishTurn and their past-tense forms, while a game is on.
TurnChanges ==
  /\ wa.id # 0
  /\ \E turn \in Teams \cup {NoTeam} : wa' = [wa EXCEPT !.turn = turn]
  /\ UNCHANGED <<rows, session, online, latest, pending, tick, last, seen, restarts>>

\* A new WA process counts its games from 1 again.
WaRestart ==
  /\ session < MaxSessions
  /\ session' = session + 1
  /\ wa' = [wa EXCEPT !.id = 0, !.turn = NoTeam]
  /\ UNCHANGED <<rows, online, latest, pending, tick, last, seen, restarts>>

\* The reader thread stores a pushed snapshot.
Deliver ==
  /\ online' = TRUE
  /\ latest' = wa
  /\ UNCHANGED <<rows, wa, session, pending, tick, last, seen, restarts>>

\* The connection ends: _latest is None.
GoOffline ==
  /\ online
  /\ online' = FALSE
  /\ latest' = NoGame
  /\ UNCHANGED <<rows, wa, session, pending, tick, last, seen, restarts>>

\* The table is a file and outlives the process; everything else does not.
BackendRestart ==
  /\ restarts < MaxRestarts
  /\ restarts' = restarts + 1
  /\ rows' = {[row EXCEPT !.excuse = "carried"] : row \in rows}
  /\ online' = FALSE
  /\ latest' = NoGame
  /\ pending' = {}
  /\ tick' = {}
  /\ last' = 0
  /\ seen' = 0
  /\ UNCHANGED <<wa, session>>

Claim ==
  \/ \E request \in Requests, email \in Users : ClaimBegins(request, email)
  \/ \E p \in pending : ClaimChecks(p) \/ ClaimInserts(p)

Environment == NewGame \/ TurnChanges \/ WaRestart \/ Deliver \/ GoOffline

Next ==
  Claim \/ Admin \/ TickReads \/ TickDetects \/ Environment \/ BackendRestart

Spec == Init /\ [][Next]_vars

(* The broadcast loop ticks for as long as the backend runs.                  *)
FairSpec == Spec /\ WF_vars(TickReads) /\ WF_vars(TickDetects)

-----------------------------------------------------------------------------
(* Types of the table, the link, the requests and the broadcaster.           *)
TypeOK ==
  /\ rows \subseteq Rows
  /\ wa \in Snapshots
  /\ session \in Nat
  /\ online \in BOOLEAN
  /\ latest \in Snapshots
  /\ pending \subseteq Pending
  /\ tick \subseteq Snapshots
  /\ last \in Games
  /\ seen \in Games
  /\ restarts \in 0 .. MaxRestarts

(* The invariants the docstring of MappingStore promises: a team has one     *)
(* owner and a user one team, even when requests of one user overlap and     *)
(* each has checked before the other inserts.                                *)
UniqueClaims ==
  \A r1, r2 \in rows : (r1.team = r2.team \/ r1.email = r2.email) => r1 = r2

(* A claim of an earlier game than the one the broadcaster compared last is  *)
(* still in the table only if its insert came after that comparison, the     *)
(* backend had nothing to compare with, or the two games had one id: no      *)
(* other order of reads, inserts and clears lets it survive.                 *)
StaleClaimsExplained ==
  \A row \in rows : row.game < seen => row.excuse # "none"

(* Lost links, offline periods, backend restarts and a game_id of 0 cost     *)
(* nobody a team: rows leave the table by an admin's hand, or when a tick    *)
(* has found a game newer than the one it compared last.                     *)
ClaimsSurviveOutages ==
  [][~(Owners \subseteq Owners')
       => Admin \/ \E snap \in tick : last # 0 /\ snap.game > seen]_vars

(* The broadcaster gets rid of past claims: while snapshots of a later game  *)
(* keep coming, a row without an excuse goes, or gets one.                   *)
PastClaimsGo ==
  (/\ online /\ latest.id # 0
   /\ \E row \in rows : row.excuse = "none" /\ row.game < latest.game)
    ~> (\/ ~online \/ latest.id = 0
        \/ \A row \in rows : row.excuse = "none" => row.game >= latest.game)

-----------------------------------------------------------------------------
(* store.py says mappings are ephemeral per-game claims: a claim that was in  *)
(* the file before a backend restart, or before WA used an id again, is gone  *)
(* once a later game is compared.                                             *)
ClaimsArePerGame ==
  \A row \in rows : row.excuse \in {"carried", "reused"} => row.game >= seen
===============================================================================
