--------------------------- MODULE TeamClaimsProofs ---------------------------
(***************************************************************************)
(* What TeamClaims.tla claims of the table of team owners, for any teams,   *)
(* users, requests, games, WA processes and backend restarts.               *)
(***************************************************************************)
EXTENDS TeamClaims, TLAPS

\* Types need two facts more: a request only inserts for a real team, and WA's
\* own count of its games never passes the true one.
InsertHasTeam == \A p \in pending : p.step = "insert" => p.turn \in Teams

TypeInv == TypeOK /\ InsertHasTeam /\ wa.id <= wa.game

\* A game that was never started is a snapshot.
LEMMA NoGameType == NoGame \in Snapshots
<1>1. 0 \in Games
  BY BoundsAssumption DEF Games
<1> QED
  BY <1>1 DEF NoGame, Snapshots

\* The types hold at the start.
LEMMA InitTypes == Init => TypeInv
<1> SUFFICES ASSUME Init
             PROVE  TypeInv
  OBVIOUS
<1>1. wa \in Snapshots /\ latest \in Snapshots
  BY NoGameType DEF Init
<1>2. 0 \in Games /\ 0 \in 0 .. MaxRestarts
  BY BoundsAssumption DEF Games
<1>3. wa.id <= wa.game
  BY DEF Init, NoGame
<1> QED
  BY <1>1, <1>2, <1>3 DEF Init, TypeInv, TypeOK, InsertHasTeam

\* Every step keeps the types.
LEMMA NextTypes == TypeInv /\ [Next]_vars => TypeInv'
<1> SUFFICES ASSUME TypeInv, [Next]_vars
             PROVE  TypeInv'
  OBVIOUS
<1> USE DEF TypeInv, TypeOK
<1>1. ASSUME NEW request \in Requests, NEW email \in Users, ClaimBegins(request, email)
      PROVE  TypeInv'
  BY <1>1 DEF ClaimBegins, Pending, Snapshots, InsertHasTeam
<1>2. ASSUME NEW p \in pending, ClaimChecks(p)
      PROVE  TypeInv'
  BY <1>2 DEF ClaimChecks, Pending, InsertHasTeam
<1>3. ASSUME NEW p \in pending, ClaimInserts(p)
      PROVE  TypeInv'
  BY <1>3 DEF ClaimInserts, Pending, Rows, Excuse, Excuses, InsertHasTeam
<1>4. CASE Admin
  BY <1>4 DEF Admin, ClearMappings, DeleteMapping, InsertHasTeam
<1>5. CASE TickReads
  BY <1>5 DEF TickReads, InsertHasTeam
<1>6. CASE TickDetects
  <2>1. \A row \in Rows, snap \in Snapshots : Excused(row, snap) \in Rows
    BY DEF Excused, Rows, Excuses
  <2>2. \A snap \in tick : DetectNewGame(snap) \subseteq rows
    BY DEF DetectNewGame
  <2>3. rows' \subseteq Rows
    BY <1>6, <2>1, <2>2 DEF TickDetects
  <2> QED
    BY <1>6, <2>3 DEF TickDetects, Snapshots, InsertHasTeam
<1>7. CASE NewGame
  <2>1. /\ wa.id \in 0 .. MaxGames /\ wa.game \in 0 .. MaxGames /\ MaxGames \in Nat
        /\ wa.game < MaxGames
    BY <1>7, BoundsAssumption DEF NewGame, Snapshots, Games
  <2>2. wa.id + 1 \in Games /\ wa.game + 1 \in Games /\ wa.id + 1 <= wa.game + 1
    BY <2>1 DEF Games
  <2> QED
    BY <1>7, <2>2 DEF NewGame, Snapshots, InsertHasTeam
<1>8. CASE TurnChanges
  BY <1>8 DEF TurnChanges, Snapshots, InsertHasTeam
<1>9. CASE WaRestart
  <2>1. wa.game \in Games
    BY DEF Snapshots
  <2>2. 0 \in Games
    BY BoundsAssumption DEF Games
  <2>3. 0 <= wa.game
    BY <2>1, BoundsAssumption DEF Games
  <2>4. wa' \in Snapshots /\ wa'.id = 0 /\ wa'.game = wa.game
    BY <1>9, <2>2 DEF WaRestart, Snapshots
  <2> QED
    BY <1>9, <2>3, <2>4 DEF WaRestart, InsertHasTeam
<1>10. CASE Deliver \/ GoOffline
  BY <1>10, NoGameType DEF Deliver, GoOffline, InsertHasTeam
<1>11. CASE BackendRestart
  <2>1. 0 \in Games /\ restarts' \in 0 .. MaxRestarts
    BY <1>11, BoundsAssumption DEF BackendRestart, Games
  <2>2. rows' \subseteq Rows
    BY <1>11 DEF BackendRestart, Rows, Excuses
  <2> QED
    BY <1>11, <2>1, <2>2, NoGameType DEF BackendRestart, InsertHasTeam
<1>12. CASE UNCHANGED vars
  BY <1>12 DEF vars, InsertHasTeam
<1> QED
  BY <1>1, <1>2, <1>3, <1>4, <1>5, <1>6, <1>7, <1>8, <1>9, <1>10, <1>11, <1>12
     DEF Next, Claim, Environment

\* TypeInv is an invariant.
LEMMA TypeInvariance == Spec => []TypeInv
  BY InitTypes, NextTypes, PTL DEF Spec

(* Types, for every value of the constants.                                  *)
THEOREM TypeCorrect == Spec => []TypeOK
<1>1. TypeInv => TypeOK
  BY DEF TypeInv
<1> QED
  BY <1>1, TypeInvariance, PTL

-----------------------------------------------------------------------------
\* Every row after the step comes from one before it, with the same team and
\* email, and none gives rise to two.
Rewritten ==
  \A r1, r2 \in rows' : \E o1, o2 \in rows :
    /\ r1.team = o1.team /\ r1.email = o1.email
    /\ r2.team = o2.team /\ r2.email = o2.email
    /\ o1 = o2 => r1 = r2

\* History never touches a row's team or email.
LEMMA ExcusedKeeps ==
  ASSUME NEW row \in Rows, NEW snap
  PROVE  /\ Excused(row, snap).team = row.team
         /\ Excused(row, snap).email = row.email
         /\ Excused(row, snap).game = row.game
  BY DEF Excused, Rows

\* The only steps that add or rewrite rows.
LEMMA RowsChange ==
  ASSUME TypeInv, [Next]_vars
  PROVE  \/ rows' \subseteq rows
         \/ \E p \in pending : ClaimInserts(p) /\ ~Conflicts(p.turn, p.email)
         \/ Rewritten
<1>1. \A row \in rows : row \in Rows
  BY DEF TypeInv, TypeOK
<1>2. CASE TickDetects
  <2>1. PICK snap \in tick : rows' = {Excused(row, snap) : row \in DetectNewGame(snap)}
    BY <1>2 DEF TickDetects
  <2>2. DetectNewGame(snap) \subseteq rows
    BY DEF DetectNewGame
  <2> QED
    BY <1>1, <2>1, <2>2, ExcusedKeeps DEF Rewritten
<1>3. CASE BackendRestart
  <2> SUFFICES ASSUME NEW r1 \in rows', NEW r2 \in rows'
               PROVE  \E o1, o2 \in rows :
                        /\ r1.team = o1.team /\ r1.email = o1.email
                        /\ r2.team = o2.team /\ r2.email = o2.email
                        /\ o1 = o2 => r1 = r2
    BY DEF Rewritten
  <2>1. PICK o1 \in rows : r1 = [o1 EXCEPT !.excuse = "carried"]
    BY <1>3 DEF BackendRestart
  <2>2. PICK o2 \in rows : r2 = [o2 EXCEPT !.excuse = "carried"]
    BY <1>3 DEF BackendRestart
  <2>3. r1.team = o1.team /\ r1.email = o1.email /\ r2.team = o2.team /\ r2.email = o2.email
    BY <1>1, <2>1, <2>2 DEF Rows
  <2> QED
    BY <2>1, <2>2, <2>3
<1> QED
  BY <1>2, <1>3
     DEF Next, Claim, Environment, ClaimBegins, ClaimChecks, ClaimInserts, Admin,
         ClearMappings, DeleteMapping, TickReads, NewGame,
         TurnChanges, WaRestart, Deliver, GoOffline, vars

(* A team never has two owners nor a user two teams, however many requests   *)
(* overlap: the check of store.claim() is made under the lock that inserts.  *)
THEOREM ClaimsStayUnique == Spec => []UniqueClaims
<1>1. Init => UniqueClaims
  BY DEF Init, UniqueClaims
<1>2. TypeInv /\ UniqueClaims /\ [Next]_vars => UniqueClaims'
  <2> SUFFICES ASSUME TypeInv, UniqueClaims, [Next]_vars
               PROVE  UniqueClaims'
    OBVIOUS
  <2>1. CASE rows' \subseteq rows
    BY <2>1 DEF UniqueClaims
  <2>2. ASSUME NEW p \in pending, ClaimInserts(p), ~Conflicts(p.turn, p.email)
        PROVE  UniqueClaims'
    BY <2>2 DEF ClaimInserts, Conflicts, UniqueClaims
  <2>3. CASE Rewritten
    <3> SUFFICES ASSUME NEW r1 \in rows', NEW r2 \in rows',
                        r1.team = r2.team \/ r1.email = r2.email
                 PROVE  r1 = r2
      BY DEF UniqueClaims
    <3>1. PICK o1 \in rows, o2 \in rows :
            /\ r1.team = o1.team /\ r1.email = o1.email
            /\ r2.team = o2.team /\ r2.email = o2.email
            /\ o1 = o2 => r1 = r2
      BY <2>3 DEF Rewritten
    <3> QED
      BY <3>1 DEF UniqueClaims
  <2> QED
    BY <2>1, <2>2, <2>3, RowsChange
<1> QED
  BY <1>1, <1>2, TypeInvariance, PTL DEF Spec

-----------------------------------------------------------------------------
\* Snapshots travel in order: what a tick has read, what is cached and what WA
\* shows are never older than what was compared, in this order.
Ordered ==
  /\ seen <= wa.game
  /\ online => seen <= latest.game /\ latest.game <= wa.game
  /\ ~online => latest.id = 0
  /\ \A snap \in tick :
       /\ snap.id # 0
       /\ seen <= snap.game /\ snap.game <= wa.game
       /\ online => snap.game <= latest.game
  /\ last = 0 => seen = 0

\* Two game_ids, if they are ids at all, differ only between two games.
Agree(id1, game1, id2, game2) == id1 # 0 /\ id2 # 0 /\ game1 = game2 => id1 = id2

IdsAgree ==
  /\ Agree(last, seen, wa.id, wa.game)
  /\ Agree(last, seen, latest.id, latest.game)
  /\ Agree(latest.id, latest.game, wa.id, wa.game)
  /\ \A snap \in tick : /\ Agree(last, seen, snap.id, snap.game)
                        /\ Agree(snap.id, snap.game, latest.id, latest.game)
                        /\ Agree(snap.id, snap.game, wa.id, wa.game)

SnapshotInv == TypeInv /\ Ordered /\ IdsAgree

\* The order and the agreement of game_ids hold at the start.
LEMMA InitSnapshots == Init => SnapshotInv
  BY InitTypes DEF SnapshotInv, Ordered, IdsAgree, Agree, Init, NoGame

\* Every step keeps them: only NewGame makes a new id, for a game newer than
\* all that were seen before.
LEMMA NextSnapshots == SnapshotInv /\ [Next]_vars => SnapshotInv'
<1> SUFFICES ASSUME SnapshotInv, [Next]_vars
             PROVE  Ordered' /\ IdsAgree'
  BY NextTypes DEF SnapshotInv
<1>0. /\ wa.id \in Nat /\ wa.game \in Nat /\ latest.id \in Nat /\ latest.game \in Nat
      /\ last \in Nat /\ seen \in Nat
      /\ \A snap \in tick : snap.id \in Nat /\ snap.game \in Nat
      /\ MaxGames \in Nat
  BY BoundsAssumption DEF SnapshotInv, TypeInv, TypeOK, Snapshots, Games
<1>1. CASE UNCHANGED <<wa, online, latest, tick, last, seen>>
  BY <1>1 DEF SnapshotInv, Ordered, IdsAgree
<1>2. CASE TickReads
  BY <1>0, <1>2 DEF TickReads, SnapshotInv, Ordered, IdsAgree, Agree
<1>3. CASE TickDetects
  BY <1>0, <1>3 DEF TickDetects, SnapshotInv, Ordered, IdsAgree, Agree
<1>4. CASE NewGame
  <2>1. wa'.id = wa.id + 1 /\ wa'.game = wa.game + 1
    BY <1>4 DEF NewGame
  <2> QED
    BY <1>0, <1>4, <2>1 DEF NewGame, SnapshotInv, Ordered, IdsAgree, Agree
<1>5. CASE TurnChanges \/ WaRestart
  <2>1. wa'.game = wa.game /\ (wa'.id = wa.id \/ wa'.id = 0)
    BY <1>5 DEF TurnChanges, WaRestart, SnapshotInv, TypeInv, TypeOK, Snapshots
  <2> QED
    BY <1>0, <1>5, <2>1 DEF TurnChanges, WaRestart, SnapshotInv, Ordered, IdsAgree, Agree
<1>6. CASE Deliver
  BY <1>0, <1>6 DEF Deliver, SnapshotInv, Ordered, IdsAgree, Agree
<1>7. CASE GoOffline
  BY <1>0, <1>7 DEF GoOffline, NoGame, SnapshotInv, Ordered, IdsAgree, Agree
<1>8. CASE BackendRestart
  BY <1>0, <1>8 DEF BackendRestart, NoGame, SnapshotInv, Ordered, IdsAgree, Agree
<1>9. CASE Claim \/ Admin \/ UNCHANGED vars
  <2>1. UNCHANGED <<wa, online, latest, tick, last, seen>>
    BY <1>9 DEF Claim, ClaimBegins, ClaimChecks, ClaimInserts, Admin, ClearMappings,
                DeleteMapping, vars
  <2> QED
    BY <1>1, <2>1
<1> QED
  BY <1>2, <1>3, <1>4, <1>5, <1>6, <1>7, <1>8, <1>9 DEF Next, Environment

\* SnapshotInv is an invariant.
LEMMA SnapshotInvariance == Spec => []SnapshotInv
  BY InitSnapshots, NextSnapshots, PTL DEF Spec

\* Only an admin and a tick on another id take a pair out of the table.
LEMMA OwnersLost ==
  ASSUME TypeInv, Next, ~(Owners \subseteq Owners')
  PROVE  Admin \/ (TickDetects /\ \E snap \in tick : snap.id # last /\ last # 0)
<1>1. CASE rows' = rows
  BY <1>1 DEF Owners
<1>2. CASE \E p \in pending : ClaimInserts(p)
  BY <1>2 DEF ClaimInserts, Owners
<1>3. CASE BackendRestart
  <2>1. ASSUME NEW row \in rows
        PROVE  <<row.team, row.email>> \in Owners'
    <3> DEFINE carried == [row EXCEPT !.excuse = "carried"]
    <3>1. carried \in rows'
      BY <1>3 DEF BackendRestart
    <3>2. carried.team = row.team /\ carried.email = row.email
      BY DEF TypeInv, TypeOK, Rows
    <3> QED
      BY <3>1, <3>2 DEF Owners
  <2> QED
    BY <2>1 DEF Owners
<1>4. CASE TickDetects
  <2>1. PICK snap \in tick : rows' = {Excused(row, snap) : row \in DetectNewGame(snap)}
    BY <1>4 DEF TickDetects
  <2>2. ASSUME DetectNewGame(snap) = rows
        PROVE  Owners \subseteq Owners'
    <3>1. ASSUME NEW row \in rows
          PROVE  <<row.team, row.email>> \in Owners'
      <4>1. Excused(row, snap) \in rows' /\ row \in Rows
        BY <2>1, <2>2 DEF TypeInv, TypeOK
      <4> QED
        BY <4>1, ExcusedKeeps DEF Owners
    <3> QED
      BY <3>1 DEF Owners
  <2> QED
    BY <1>4, <2>2 DEF DetectNewGame
<1> QED
  BY <1>1, <1>2, <1>3, <1>4
     DEF Next, Claim, Environment, ClaimBegins, ClaimChecks, TickReads, NewGame,
         TurnChanges, WaRestart, Deliver, GoOffline

(* Lost links, offline periods, restarts of either process and a game_id of  *)
(* 0 cost nobody a team.                                                     *)
THEOREM OutagesCostNoClaim == Spec => ClaimsSurviveOutages
<1>1. SnapshotInv /\ [Next]_vars
        => [~(Owners \subseteq Owners')
              => Admin \/ \E snap \in tick : last # 0 /\ snap.game > seen]_vars
  <2> SUFFICES ASSUME SnapshotInv, Next, ~(Owners \subseteq Owners'), ~Admin
               PROVE  \E snap \in tick : last # 0 /\ snap.game > seen
    OBVIOUS
  <2>1. PICK snap \in tick : snap.id # last /\ last # 0
    BY OwnersLost DEF SnapshotInv
  <2>2. snap.game \in Nat /\ seen \in Nat /\ seen <= snap.game /\ snap.game # seen
    BY <2>1, BoundsAssumption
       DEF SnapshotInv, TypeInv, TypeOK, Snapshots, Games, Ordered, IdsAgree, Agree
  <2> QED
    BY <2>1, <2>2
<1> QED
  BY <1>1, SnapshotInvariance, PTL DEF Spec, ClaimsSurviveOutages

-----------------------------------------------------------------------------
\* Before its first comparison the broadcaster has nothing to tell games by,
\* and all rows say so.
EarlyRows == last = 0 => \A row \in rows : row.excuse # "none"

StaleInv == SnapshotInv /\ EarlyRows /\ StaleClaimsExplained

\* The stale-claim invariant holds at the start.
LEMMA InitStale == Init => StaleInv
  BY InitSnapshots DEF StaleInv, Init, EarlyRows, StaleClaimsExplained

\* Every step keeps it.
LEMMA NextStale == StaleInv /\ [Next]_vars => StaleInv'
<1> SUFFICES ASSUME StaleInv, [Next]_vars
             PROVE  EarlyRows' /\ StaleClaimsExplained'
  BY NextSnapshots DEF StaleInv
<1>0. /\ seen \in Nat /\ \A snap \in tick : snap.game \in Nat
      /\ \A row \in rows : row \in Rows /\ row.game \in Nat
      /\ \A p \in pending : p.game \in Nat
  BY BoundsAssumption
     DEF StaleInv, SnapshotInv, TypeInv, TypeOK, Snapshots, Games, Rows, Pending
<1> USE DEF StaleInv, EarlyRows, StaleClaimsExplained
<1>1. ASSUME UNCHANGED <<last, seen>>, rows' \subseteq rows
      PROVE  EarlyRows' /\ StaleClaimsExplained'
  BY <1>1
<1>2. ASSUME NEW p \in pending, ClaimInserts(p)
      PROVE  EarlyRows' /\ StaleClaimsExplained'
  BY <1>0, <1>2 DEF ClaimInserts, Excuse
<1>3. CASE TickDetects
  <2>1. PICK snap \in tick :
          /\ rows' = {Excused(row, snap) : row \in DetectNewGame(snap)}
          /\ last' = snap.id /\ seen' = snap.game
    BY <1>3 DEF TickDetects
  <2>2. snap.id # 0 /\ seen <= snap.game
    BY DEF SnapshotInv, Ordered
  <2>3. ASSUME NEW row \in rows, row \in DetectNewGame(snap)
        PROVE  Excused(row, snap).game < snap.game => Excused(row, snap).excuse # "none"
    <3>1. row \in Rows /\ row.game \in Nat /\ seen \in Nat /\ snap.game \in Nat
      BY <1>0
    <3>2. CASE row.excuse # "none"
      BY <3>1, <3>2 DEF Excused
    <3>3. CASE row.excuse = "none" /\ row.game < snap.game
      <4>1. last # 0 /\ snap.id = last
        BY <2>3, <3>3 DEF DetectNewGame
      <4>2. seen < snap.game
        BY <2>2, <3>1, <3>3
      <4> QED
        BY <3>1, <3>3, <4>1, <4>2 DEF Excused, Rows
    <3>4. CASE ~(row.game < snap.game)
      BY <3>1, <3>4, ExcusedKeeps
    <3> QED
      BY <3>2, <3>3, <3>4
  <2>4. DetectNewGame(snap) \subseteq rows
    BY DEF DetectNewGame
  <2> QED
    BY <2>1, <2>2, <2>3, <2>4
<1>4. CASE BackendRestart
  <2>1. \A row \in rows' : row.excuse = "carried"
    BY <1>0, <1>4 DEF BackendRestart, Rows
  <2> QED
    BY <1>4, <2>1 DEF BackendRestart
<1>5. CASE TickReads \/ Environment \/ Admin \/ UNCHANGED vars
  BY <1>1, <1>5 DEF TickReads, Environment, NewGame, TurnChanges, WaRestart, Deliver,
                    GoOffline, Admin, ClearMappings, DeleteMapping, vars
<1>6. ASSUME NEW request \in Requests, NEW email \in Users, ClaimBegins(request, email)
      PROVE  EarlyRows' /\ StaleClaimsExplained'
  BY <1>1, <1>6 DEF ClaimBegins
<1>7. ASSUME NEW p \in pending, ClaimChecks(p)
      PROVE  EarlyRows' /\ StaleClaimsExplained'
  BY <1>1, <1>7 DEF ClaimChecks
<1> QED
  BY <1>2, <1>3, <1>4, <1>5, <1>6, <1>7 DEF Next, Claim

(* A claim of an earlier game than the one last compared was inserted after  *)
(* the comparison, or outlived a backend with nothing to compare with, or    *)
(* was hidden by a game_id used again: over any number of processes, there   *)
(* is no fourth way for a claim to survive its game.                         *)
THEOREM StaleClaimsAreExplained == Spec => []StaleClaimsExplained
<1>1. StaleInv => StaleClaimsExplained
  BY DEF StaleInv
<1> QED
  BY <1>1, InitStale, NextStale, PTL DEF Spec

\* Nothing in the table is left from a game before this one, but with an excuse.
PastGone(game) == \A row \in rows : row.excuse = "none" => game <= row.game

\* A tick has read one snapshot.
OneTick == \A snap, other \in tick : snap = other

\* It reads the next after it has compared.
LEMMA NextTick == OneTick /\ [Next]_vars => OneTick'
  BY DEF OneTick, Next, Claim, ClaimBegins, ClaimChecks, ClaimInserts, Admin, ClearMappings,
         DeleteMapping, TickReads, TickDetects, Environment, NewGame, TurnChanges, WaRestart,
         Deliver, GoOffline, BackendRestart, vars

(* What PastClaimsGo needs besides fairness: the snapshot a tick has read    *)
(* stays read until it is compared, the comparison leaves no claim of a game *)
(* before it without an excuse, and none comes back: a late insert has one.  *)
TicksTakePastClaims ==
  [][BackendRestart
       \/ /\ \A snap \in tick : snap \in tick' \/ (seen' = snap.game /\ PastGone(snap.game)')
          /\ \A game \in 0 .. seen : PastGone(game)']_vars

THEOREM PastClaimsWaitForATick == Spec => TicksTakePastClaims
<1>1. ASSUME StaleInv, StaleInv', OneTick, Next, ~BackendRestart
      PROVE  /\ \A snap \in tick :
                   snap \in tick' \/ (seen' = snap.game /\ PastGone(snap.game)')
             /\ \A game \in 0 .. seen : PastGone(game)'
  <2>1. /\ seen \in Nat /\ seen' \in Nat /\ \A row \in rows' : row.game \in Nat
        /\ \A snap \in tick : seen <= snap.game
    BY <1>1, BoundsAssumption
       DEF StaleInv, SnapshotInv, Ordered, TypeInv, TypeOK, Games, Rows
  <2>2. \/ seen' = seen /\ tick \subseteq tick'
        \/ tick' = {} /\ \E snap \in tick : seen' = snap.game
    BY <1>1 DEF Next, Claim, ClaimBegins, ClaimChecks, ClaimInserts, Admin, ClearMappings,
           DeleteMapping, TickReads, TickDetects, Environment, NewGame, TurnChanges, WaRestart,
           Deliver, GoOffline
  <2>3. \A row \in rows' : row.excuse = "none" => seen' <= row.game
    BY <1>1, <2>1 DEF StaleInv, StaleClaimsExplained
  <2>4. seen <= seen'
    BY <2>1, <2>2
  <2> QED
    BY <1>1, <2>1, <2>2, <2>3, <2>4 DEF PastGone, OneTick
<1>2. StaleInv /\ StaleInv' /\ OneTick /\ [Next]_vars
        => [BackendRestart
              \/ /\ \A snap \in tick :
                       snap \in tick' \/ (seen' = snap.game /\ PastGone(snap.game)')
                 /\ \A game \in 0 .. seen : PastGone(game)']_vars
  BY <1>1
<1>3. Init => OneTick
  BY DEF Init, OneTick
<1> QED
  BY <1>2, <1>3, InitStale, NextStale, NextTick, PTL DEF Spec, TicksTakePastClaims

-----------------------------------------------------------------------------
\* The abstract table: a pair is wanted while a request for it is under way.
Wanted == {<<p.turn, p.email>> : p \in {q \in pending : q.turn # NoTeam}}

Table == INSTANCE ClaimTable WITH
  owners   <- Owners,
  wanted   <- Wanted,
  turn     <- latest.turn,
  compared <- seen

\* A broadcaster that has an id to compare with has a game too.
GameOfId == /\ last # 0 => seen # 0
            /\ \A snap \in tick : snap.game # 0
            /\ latest.id # 0 => latest.game # 0
            /\ wa.id # 0 => wa.game # 0

TableInv == SnapshotInv /\ GameOfId

\* It holds at the start.
LEMMA InitTable == Init => TableInv
  BY InitSnapshots DEF TableInv, GameOfId, Init, NoGame

\* Every step keeps it.
LEMMA NextTable == TableInv /\ [Next]_vars => TableInv'
<1> SUFFICES ASSUME TableInv, [Next]_vars
             PROVE  GameOfId'
  BY NextSnapshots DEF TableInv
<1>0. wa.game \in Nat /\ wa.id \in Nat
  BY BoundsAssumption DEF TableInv, SnapshotInv, TypeInv, TypeOK, Snapshots, Games
<1> USE DEF TableInv, GameOfId
<1>1. CASE NewGame
  <2>1. wa'.game = wa.game + 1
    BY <1>1 DEF NewGame
  <2> QED
    BY <1>0, <1>1, <2>1 DEF NewGame
<1>2. CASE TurnChanges
  <2>1. wa'.id = wa.id /\ wa'.game = wa.game
    BY <1>2 DEF TurnChanges, SnapshotInv, TypeInv, TypeOK, Snapshots
  <2> QED
    BY <1>2, <2>1 DEF TurnChanges
<1>3. CASE WaRestart
  <2>1. wa'.id = 0
    BY <1>3 DEF WaRestart, SnapshotInv, TypeInv, TypeOK, Snapshots
  <2> QED
    BY <1>3, <2>1 DEF WaRestart
<1>4. CASE Deliver
  BY <1>4 DEF Deliver
<1>5. CASE GoOffline \/ BackendRestart
  BY <1>5 DEF GoOffline, BackendRestart, NoGame
<1>6. CASE TickReads
  BY <1>6 DEF TickReads
<1>7. CASE TickDetects
  BY <1>7 DEF TickDetects
<1>8. CASE Claim \/ Admin \/ UNCHANGED vars
  <2>1. UNCHANGED <<wa, latest, tick, last, seen>>
    BY <1>8 DEF Claim, ClaimBegins, ClaimChecks, ClaimInserts, Admin, ClearMappings,
                DeleteMapping, vars
  <2> QED
    BY <2>1
<1> QED
  BY <1>1, <1>2, <1>3, <1>4, <1>5, <1>6, <1>7, <1>8 DEF Next, Environment

\* A request that is answered takes its pair back, unless another wants it too.
LEMMA AnswerWanted ==
  ASSUME NEW p \in pending, pending' = pending \ {p}
  PROVE  \/ Wanted' = Wanted
         \/ p.turn # NoTeam /\ Wanted' = Wanted \ {<<p.turn, p.email>>}
<1> DEFINE claim == <<p.turn, p.email>>
<1>1. CASE \E q \in pending \ {p} : q.turn # NoTeam /\ <<q.turn, q.email>> = claim
  BY <1>1 DEF Wanted
<1>2. CASE p.turn = NoTeam
  BY <1>2 DEF Wanted
<1>3. CASE /\ p.turn # NoTeam
           /\ \A q \in pending \ {p} : q.turn # NoTeam => <<q.turn, q.email>> # claim
  BY <1>3 DEF Wanted
<1> QED
  BY <1>1, <1>2, <1>3

\* A pair is free in the abstract table if the INSERT would not conflict.
LEMMA FreeIsNoConflict ==
  ASSUME NEW team, NEW email
  PROVE  Table!Free(<<team, email>>) <=> ~Conflicts(team, email)
<1>1. \A row \in rows : <<row.team, row.email>> \in Owners
  BY DEF Owners
<1>2. \A other \in Owners : \E row \in rows :
        other[1] = row.team /\ other[2] = row.email
  BY DEF Owners
<1>3. ASSUME Table!Free(<<team, email>>)
      PROVE  ~Conflicts(team, email)
  BY <1>1, <1>3 DEF Table!Free, Conflicts
<1>4. ASSUME ~Conflicts(team, email)
      PROVE  Table!Free(<<team, email>>)
  BY <1>2, <1>4 DEF Table!Free, Conflicts
<1> QED
  BY <1>3, <1>4

\* Each call of a claim request is a step of the table, or none.
LEMMA ClaimStep ==
  ASSUME TableInv, Claim
  PROVE  Table!Next \/ UNCHANGED Table!vars
<1>1. ASSUME NEW request \in Requests, NEW email \in Users, ClaimBegins(request, email)
      PROVE  Table!Next \/ UNCHANGED Table!vars
  <2>1. UNCHANGED <<Owners, latest.turn, seen>>
    BY <1>1 DEF ClaimBegins, Owners
  <2>2. CASE latest.turn = NoTeam
    <3>1. Wanted' = Wanted
      BY <1>1, <2>2 DEF ClaimBegins, Wanted
    <3> QED
      BY <2>1, <3>1 DEF Table!vars
  <2>3. CASE latest.turn # NoTeam
    <3>1. Wanted' = Wanted \cup {<<latest.turn, email>>}
      <4> DEFINE new == [request |-> request, step |-> "check", email |-> email,
                         turn |-> latest.turn, game |-> latest.game]
      <4>1. pending' = pending \cup {new}
        BY <1>1 DEF ClaimBegins
      <4>2. new.turn = latest.turn /\ new.email = email
        OBVIOUS
      <4> HIDE DEF new
      <4> QED
        BY <2>3, <4>1, <4>2 DEF Wanted
    <3>2. Table!Ask(email)
      BY <2>1, <2>3, <3>1 DEF Table!Ask
    <3> QED
      BY <3>2 DEF Table!Next
  <2> QED
    BY <2>2, <2>3
<1>2. ASSUME NEW p \in pending, pending' = pending \ {p}, p.turn # NoTeam,
             Conflicts(p.turn, p.email), UNCHANGED <<rows, latest, seen>>
      PROVE  Table!Next \/ UNCHANGED Table!vars
  <2>1. UNCHANGED <<Owners, latest.turn, seen>>
    BY <1>2 DEF Owners
  <2>2. <<p.turn, p.email>> \in Wanted /\ ~Table!Free(<<p.turn, p.email>>)
    BY <1>2, FreeIsNoConflict DEF Wanted
  <2>3. CASE Wanted' = Wanted
    BY <2>1, <2>3 DEF Table!vars
  <2>4. CASE Wanted' = Wanted \ {<<p.turn, p.email>>}
    <3>1. Table!Refuse(<<p.turn, p.email>>)
      BY <2>1, <2>2, <2>4 DEF Table!Refuse
    <3> QED
      BY <2>2, <3>1 DEF Table!Next
  <2> QED
    BY <1>2, <2>3, <2>4, AnswerWanted
<1>3. ASSUME NEW p \in pending, ClaimChecks(p)
      PROVE  Table!Next \/ UNCHANGED Table!vars
  <2>1. UNCHANGED <<rows, latest, seen>> /\ UNCHANGED <<Owners, latest.turn, seen>>
    BY <1>3 DEF ClaimChecks, Owners
  <2>2. CASE Owns(p.email) /\ p.turn # NoTeam
    <3>1. Conflicts(p.turn, p.email) /\ pending' = pending \ {p}
      BY <1>3, <2>2 DEF ClaimChecks, Owns, Conflicts
    <3> QED
      BY <1>2, <2>1, <2>2, <3>1
  <2>3. CASE p.turn = NoTeam
    <3>1. Wanted' = Wanted
      BY <1>3, <2>3, AnswerWanted DEF ClaimChecks
    <3> QED
      BY <2>1, <3>1 DEF Table!vars
  <2>4. CASE ~Owns(p.email) /\ p.turn # NoTeam
    <3> DEFINE next == [p EXCEPT !.step = "insert"]
    <3>1. pending' = (pending \ {p}) \cup {next}
      BY <1>3, <2>4 DEF ClaimChecks
    <3>2. next.turn = p.turn /\ next.email = p.email
      BY DEF TableInv, SnapshotInv, TypeInv, TypeOK, Pending
    <3> HIDE DEF next
    <3>3. Wanted' = Wanted
      BY <3>1, <3>2 DEF Wanted
    <3> QED
      BY <2>1, <3>3 DEF Table!vars
  <2> QED
    BY <2>2, <2>3, <2>4
<1>4. ASSUME NEW p \in pending, ClaimInserts(p)
      PROVE  Table!Next \/ UNCHANGED Table!vars
  <2>1. /\ pending' = pending \ {p} /\ UNCHANGED <<latest, seen>>
        /\ p.turn \in Teams /\ p.turn # NoTeam
    BY <1>4, NoTeamAssumption DEF ClaimInserts, TableInv, SnapshotInv, TypeInv, InsertHasTeam
  <2>2. CASE Conflicts(p.turn, p.email) /\ UNCHANGED rows
    BY <1>2, <2>1, <2>2
  <2>3. CASE ~Conflicts(p.turn, p.email)
    <3>1. rows' = rows \cup {[team |-> p.turn, email |-> p.email, game |-> p.game,
                              excuse |-> Excuse(p.game)]}
      BY <1>4, <2>3 DEF ClaimInserts
    <3>2. Owners' = Owners \cup {<<p.turn, p.email>>}
      <4> DEFINE row == [team |-> p.turn, email |-> p.email, game |-> p.game,
                         excuse |-> Excuse(p.game)]
      <4>1. row.team = p.turn /\ row.email = p.email
        OBVIOUS
      <4> HIDE DEF row
      <4>2. rows' = rows \cup {row}
        BY <3>1 DEF row
      <4> QED
        BY <4>1, <4>2 DEF Owners
    <3>3. <<p.turn, p.email>> \in Wanted /\ Table!Free(<<p.turn, p.email>>)
      BY <2>1, <2>3, FreeIsNoConflict DEF Wanted
    <3>4. Wanted' \in {Wanted, Wanted \ {<<p.turn, p.email>>}}
      BY <2>1, AnswerWanted
    <3>5. Table!Grant(<<p.turn, p.email>>)
      BY <2>1, <3>2, <3>3, <3>4 DEF Table!Grant
    <3> QED
      BY <3>3, <3>5 DEF Table!Next
  <2> QED
    BY <1>4, <2>2, <2>3 DEF ClaimInserts
<1> QED
  BY <1>1, <1>3, <1>4 DEF Claim

\* A tick is a newer game, or nothing.
LEMMA TickStep ==
  ASSUME TableInv, TickDetects
  PROVE  Table!Next \/ UNCHANGED Table!vars
<1>1. PICK snap \in tick :
        /\ rows' = {Excused(row, snap) : row \in DetectNewGame(snap)}
        /\ seen' = snap.game
        /\ UNCHANGED <<latest, pending>>
  BY DEF TickDetects
<1>2. /\ snap.game \in Games /\ snap.game \in Nat /\ seen \in Nat /\ seen <= snap.game
      /\ snap.id # 0
      /\ Agree(last, seen, snap.id, snap.game)
      /\ last # 0 => seen # 0
  BY BoundsAssumption DEF TableInv, SnapshotInv, TypeInv, TypeOK, Snapshots, Games, Ordered,
                          IdsAgree, GameOfId
<1>3. Wanted' = Wanted /\ latest'.turn = latest.turn
  BY <1>1 DEF Wanted
<1>4. CASE snap.id # last /\ last # 0
  <2>1. rows' = {} /\ seen # 0 /\ snap.game # seen
    BY <1>1, <1>2, <1>4 DEF DetectNewGame, Agree
  <2>2. Owners' = {} /\ snap.game > seen
    BY <1>2, <2>1 DEF Owners
  <2>3. Table!NewerGame(snap.game)
    BY <1>1, <1>3, <2>1, <2>2 DEF Table!NewerGame
  <2> QED
    BY <1>2, <2>3 DEF Table!Next
<1>5. CASE ~(snap.id # last /\ last # 0)
  <2>1. rows' = {Excused(row, snap) : row \in rows}
    BY <1>1, <1>5 DEF DetectNewGame
  <2>2. \A row \in rows : Excused(row, snap).team = row.team
                          /\ Excused(row, snap).email = row.email
    BY ExcusedKeeps DEF TableInv, SnapshotInv, TypeInv, TypeOK
  <2>3. Owners' = Owners
    BY <2>1, <2>2 DEF Owners
  <2>4. CASE snap.game = seen
    BY <1>1, <1>3, <2>3, <2>4 DEF Table!vars
  <2>5. CASE snap.game > seen
    <3>1. Table!NewerGame(snap.game)
      BY <1>1, <1>3, <2>3, <2>5 DEF Table!NewerGame
    <3> QED
      BY <1>2, <3>1 DEF Table!Next
  <2> QED
    BY <1>2, <2>4, <2>5
<1> QED
  BY <1>4, <1>5

\* So is every other step.
LEMMA TableStep ==
  ASSUME TableInv, [Next]_vars
  PROVE  Table!Next \/ UNCHANGED Table!vars
<1>1. wa.turn \in Teams \cup {NoTeam}
  BY DEF TableInv, SnapshotInv, TypeInv, TypeOK, Snapshots
<1>2. ASSUME NEW team \in Teams, DeleteMapping(team)
      PROVE  Table!Next
  <2>1. rows' = {row \in rows : row.team # team} /\ UNCHANGED <<pending, latest, seen>>
    BY <1>2 DEF DeleteMapping
  <2>2. Owners' = {claim \in Owners : claim[1] # team}
    BY <2>1 DEF Owners
  <2>3. Table!Delete(team)
    BY <2>1, <2>2 DEF Table!Delete, Wanted
  <2> QED
    BY <2>3 DEF Table!Next
<1>3. CASE ClearMappings
  <2>1. Owners' = {} /\ Wanted' = Wanted /\ UNCHANGED <<latest, seen>>
    BY <1>3 DEF ClearMappings, Owners, Wanted
  <2>2. Table!Clear
    BY <2>1 DEF Table!Clear
  <2> QED
    BY <2>2 DEF Table!Next
<1>4. CASE TickReads \/ NewGame \/ TurnChanges \/ WaRestart \/ UNCHANGED vars
  <2>1. UNCHANGED <<rows, pending, latest, seen>>
    BY <1>4 DEF TickReads, NewGame, TurnChanges, WaRestart, vars
  <2>2. Owners' = Owners /\ Wanted' = Wanted
    BY <2>1 DEF Owners, Wanted
  <2> QED
    BY <2>1, <2>2 DEF Table!vars
<1>5. CASE Deliver \/ GoOffline
  <2>1. UNCHANGED <<rows, pending, seen>> /\ latest'.turn \in Teams \cup {NoTeam}
    BY <1>1, <1>5 DEF Deliver, GoOffline, NoGame
  <2>2. Owners' = Owners /\ Wanted' = Wanted
    BY <2>1 DEF Owners, Wanted
  <2>3. Table!TurnChanges
    BY <2>1, <2>2 DEF Table!TurnChanges
  <2> QED
    BY <2>3 DEF Table!Next
<1>6. CASE BackendRestart
  <2>1. /\ rows' = {[row EXCEPT !.excuse = "carried"] : row \in rows}
        /\ pending' = {} /\ latest' = NoGame /\ seen' = 0
    BY <1>6 DEF BackendRestart
  <2>2. \A row \in rows : /\ [row EXCEPT !.excuse = "carried"].team = row.team
                          /\ [row EXCEPT !.excuse = "carried"].email = row.email
    BY DEF TableInv, SnapshotInv, TypeInv, TypeOK, Rows
  <2>3. Owners' = Owners
    <3> DEFINE Carried(row) == [row EXCEPT !.excuse = "carried"]
    <3>1. rows' = {Carried(row) : row \in rows}
      BY <2>1
    <3>2. \A row \in rows : Carried(row).team = row.team /\ Carried(row).email = row.email
      BY <2>2
    <3> HIDE DEF Carried
    <3> QED
      BY <3>1, <3>2 DEF Owners
  <2>4. Wanted' = {} /\ latest'.turn = NoTeam
    BY <2>1 DEF Wanted, NoGame
  <2>5. Table!Restart
    BY <2>1, <2>3, <2>4 DEF Table!Restart
  <2> QED
    BY <2>5 DEF Table!Next
<1> QED
  BY <1>2, <1>3, <1>4, <1>5, <1>6, ClaimStep, TickStep DEF Next, Admin, Environment

(* Requests that overlap, turns read from a cache and clears in between come *)
(* to no more than a table in which every claim is decided at once: a row is *)
(* for a team that had the turn when its user asked, a request is refused    *)
(* only if team or user is taken, and rows go by an admin's hand or a newer  *)
(* game's.                                                                   *)
THEOREM ClaimsImplementTable == Spec => Table!Spec
<1>1. Init => Table!Init
  BY DEF Init, Table!Init, Owners, Wanted, NoGame
<1>2. TableInv /\ [Next]_vars => [Table!Next]_(Table!vars)
  BY TableStep
<1>3. Spec => []TableInv
  BY InitTable, NextTable, PTL DEF Spec
<1> QED
  BY <1>1, <1>2, <1>3, PTL DEF Spec, Table!Spec

-----------------------------------------------------------------------------
\* As long as WA has not been started again, its ids number its games.
IdsNumberGames ==
  session = 1 =>
    /\ wa.id = wa.game
    /\ latest.id = latest.game
    /\ \A snap \in tick : snap.id = snap.game
    /\ last = seen

\* Rows blame what has happened.
BlameIsTrue ==
  \A row \in rows : /\ row.excuse = "carried" => restarts # 0
                    /\ row.excuse = "reused" => session # 1

BlameInv == TypeInv /\ IdsNumberGames /\ BlameIsTrue /\ session >= 1

\* Nothing is blamed at the start.
LEMMA InitBlame == Init => BlameInv
  BY InitTypes DEF BlameInv, IdsNumberGames, BlameIsTrue, Init, NoGame

\* A tick blames an id used again only if ids do not number the games.
LEMMA TickBlame ==
  ASSUME BlameInv, TickDetects
  PROVE  IdsNumberGames' /\ BlameIsTrue'
<1>1. PICK snap \in tick :
        /\ rows' = {Excused(row, snap) : row \in DetectNewGame(snap)}
        /\ last' = snap.id /\ seen' = snap.game /\ tick' = {}
        /\ UNCHANGED <<wa, session, latest, restarts>>
  BY DEF TickDetects
<1>2. snap.game \in Nat /\ seen \in Nat
  BY BoundsAssumption DEF BlameInv, TypeInv, TypeOK, Snapshots, Games
<1>3. ASSUME NEW row \in rows
      PROVE  /\ Excused(row, snap).excuse = "carried" => restarts # 0
             /\ Excused(row, snap).excuse = "reused" => session # 1
  <2>1. row \in Rows
    BY DEF BlameInv, TypeInv, TypeOK
  <2>2. CASE Excused(row, snap) = row
    BY <2>2 DEF BlameInv, BlameIsTrue
  <2>3. CASE Excused(row, snap) # row
    <3>1. snap.id = last /\ seen < snap.game /\ Excused(row, snap).excuse = "reused"
      BY <2>1, <2>3 DEF Excused, Rows
    <3>2. session # 1
      BY <1>2, <3>1 DEF BlameInv, IdsNumberGames
    <3> QED
      BY <3>1, <3>2
  <2> QED
    BY <2>2, <2>3
<1>4. DetectNewGame(snap) \subseteq rows
  BY DEF DetectNewGame
<1>5. IdsNumberGames'
  BY <1>1 DEF BlameInv, IdsNumberGames
<1> QED
  BY <1>1, <1>3, <1>4, <1>5 DEF BlameIsTrue

\* Every step keeps the blame true.
LEMMA NextBlame == BlameInv /\ [Next]_vars => BlameInv'
<1> SUFFICES ASSUME BlameInv, [Next]_vars
             PROVE  IdsNumberGames' /\ BlameIsTrue' /\ session' >= 1
  BY NextTypes DEF BlameInv
<1>0. session \in Nat /\ session >= 1 /\ restarts \in Nat
  BY BoundsAssumption DEF BlameInv, TypeInv, TypeOK
<1> USE DEF BlameInv, IdsNumberGames, BlameIsTrue
<1>1. ASSUME NEW p \in pending, ClaimInserts(p)
      PROVE  IdsNumberGames' /\ BlameIsTrue' /\ session' >= 1
  <2>1. \A row \in rows' : row \in rows \/ row.excuse = Excuse(p.game)
    BY <1>1 DEF ClaimInserts
  <2>2. Excuse(p.game) # "carried" /\ Excuse(p.game) # "reused"
    BY DEF Excuse
  <2> QED
    BY <1>0, <1>1, <2>1, <2>2 DEF ClaimInserts
<1>2. CASE TickDetects
  BY <1>0, <1>2, TickBlame DEF TickDetects
<1>3. CASE NewGame
  <2>1. wa'.id = wa.id + 1 /\ wa'.game = wa.game + 1
    BY <1>3 DEF NewGame
  <2> QED
    BY <1>0, <1>3, <2>1 DEF NewGame
<1>4. CASE TurnChanges
  <2>1. wa'.id = wa.id /\ wa'.game = wa.game
    BY <1>4 DEF TurnChanges, TypeInv, TypeOK, Snapshots
  <2> QED
    BY <1>0, <1>4, <2>1 DEF TurnChanges
<1>5. CASE WaRestart
  <2>1. session' >= 1 /\ session' # 1
    BY <1>0, <1>5 DEF WaRestart
  <2> QED
    BY <1>5, <2>1 DEF WaRestart
<1>6. CASE Deliver \/ GoOffline \/ TickReads
  BY <1>0, <1>6 DEF Deliver, GoOffline, TickReads, NoGame
<1>7. CASE BackendRestart
  <2>1. restarts' # 0
    BY <1>0, <1>7 DEF BackendRestart
  <2>2. \A row \in rows' : row.excuse = "carried"
    BY <1>7 DEF BackendRestart, TypeInv, TypeOK, Rows
  <2> QED
    BY <1>0, <1>7, <2>1, <2>2 DEF BackendRestart, NoGame
<1>8. CASE Admin
  BY <1>0, <1>8 DEF Admin, ClearMappings, DeleteMapping
<1>9. ASSUME NEW request \in Requests, NEW email \in Users, ClaimBegins(request, email)
      PROVE  IdsNumberGames' /\ BlameIsTrue' /\ session' >= 1
  BY <1>0, <1>9 DEF ClaimBegins
<1>10. ASSUME NEW p \in pending, ClaimChecks(p)
       PROVE  IdsNumberGames' /\ BlameIsTrue' /\ session' >= 1
  BY <1>0, <1>10 DEF ClaimChecks
<1>11. CASE UNCHANGED vars
  BY <1>0, <1>11 DEF vars
<1> QED
  BY <1>1, <1>2, <1>3, <1>4, <1>5, <1>6, <1>7, <1>8, <1>9, <1>10, <1>11
     DEF Next, Claim, Environment

(* Where store.py's "ephemeral per-game claims" is true: as long as neither   *)
(* the backend nor WA has been started again, no claim outlives the game it   *)
(* was for in either of the two ways ClaimsArePerGame speaks of.              *)
THEOREM PerGameUntilRestart == Spec => [](restarts = 0 /\ session = 1 => ClaimsArePerGame)
<1>1. BlameInv => (restarts = 0 /\ session = 1 => ClaimsArePerGame)
  BY DEF BlameInv, BlameIsTrue, ClaimsArePerGame
<1> QED
  BY <1>1, InitBlame, NextBlame, PTL DEF Spec
=============================================================================
