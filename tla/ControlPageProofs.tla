--------------------------- MODULE ControlPageProofs ---------------------------
(***************************************************************************)
(* Proofs about PageTeam.tla and ControlPage.tla.  Whatever can make the    *)
(* page's team differ from the table leaves a trace that outlasts it until  *)
(* the page has caught up: a fetch not yet overtaken, a granted claim not   *)
(* yet answered, a clear not yet told, or a message that tells of it        *)
(* (Coming).  The pad needs no more than its types and NothingStuck.        *)
(***************************************************************************)
EXTENDS ControlPage, TLAPS

\* Something on its way will make the page fetch its team, or show it.
Coming ==
  \/ \E f \in fetches : f.state \in {"asked", "fresh"}
  \/ claims["granted"] # 0
  \/ untold
  \/ \E i \in 1 .. Len(inbox) : inbox[i].news

FreshIsOwn == \A f \in fetches : f.state = "fresh" => f.team = own

Behind == team # own \/ \E f \in fetches : f.state = "stale"

TeamInv ==
  /\ told = lastId
  /\ FreshIsOwn
  /\ Behind => spoiled \/ Coming

FetchRecords == [name : Fetches, team : Turns, state : FetchStates]

\* The requests of onClaim() under way, by how far they are.
ClaimCounts ==
  /\ claims \in [{"sent", "granted"} -> 0 .. MaxClaims]
  /\ claims["sent"] + claims["granted"] <= MaxClaims

-----------------------------------------------------------------------------
(* Type correctness.                                                         *)

\* Asking adds one record that awaits its answer.
LEMMA AsksType ==
  ASSUME NEW set, set \subseteq FetchRecords, Asks(set)
  PROVE  /\ fetches' \subseteq FetchRecords
         /\ set \subseteq fetches'
         /\ \E f \in fetches' : f.state = "asked"
         /\ \A f \in fetches' : f \in set \/ f.state = "asked"
<1>1. PICK f \in Fetches :
        fetches' = set \cup {[name |-> f, team |-> NoTeam, state |-> "asked"]}
  BY DEF Asks
<1> DEFINE new == [name |-> f, team |-> NoTeam, state |-> "asked"]
<1>2. new \in FetchRecords /\ new.state = "asked"
  BY DEF FetchRecords, Turns, FetchStates
<1> HIDE DEF new
<1>3. fetches' = set \cup {new}
  BY <1>1 DEF new
<1>4. QED
  BY <1>2, <1>3

\* Marking answers as outdated touches no other state and no team.
LEMMA OutdatedType ==
  ASSUME NEW set, set \subseteq FetchRecords
  PROVE  /\ Outdated(set) \subseteq FetchRecords
         /\ \A f \in Outdated(set) : f.state # "fresh"
         /\ (\E f \in set : f.state = "asked") => \E f \in Outdated(set) : f.state = "asked"
BY DEF Outdated, FetchRecords, FetchStates

\* Marking stale answers as late leaves none stale and invents no fresh one.
LEMMA OvertakenType ==
  ASSUME NEW set, set \subseteq FetchRecords
  PROVE  /\ Overtaken(set) \subseteq FetchRecords
         /\ \A f \in Overtaken(set) : f.state # "stale"
         /\ \A f \in Overtaken(set) : f.state = "fresh" => f \in set
<1> DEFINE Mark(f) == [f EXCEPT !.state = IF @ = "stale" THEN "late" ELSE @]
<1>1. \A f \in FetchRecords :
        /\ Mark(f) \in FetchRecords
        /\ Mark(f).state # "stale"
        /\ Mark(f).state = "fresh" => Mark(f) = f
  BY DEF FetchRecords, FetchStates
<1>2. \A g \in Overtaken(set) : \E f \in set : g = Mark(f)
  BY DEF Overtaken
<1> HIDE DEF Mark
<1>3. QED
  BY <1>1, <1>2

LEMMA EnvelopeType ==
  ASSUME PageTypeOK, NEW news \in BOOLEAN
  PROVE  /\ Envelope(news) \in Messages
         /\ Envelope(news).news = (news /\ online)
<1>1. 0 \in Ids /\ NoTeam \in Turns
  BY BoundsAssumption DEF Ids, Turns
<1>2. wa.id \in Ids /\ wa.turn \in Turns /\ online \in BOOLEAN
  BY DEF PageTypeOK
<1>3. QED
  BY <1>1, <1>2 DEF Envelope, Messages

LEMMA PageInitType == PageInit => PageTypeOK /\ TeamInv
<1> SUFFICES ASSUME PageInit PROVE PageTypeOK /\ TeamInv
  OBVIOUS
<1>1. 0 \in Ids /\ NoTeam \in Turns /\ 0 \in 0 .. MaxTroubles
  BY BoundsAssumption DEF Ids, Turns
<1>2. fetches \subseteq FetchRecords /\ \A f \in fetches : f.state = "asked"
  BY <1>1 DEF PageInit, FetchRecords, FetchStates
<1>3. PageTypeOK
  <2>1. wa \in [id : Ids, turn : Turns]
    BY <1>1 DEF PageInit
  <2>2. inbox = <<>> /\ inbox \in Seq(Messages)
    BY DEF PageInit
  <2>3. ClaimCounts
    BY BoundsAssumption DEF PageInit, ClaimCounts
  <2>4. QED
    BY <1>1, <1>2, <2>1, <2>2, <2>3 DEF PageInit, PageTypeOK, FetchRecords, ClaimCounts
<1>4. TeamInv
  BY <1>2 DEF PageInit, TeamInv, FreshIsOwn, Behind, Coming
<1>5. QED
  BY <1>3, <1>4

-----------------------------------------------------------------------------
(* The page: every step keeps PageInv.                                       *)

PageInv == PageTypeOK /\ TeamInv

LEMMA AnswerInv ==
  ASSUME PageInv, NEW f, MeAnswers(f)
  PROVE  PageInv'
<1> DEFINE g == [f EXCEPT !.team = own, !.state = "fresh"]
<1>1. f \in FetchRecords /\ f \in fetches /\ own \in Turns
  BY DEF PageInv, PageTypeOK, MeAnswers, FetchRecords
<1>2. g \in FetchRecords /\ g.state = "fresh" /\ g.team = own
  BY <1>1 DEF FetchRecords, FetchStates
<1>3. fetches' = (fetches \ {f}) \cup {g} /\ f.state = "asked"
  BY DEF MeAnswers
<1> HIDE DEF g
<1>4. UNCHANGED <<backend, feed, team, claims, spoiled, troubles>>
  BY DEF MeAnswers
<1>5. PageTypeOK'
  BY <1>2, <1>3, <1>4 DEF PageInv, PageTypeOK, FetchRecords, backend, feed
<1>6. FreshIsOwn'
  BY <1>2, <1>3, <1>4 DEF PageInv, TeamInv, FreshIsOwn, backend
<1>7. Coming'
  BY <1>2, <1>3 DEF Coming
<1>8. QED
  BY <1>4, <1>5, <1>6, <1>7 DEF PageInv, TeamInv, feed

LEMMA ArriveInv ==
  ASSUME PageInv, NEW f, MeArrives(f)
  PROVE  PageInv'
<1>1. f \in FetchRecords /\ f \in fetches /\ fetches \subseteq FetchRecords
  BY DEF PageInv, PageTypeOK, MeArrives, FetchRecords
<1>2. UNCHANGED <<backend, feed, claims, troubles>> /\ team' = f.team
  BY DEF MeArrives
<1>3. f.team \in Turns
  BY <1>1 DEF FetchRecords
<1>4. CASE f.state = "fresh"
  <2>1. fetches' = Overtaken(fetches \ {f}) /\ spoiled' = FALSE
    BY <1>4 DEF MeArrives
  <2>2. /\ fetches' \subseteq FetchRecords
        /\ \A g \in fetches' : g.state # "stale"
        /\ \A g \in fetches' : g.state = "fresh" => g \in fetches
    BY <1>1, <2>1, OvertakenType
  <2>3. PageTypeOK'
    BY <1>2, <1>3, <2>1, <2>2 DEF PageInv, PageTypeOK, FetchRecords, backend, feed
  <2>4. FreshIsOwn' /\ ~Behind'
    BY <1>1, <1>2, <1>4, <2>2 DEF PageInv, TeamInv, FreshIsOwn, Behind, backend
  <2>5. QED
    BY <1>2, <2>3, <2>4 DEF PageInv, TeamInv, feed
<1>5. CASE f.state # "fresh"
  <2>1. fetches' = fetches \ {f} /\ f.state # "asked"
    BY <1>5 DEF MeArrives
  <2>2. spoiled' = (f.state = "late" \/ spoiled)
    BY <1>5 DEF MeArrives, PageInv, PageTypeOK
  <2>3. PageTypeOK'
    BY <1>2, <1>3, <2>1, <2>2 DEF PageInv, PageTypeOK, FetchRecords, backend, feed
  <2>4. FreshIsOwn'
    BY <1>2, <2>1 DEF PageInv, TeamInv, FreshIsOwn, backend
  <2>5. Coming => Coming'
    BY <1>2, <1>5, <2>1 DEF Coming, backend, feed
  <2>6. spoiled' \/ Coming'
    <3>1. f.state \in {"stale", "late"}
      BY <1>1, <1>5, <2>1 DEF FetchRecords, FetchStates
    <3>2. f.state = "stale" => Behind
      BY <1>1 DEF Behind
    <3>3. QED
      BY <2>2, <2>5, <3>1, <3>2 DEF PageInv, TeamInv
  <2>7. QED
    BY <1>2, <2>3, <2>4, <2>6 DEF PageInv, TeamInv, feed
<1>6. QED
  BY <1>4, <1>5

LEMMA MeetsType ==
  ASSUME PageInv, NEW trouble, Meets(trouble)
  PROVE  troubles' \in 0 .. MaxTroubles
BY BoundsAssumption DEF PageInv, PageTypeOK, Meets

LEMMA FailInv ==
  ASSUME PageInv, NEW f, MeFails(f)
  PROVE  PageInv'
<1>1. troubles' \in 0 .. MaxTroubles
  BY MeetsType DEF MeFails
<1>2. QED
  BY <1>1 DEF MeFails, PageInv, PageTypeOK, TeamInv, FreshIsOwn, backend, feed

LEMMA ElsewhereInv ==
  ASSUME PageInv, OwnChangesElsewhere
  PROVE  PageInv'
<1>1. troubles' \in 0 .. MaxTroubles
  BY MeetsType DEF OwnChangesElsewhere
<1>2. /\ fetches' \subseteq FetchRecords
      /\ \A g \in fetches' : g.state # "fresh"
  BY OutdatedType DEF OwnChangesElsewhere, PageInv, PageTypeOK, FetchRecords
<1>3. QED
  BY <1>1, <1>2
  DEF OwnChangesElsewhere, PageInv, PageTypeOK, FetchRecords, TeamInv, FreshIsOwn, feed

LEMMA ClaimingInv ==
  ASSUME PageInv, Claiming
  PROVE  PageInv'
<1>0. ClaimCounts /\ MaxClaims \in Nat
  BY BoundsAssumption DEF PageInv, PageTypeOK, ClaimCounts
<1>1. CASE Claim \/ ClaimIsRefused
  <2>1. ClaimCounts' /\ claims'["granted"] = claims["granted"]
    BY <1>0, <1>1 DEF Claim, ClaimIsRefused, ClaimCounts
  <2>2. UNCHANGED <<backend, feed, team, fetches, spoiled, troubles>>
    BY <1>1 DEF Claim, ClaimIsRefused
  <2>3. QED
    BY <2>1, <2>2
    DEF PageInv, PageTypeOK, ClaimCounts, TeamInv, FreshIsOwn, Behind, Coming, backend, feed
<1>2. CASE ClaimIsGranted
  <2>1. /\ fetches' \subseteq FetchRecords
        /\ \A g \in fetches' : g.state # "fresh"
    BY <1>2, OutdatedType DEF ClaimIsGranted, PageInv, PageTypeOK, FetchRecords
  <2>2. ClaimCounts' /\ claims'["granted"] # 0
    BY <1>0, <1>2 DEF ClaimIsGranted, ClaimCounts
  <2>3. PageTypeOK'
    BY <1>2, <2>1, <2>2
    DEF ClaimIsGranted, ClaimCounts, PageInv, PageTypeOK, FetchRecords, feed
  <2>4. TeamInv'
    BY <1>2, <2>1, <2>2
    DEF ClaimIsGranted, PageInv, TeamInv, FreshIsOwn, Coming, feed
  <2>5. QED
    BY <2>3, <2>4 DEF PageInv
<1>3. CASE ClaimReturns
  <2>1. /\ fetches' \subseteq FetchRecords
        /\ \E f \in fetches' : f.state = "asked"
        /\ \A f \in fetches' : f \in fetches \/ f.state = "asked"
    BY <1>3, AsksType DEF ClaimReturns, PageInv, PageTypeOK, FetchRecords
  <2>2. ClaimCounts'
    BY <1>0, <1>3 DEF ClaimReturns, ClaimCounts
  <2>3. PageTypeOK'
    BY <1>3, <2>1, <2>2
    DEF ClaimReturns, ClaimCounts, PageInv, PageTypeOK, FetchRecords, backend, feed
  <2>4. TeamInv'
    BY <1>3, <2>1
    DEF ClaimReturns, PageInv, TeamInv, FreshIsOwn, Coming, backend, feed
  <2>5. QED
    BY <2>3, <2>4 DEF PageInv
<1>4. CASE ClaimFails
  <2>1. troubles' \in 0 .. MaxTroubles
    BY <1>4, MeetsType DEF ClaimFails
  <2>2. ClaimCounts'
    BY <1>0, <1>4 DEF ClaimFails, ClaimCounts
  <2>3. spoiled' = TRUE /\ UNCHANGED <<backend, feed, team, fetches>>
    BY <1>4 DEF ClaimFails
  <2>4. PageTypeOK'
    BY <2>1, <2>2, <2>3 DEF PageInv, PageTypeOK, ClaimCounts, backend, feed
  <2>5. TeamInv'
    BY <2>3 DEF PageInv, TeamInv, FreshIsOwn, Behind, backend, feed
  <2>6. QED
    BY <2>4, <2>5 DEF PageInv
<1>5. QED
  BY <1>1, <1>2, <1>3, <1>4 DEF Claiming

\* Some message in the inbox tells of a clear.
News == \E i \in 1 .. Len(inbox) : inbox[i].news

\* A round of the broadcast loop: a clear is told at once, or later.
LEMMA TickInv ==
  ASSUME PageInv, Tick
  PROVE  PageInv'
<1> DEFINE cleared == IsNewGame /\ own # NoTeam
           m == Envelope(untold \/ cleared)
<1>1. /\ own' = IF IsNewGame THEN NoTeam ELSE own
      /\ fetches' = IF cleared THEN Outdated(fetches) ELSE fetches
      /\ untold' = ((untold \/ cleared) /\ ~(stream = "open" /\ online))
      /\ inbox' = IF stream = "open" THEN Append(inbox, m) ELSE inbox
      /\ last' = IF online /\ wa.id # 0 THEN wa.id ELSE last
      /\ UNCHANGED <<wa, online, stream, shown, lastId, told, team, claims, spoiled, troubles>>
  BY DEF Tick
<1>2. /\ untold \in BOOLEAN /\ online \in BOOLEAN /\ inbox \in Seq(Messages)
      /\ fetches \subseteq FetchRecords /\ stream \in {"down", "open"}
      /\ wa.id \in Ids /\ last \in Ids /\ own \in Turns
      /\ stream = "down" => inbox = <<>>
  BY DEF PageInv, PageTypeOK, FetchRecords
<1>3. cleared \in BOOLEAN /\ (cleared => online /\ own' = NoTeam)
  BY <1>1 DEF IsNewGame
<1>4. m \in Messages /\ m.news = ((untold \/ cleared) /\ online)
  BY <1>2, <1>3, EnvelopeType DEF PageInv
<1>5. ~cleared => own' = own /\ fetches' = fetches
  BY <1>1
<1>6. /\ fetches' \subseteq FetchRecords
      /\ cleared => \A g \in fetches' : g.state # "fresh"
  BY <1>1, <1>2, OutdatedType
<1> HIDE DEF cleared, m
<1>7. /\ inbox' \in Seq(Messages)
      /\ News => News'
      /\ stream = "open" => (m.news => News')
  <2>1. CASE stream = "open"
    <3>1. inbox' = Append(inbox, m)
      BY <1>1, <2>1
    <3>2. /\ inbox' \in Seq(Messages) /\ Len(inbox') = Len(inbox) + 1
          /\ inbox'[Len(inbox) + 1] = m
          /\ \A i \in 1 .. Len(inbox) : inbox'[i] = inbox[i]
          /\ Len(inbox) \in Nat
      BY <1>2, <1>4, <3>1
    <3>3. QED
      BY <3>2 DEF News
  <2>2. CASE stream # "open"
    BY <1>1, <1>2, <2>2 DEF News
  <2>3. QED
    BY <2>1, <2>2
<1>8. cleared \/ untold => untold' \/ News'
  BY <1>1, <1>2, <1>3, <1>4, <1>7
<1>9. PageTypeOK'
  <2>1. own' \in Turns /\ last' \in Ids /\ untold' \in BOOLEAN
    BY <1>1, <1>2, <1>3 DEF Turns
  <2>2. stream' = "down" => inbox' = <<>>
    BY <1>1, <1>2
  <2>3. QED
    BY <1>1, <1>6, <1>7, <2>1, <2>2 DEF PageInv, PageTypeOK, FetchRecords
<1>10. TeamInv'
  <2>1. told' = lastId'
    BY <1>1 DEF PageInv, TeamInv
  <2>2. FreshIsOwn'
    BY <1>5, <1>6, <1>3 DEF PageInv, TeamInv, FreshIsOwn
  <2>3. ASSUME Behind' PROVE spoiled' \/ Coming'
    <3>1. CASE cleared
      BY <1>8, <3>1 DEF Coming, News
    <3>2. CASE ~cleared
      <4>1. Behind
        BY <1>1, <1>5, <2>3, <3>2 DEF Behind
      <4>2. CASE spoiled
        BY <1>1, <4>2
      <4>3. CASE Coming
        BY <1>1, <1>5, <1>7, <1>8, <3>2, <4>3 DEF Coming, News
      <4>4. QED
        BY <4>1, <4>2, <4>3 DEF PageInv, TeamInv
    <3>3. QED
      BY <3>1, <3>2
  <2>4. QED
    BY <2>1, <2>2, <2>3 DEF TeamInv
<1>11. QED
  BY <1>9, <1>10 DEF PageInv

LEMMA OpenInv ==
  ASSUME PageInv, StreamOpens
  PROVE  PageInv'
<1>1. inbox = <<>> /\ untold \in BOOLEAN /\ online \in BOOLEAN
  BY DEF StreamOpens, PageInv, PageTypeOK
<1>2. Envelope(untold) \in Messages /\ Envelope(untold).news = (untold /\ online)
  BY <1>1, EnvelopeType DEF PageInv
<1>3. inbox' = <<Envelope(untold)>>
  BY DEF StreamOpens
<1>4. /\ inbox' \in Seq(Messages) /\ Len(inbox') = 1
      /\ inbox'[1] = Envelope(untold)
  BY <1>2, <1>3
<1>5. PageTypeOK'
  BY <1>1, <1>4 DEF StreamOpens, PageInv, PageTypeOK, mine
<1>6. Coming => Coming'
  BY <1>1, <1>2, <1>4 DEF StreamOpens, Coming, mine
<1>7. QED
  BY <1>5, <1>6 DEF StreamOpens, PageInv, TeamInv, FreshIsOwn, Behind, mine

\* What the messages had to tell is told later.
LEMMA LosesNothing ==
  ASSUME PageInv, LosesStream
  PROVE  /\ stream' = "down" /\ inbox' = <<>> /\ inbox' \in Seq(Messages)
         /\ untold' \in BOOLEAN
         /\ untold \/ News => untold'
<1>1. stream' = "down" /\ inbox' = <<>>
  BY DEF LosesStream
<1>2. inbox' \in Seq(Messages)
  BY <1>1
<1>3. untold' = (untold \/ News)
  BY DEF LosesStream, News
<1>4. QED
  BY <1>1, <1>2, <1>3 DEF News

LEMMA DropInv ==
  ASSUME PageInv, StreamDrops
  PROVE  PageInv'
<1>1. troubles' \in 0 .. MaxTroubles
  BY MeetsType DEF StreamDrops
<1>2. /\ stream' = "down" /\ inbox' = <<>> /\ inbox' \in Seq(Messages)
      /\ untold' \in BOOLEAN
      /\ untold \/ News => untold'
  BY LosesNothing DEF StreamDrops
<1>3. UNCHANGED <<wa, online, own, last, shown, lastId, told, mine>>
  BY DEF StreamDrops
<1>4. PageTypeOK'
  BY <1>1, <1>2, <1>3 DEF PageInv, PageTypeOK, mine
<1>5. Coming => Coming'
  BY <1>2, <1>3 DEF Coming, News, mine
<1>6. QED
  BY <1>3, <1>4, <1>5 DEF PageInv, TeamInv, FreshIsOwn, Behind, mine

LEMMA RemountInv ==
  ASSUME PageInv, PageRemounts
  PROVE  PageInv'
<1>1. troubles' \in 0 .. MaxTroubles
  BY MeetsType DEF PageRemounts
<1>2. /\ stream' = "down" /\ inbox' = <<>> /\ inbox' \in Seq(Messages)
      /\ untold' \in BOOLEAN
      /\ untold \/ News => untold'
  BY LosesNothing DEF PageRemounts
<1>3. /\ UNCHANGED <<wa, online, own, last, mine>>
      /\ shown' = NoTeam /\ lastId' = {} /\ told' = {}
  BY DEF PageRemounts
<1>4. PageTypeOK'
  BY <1>1, <1>2, <1>3 DEF PageInv, PageTypeOK, mine, Turns
<1>5. Coming => Coming'
  BY <1>2, <1>3 DEF Coming, News, mine
<1>6. QED
  BY <1>3, <1>4, <1>5 DEF PageInv, TeamInv, FreshIsOwn, Behind, mine

LEMMA MessageInv ==
  ASSUME PageInv, MessageArrives
  PROVE  PageInv'
<1> DEFINE m == Head(inbox)
<1>1. /\ inbox \in Seq(Messages) /\ inbox # <<>> /\ inbox' = Tail(inbox)
      /\ shown' = m.turn
      /\ UNCHANGED <<backend, stream, team, claims, troubles>>
  BY DEF MessageArrives, PageInv, PageTypeOK
<1>2. /\ m \in Messages /\ m = inbox[1]
      /\ inbox' \in Seq(Messages)
      /\ Len(inbox) \in Nat \ {0} /\ Len(inbox') = Len(inbox) - 1
      /\ \A i \in 1 .. Len(inbox) - 1 : inbox'[i] = inbox[i + 1]
  BY <1>1
<1>3. m.id \in Ids /\ m.turn \in Turns /\ m.news \in BOOLEAN
  BY <1>2 DEF Messages
<1>4. News => m.news \/ News'
  <2> SUFFICES ASSUME NEW i \in 1 .. Len(inbox), inbox[i].news, i # 1
               PROVE  News'
    BY <1>2 DEF News
  <2>1. i - 1 \in 1 .. Len(inbox') /\ inbox'[i - 1] = inbox[i]
    BY <1>2
  <2>2. QED
    BY <2>1 DEF News
<1>5. stream' = "down" => inbox' = <<>>
  BY <1>1 DEF PageInv, PageTypeOK
<1>6. CASE m.kind = "offline"
  <2>1. UNCHANGED <<lastId, told, fetches, spoiled>>
    BY <1>6 DEF MessageArrives
  <2>2. PageTypeOK'
    BY <1>1, <1>2, <1>3, <1>5, <2>1 DEF PageInv, PageTypeOK, backend
  <2>3. Coming => Coming'
    BY <1>1, <1>3, <1>4, <1>6, <2>1, <1>2 DEF Coming, News, backend, Messages
  <2>4. QED
    BY <1>1, <2>1, <2>2, <2>3
    DEF PageInv, TeamInv, FreshIsOwn, Behind, backend
<1>7. CASE m.kind # "offline"
  <2>1. /\ lastId' = {m.id} /\ told' = {m.id}
        /\ spoiled' = (spoiled \/ (m.news /\ told \in {{}, {m.id}}))
        /\ IF IdChanges(m.id) THEN Asks(fetches) ELSE UNCHANGED fetches
    BY <1>7 DEF MessageArrives
  <2>2. fetches \subseteq FetchRecords
    BY DEF PageInv, PageTypeOK, FetchRecords
  <2>3. /\ fetches' \subseteq FetchRecords
        /\ \A f \in fetches' : f \in fetches \/ f.state = "asked"
        /\ fetches \subseteq fetches'
        /\ IdChanges(m.id) => \E f \in fetches' : f.state = "asked"
    BY <2>1, <2>2, AsksType
  <2>4. PageTypeOK'
    <3>1. spoiled' \in BOOLEAN
      BY <2>1
    <3>2. QED
      BY <1>1, <1>2, <1>3, <1>5, <2>1, <2>3, <3>1
      DEF PageInv, PageTypeOK, FetchRecords, backend
  <2>5. FreshIsOwn'
    BY <1>1, <2>3 DEF PageInv, TeamInv, FreshIsOwn, backend
  <2>6. Behind' => Behind
    BY <1>1, <2>3 DEF Behind, backend
  <2>7. m.news => spoiled' \/ Coming'
    <3>1. told = lastId /\ lastId \in {{}} \cup {{id} : id \in Ids}
      BY DEF PageInv, PageTypeOK, TeamInv
    <3>2. CASE IdChanges(m.id)
      BY <2>3, <3>2 DEF Coming
    <3>3. CASE ~IdChanges(m.id) /\ m.news
      <4>1. lastId = {} \/ m.id \in lastId
        BY <3>3 DEF IdChanges
      <4>2. lastId \in {{}, {m.id}}
        BY <3>1, <4>1
      <4>3. QED
        BY <2>1, <3>1, <3>3, <4>2
    <3>4. QED
      BY <3>2, <3>3
  <2>8. Coming => m.news \/ Coming'
    BY <1>1, <1>4, <2>3 DEF Coming, News, backend
  <2>9. spoiled => spoiled'
    BY <2>1
  <2>10. QED
    BY <2>1, <2>4, <2>5, <2>6, <2>7, <2>8, <2>9 DEF PageInv, TeamInv
<1>8. QED
  BY <1>6, <1>7

LEMMA GameInv ==
  ASSUME PageInv, Game
  PROVE  PageInv'
<1>1. UNCHANGED <<own, last, untold, feed, mine>>
  BY DEF Game, NewGame, TurnChanges, WaRestarts, LinkComes, LinkGoes
<1>2. troubles' \in 0 .. MaxTroubles
  BY MeetsType
  DEF Game, NewGame, TurnChanges, WaRestarts, LinkComes, LinkGoes, PageInv, PageTypeOK
<1>3. wa' \in [id : Ids, turn : Turns] /\ online' \in BOOLEAN
  <2>1. wa \in [id : Ids, turn : Turns] /\ online \in BOOLEAN
    BY DEF PageInv, PageTypeOK
  <2>2. CASE NewGame
    BY <2>1, <2>2, BoundsAssumption DEF NewGame, Ids, Turns
  <2>3. CASE TurnChanges
    BY <2>1, <2>3 DEF TurnChanges
  <2>4. CASE WaRestarts
    BY <2>1, <2>4, BoundsAssumption DEF WaRestarts, Ids, Turns
  <2>5. CASE LinkComes \/ LinkGoes
    BY <2>1, <2>5 DEF LinkComes, LinkGoes
  <2>6. QED
    BY <2>2, <2>3, <2>4, <2>5 DEF Game
<1>4. PageTypeOK'
  BY <1>1, <1>2, <1>3 DEF PageInv, PageTypeOK, feed, mine
<1>5. TeamInv'
  BY <1>1 DEF PageInv, TeamInv, FreshIsOwn, Behind, Coming, feed, mine
<1>6. QED
  BY <1>4, <1>5 DEF PageInv

LEMMA PageStepInv ==
  ASSUME PageInv, [PageSteps \/ PageRemounts]_pageVars
  PROVE  PageInv'
<1>1. CASE Fetching
  BY <1>1, AnswerInv, ArriveInv, FailInv, ElsewhereInv DEF Fetching, FetchSteps
<1>2. CASE Feeding
  BY <1>2, TickInv, OpenInv, DropInv, MessageInv DEF Feeding
<1>3. CASE UNCHANGED pageVars
  BY <1>3
  DEF pageVars, backend, feed, mine, PageInv, PageTypeOK, TeamInv, FreshIsOwn,
      Behind, Coming
<1>4. QED
  BY <1>1, <1>2, <1>3, ClaimingInv, GameInv, RemountInv DEF PageSteps

-----------------------------------------------------------------------------
(* The theorems about what the page knows.                                   *)

(* The page, its fetches, its stream and the parts of the backend it talks   *)
(* to keep their types.                                                      *)
THEOREM PageTypeCorrect == PageSpec => []PageTypeOK
<1>1. PageInit => PageInv
  BY PageInitType DEF PageInv
<1>2. PageInv /\ [PageSteps \/ PageRemounts]_pageVars => PageInv'
  BY PageStepInv
<1>3. PageInv => PageTypeOK
  BY DEF PageInv
<1>4. QED
  BY <1>1, <1>2, <1>3, PTL DEF PageSpec

(* A settled page shows the team the table has, unless one of the named      *)
(* troubles came between: useGameState.ts and refreshMe() of App.tsx lose no *)
(* other change.                                                             *)
THEOREM WrongTeamIsExplained == PageSpec => []MyTeamExplained
<1>1. PageInit => PageInv
  BY PageInitType DEF PageInv
<1>2. PageInv /\ [PageSteps \/ PageRemounts]_pageVars => PageInv'
  BY PageStepInv
<1>3. PageInv => MyTeamExplained
  <2> SUFFICES ASSUME PageInv, Settled, team # own
               PROVE  spoiled
    BY DEF MyTeamExplained
  <2>1. Behind
    BY DEF Behind
  <2>2. ~Coming
    BY DEF Coming, Settled
  <2>3. QED
    BY <2>1, <2>2 DEF PageInv, TeamInv
<1>4. QED
  BY <1>1, <1>2, <1>3, PTL DEF PageSpec

-----------------------------------------------------------------------------
(* The pad.                                                                  *)

PadTypeOK ==
  /\ socket \in {"connecting", "open", "closed"}
  /\ rendered \in BOOLEAN
  /\ held \subseteq Buttons
  /\ far \subseteq Buttons
  /\ socket # "open" => far = {}

LEMMA PadStepInv ==
  ASSUME PageInv, PadSteps
  PROVE  PageInv'
<1>1. CASE UNCHANGED pageVars
  BY <1>1, PageStepInv
<1>2. CASE SocketCloses
  <2>1. troubles' \in 0 .. MaxTroubles
    BY <1>2, MeetsType DEF SocketCloses
  <2>2. UNCHANGED <<backend, feed, mine>>
    BY <1>2 DEF SocketCloses
  <2>3. QED
    BY <2>1, <2>2
    DEF backend, feed, mine, PageInv, PageTypeOK, TeamInv, FreshIsOwn, Behind, Coming
<1>3. QED
  BY <1>1, <1>2 DEF PadSteps, Press, Release, Commit, ReleaseAll, SocketOpens

PadInv == PadTypeOK /\ NothingStuck

LEMMA PadKeepsInv ==
  ASSUME PadInv, [Next]_vars
  PROVE  PadInv'
<1>1. CASE \E b \in Buttons : Press(b)
  BY <1>1 DEF Press, PadInv, PadTypeOK, NothingStuck
<1>2. CASE \E b \in Buttons : Release(b)
  BY <1>2 DEF Release, LeftAfterRelease, PadInv, PadTypeOK, NothingStuck
<1>3. CASE Commit \/ ReleaseAll
  BY <1>3
  DEF Commit, IsMyTurn, ReleaseAll, LeftAfterRelease, PadInv, PadTypeOK, NothingStuck
<1>4. CASE SocketOpens \/ SocketCloses
  BY <1>4 DEF SocketOpens, SocketCloses, PadInv, PadTypeOK, NothingStuck
<1>5. CASE Remount
  BY <1>5 DEF Remount, PadInv, PadTypeOK, NothingStuck
<1>6. CASE UNCHANGED <<socket, rendered, held, far>>
  BY <1>6 DEF PadInv, PadTypeOK, NothingStuck
<1>7. QED
  BY <1>1, <1>2, <1>3, <1>4, <1>5, <1>6 DEF Next, PadSteps, vars

-----------------------------------------------------------------------------
(* The theorems about the pad.                                               *)

(* What the page knows and its pad keep their types.                         *)
THEOREM TypeCorrect == Spec => []TypeOK
<1>1. Init => PageInv /\ PadInv
  BY PageInitType DEF Init, PageInv, PadInv, PadTypeOK, NothingStuck
<1>2. PageInv /\ PadInv /\ [Next]_vars => PageInv' /\ PadInv'
  <2> SUFFICES ASSUME PageInv, PadInv, [Next]_vars
               PROVE  PageInv'
    BY PadKeepsInv
  <2>1. CASE PadSteps
    BY <2>1, PadStepInv
  <2>2. CASE PageSteps \/ Remount \/ UNCHANGED pageVars
    BY <2>2, PageStepInv DEF Remount
  <2>3. QED
    BY <2>1, <2>2 DEF Next, vars
<1>3. PageInv /\ PadInv => TypeOK
  BY DEF PageInv, PadInv, PadTypeOK, TypeOK
<1>4. QED
  BY <1>1, <1>2, <1>3, PTL DEF Spec

(* No input is stuck on at the backend, however turns, stream, socket,       *)
(* commits, their effects and pointers interleave.                           *)
THEOREM NoInputIsStuck == Spec => []NothingStuck
<1>1. Init => PadInv
  BY DEF Init, PadInv, PadTypeOK, NothingStuck
<1>2. PadInv /\ [Next]_vars => PadInv'
  BY PadKeepsInv
<1>3. PadInv => NothingStuck
  BY DEF PadInv
<1>4. QED
  BY <1>1, <1>2, <1>3, PTL DEF Spec
=============================================================================
