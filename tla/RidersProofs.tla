---------------------------- MODULE RidersProofs ----------------------------
(***************************************************************************)
(* Theorems about Riders, for any trips and drivers, any limits and any    *)
(* number of crashes and deaths: dispatch, reading what passenger-service  *)
(* sends, does what Dispatch says of it alone, but for the trips that a    *)
(* passenger-service started again asks for once more.                     *)
(***************************************************************************)
EXTENDS Riders, DispatchProofs

-----------------------------------------------------------------------------
(* Alone's words are Dispatch's, but for rows. *)

Seen == [t \in Trips |-> IF t \in Sent THEN rows[t] ELSE NoRow]

LEMMA SameStatuses ==
    /\ Alone!Finished = Finished /\ Alone!Stages = Stages /\ Alone!Milestones = Milestones
    /\ \A s : Alone!NextStatuses(s) = NextStatuses(s)
    /\ \A p, s : Alone!Stamp(p, s) = Stamp(p, s) /\ Alone!ReasonFor(p, s) = ReasonFor(p, s)
    /\ Alone!NoKey = NoKey /\ Alone!Idle = Idle /\ Alone!NoRow = NoRow
  BY DEF Alone!Finished, Finished, Alone!Stages, Stages, Alone!Milestones, Milestones,
     Alone!NextStatuses, NextStatuses, Alone!Stamp, Stamp, Alone!ReasonFor, ReasonFor,
     Alone!NoKey, NoKey, Alone!Idle, Idle, Alone!NoRow, NoRow

LEMMA SameChains ==
    /\ \A os : Alone!Accepts(os) = Accepts(os) /\ Alone!Winner(os) = Winner(os)
    /\ \A old, new : Alone!Kept(old, new) = Kept(old, new)
    /\ \A free : Alone!Chains(free) = Chains(free)
    /\ Alone!Moving = Moving
  <1>1. \A os : Alone!Accepts(os) = Accepts(os)
    BY DEF Accepts, Alone!Accepts
  <1>2. \A os : Alone!Winner(os) = Winner(os)
    BY <1>1 DEF Winner, Alone!Winner
  <1>3. Alone!Offer = Offer
    BY DEF Offer, Alone!Offer
  <1>4. \A free : Alone!Chains(free) = Chains(free)
    BY <1>1, <1>3 DEF Chains, Alone!Chains
  <1>5. \A old, new : Alone!Kept(old, new) = Kept(old, new)
    BY DEF Kept, Alone!Kept
  <1>6. Alone!Moving = Moving
    BY SameStatuses DEF Moving, Alone!Moving
  <1> QED BY <1>1, <1>2, <1>4, <1>5, <1>6

LEMMA SeenKept == ASSUME UNCHANGED <<requests, rows>> PROVE Seen' = Seen
  BY DEF Seen, Sent

\* Every step of dispatch that leaves the rows alone is one of Alone's.
LEMMA AnswersMap ==
    ASSUME Seen' = Seen,
           \/ CheckStored \/ SearchFails \/ SearchOffers \/ RecordOffers \/ AnnounceOffers
           \/ TellNoDriver \/ HideDriver \/ KeepMatch \/ TellMatch \/ Commit
    PROVE  Alone!Answer
  <1> USE SameStatuses, SameChains
      DEF Alone!Answer, Seen, kafka, store, redis, inHand, Alone!kafka, Alone!store, Alone!redis,
          Alone!inHand, otherKafka, Alone!otherKafka, Announce, Alone!Announce
  <1>1. CASE CheckStored \/ SearchFails
    BY <1>1 DEF CheckStored, SearchFails, Alone!CheckStored, Alone!SearchFails
  <1>2. CASE SearchOffers
    BY <1>2 DEF SearchOffers, Alone!SearchOffers
  <1>3. CASE RecordOffers
    BY <1>3 DEF RecordOffers, Alone!RecordOffers
  <1>4. CASE AnnounceOffers
    BY <1>4 DEF AnnounceOffers, Alone!AnnounceOffers
  <1>5. CASE TellNoDriver
    BY <1>5 DEF TellNoDriver, Alone!TellNoDriver
  <1>6. CASE HideDriver
    BY <1>6 DEF HideDriver, Alone!HideDriver
  <1>7. CASE KeepMatch
    BY <1>7 DEF KeepMatch, Alone!KeepMatch
  <1>8. CASE TellMatch
    BY <1>8 DEF TellMatch, Alone!TellMatch
  <1>9. CASE Commit
    BY <1>9 DEF Commit, Alone!Commit
  <1> QED BY <1>1, <1>2, <1>3, <1>4, <1>5, <1>6, <1>7, <1>8, <1>9

LEMMA MovesMap ==
    ASSUME Seen' = Seen, Poll \/ StopPolling \/ (\E t \in Trips : Advance(t)) \/ Keep \/ Tell
                         \/ Rate \/ Forget \/ NextTick
    PROVE  Alone!Step
  <1> USE SameStatuses, SameChains
      DEF Alone!Step, Alone!Move, Seen, kafka, store, redis, inHand, Alone!kafka, Alone!store,
          Alone!redis, Alone!inHand, otherKafka, Alone!otherKafka, Announce, Alone!Announce
  <1>1. CASE Poll \/ StopPolling
    BY <1>1 DEF Poll, StopPolling, Alone!Poll, Alone!StopPolling
  <1>2. CASE \E t \in Trips : Advance(t)
    BY <1>2 DEF Advance, Alone!Advance
  <1>3. CASE Keep
    BY <1>3 DEF Keep, Alone!Keep
  <1>4. CASE Tell
    BY <1>4 DEF Tell, Alone!Tell
  <1>5. CASE Rate
    BY <1>5 DEF Rate, Alone!Rate
  <1>6. CASE Forget
    BY <1>6 DEF Forget, Alone!Forget
  <1>7. CASE NextTick
    BY <1>7 DEF NextTick, Alone!NextTick
  <1> QED BY <1>1, <1>2, <1>3, <1>4, <1>5, <1>6, <1>7

LEMMA SurroundingsMap ==
    ASSUME Seen' = Seen,
           \/ \E t \in Trips : BecomeDue(t) \/ Deliver(t) \/ Expire(t)
           \/ \E d \in Drivers : ReportFree(d) \/ ReportBusy(d)
    PROVE  Alone!Surroundings
  <1> USE SameStatuses, SameChains
      DEF Alone!Surroundings, Seen, kafka, store, redis, memory, Alone!kafka, Alone!store,
          Alone!redis, Alone!memory
  <1>1. CASE \E t \in Trips : BecomeDue(t)
    BY <1>1 DEF BecomeDue, Alone!BecomeDue
  <1>2. CASE \E t \in Trips : Deliver(t)
    BY <1>2 DEF Deliver, Alone!Deliver
  <1>3. CASE \E t \in Trips : Expire(t)
    BY <1>3 DEF Expire, Alone!Expire
  <1>4. CASE \E d \in Drivers : ReportFree(d) \/ ReportBusy(d)
    BY <1>4 DEF ReportFree, ReportBusy, Alone!ReportFree, Alone!ReportBusy
  <1> QED BY <1>1, <1>2, <1>3, <1>4

LEMMA CrashMaps == ASSUME Seen' = Seen, Crash PROVE Alone!Crash
  BY SameStatuses DEF Crash, Alone!Crash, Restart, Alone!Restart, Seen,
     store, redis, Alone!store, Alone!redis

\* What dispatch writes of a trip whose request was sent, Alone writes.
LEMMA WritesMap ==
    ASSUME rows \in [Trips -> Row \cup {NoRow}], requests' = requests, cur \in Trips, cur \in Sent
    PROVE  /\ Write => Alone!Write
           /\ WriteNoDriver => Alone!WriteNoDriver
           /\ Assign => Alone!Assign
  <1>1. \A r, st : Alone!UpdateStatus(r, st) = UpdateStatus(r, st)
    BY SameStatuses DEF UpdateStatus, Alone!UpdateStatus
  <1>2. Seen[cur] = rows[cur]
    BY DEF Seen
  <1>3. ASSUME NEW r, rows' = Updated(cur, r)
        PROVE  Seen' = IF Seen[cur] = NoRow THEN Seen ELSE [Seen EXCEPT ![cur] = r]
    BY <1>2, <1>3 DEF Seen, Sent, Updated
  <1>4. \A r : Alone!Updated(cur, r) = IF Seen[cur] = NoRow THEN Seen ELSE [Seen EXCEPT ![cur] = r]
    BY SameStatuses DEF Alone!Updated, Seen
  <1>5. ASSUME NEW r, rows' = Updated(cur, r)
        PROVE  [t \in Trips |-> IF t \in Sent THEN rows[t] ELSE NoRow]' = Alone!Updated(cur, r)
    BY <1>3, <1>4, <1>5 DEF Seen
  <1>6. [t \in Trips |-> IF t \in Sent THEN rows[t] ELSE NoRow][cur] = rows[cur]
    BY <1>2 DEF Seen
  <1>7. ASSUME Write PROVE Alone!Write
    <2>1. rows' = Updated(cur, UpdateStatus(rows[cur], active[cur].status))
      BY <1>7 DEF Write
    <2>2. [t \in Trips |-> IF t \in Sent THEN rows[t] ELSE NoRow]'
            = Alone!Updated(cur, UpdateStatus(rows[cur], active[cur].status))
      BY <2>1, <1>5
    <2> QED BY <1>1, <1>6, <1>7, <2>2, SameStatuses
            DEF Write, Alone!Write, kafka, redis, Alone!kafka, Alone!redis
  <1>8. ASSUME WriteNoDriver PROVE Alone!WriteNoDriver
    <2>1. rows' = Updated(cur, UpdateStatus(rows[cur], "no_driver_found"))
      BY <1>8 DEF WriteNoDriver
    <2>2. [t \in Trips |-> IF t \in Sent THEN rows[t] ELSE NoRow]'
            = Alone!Updated(cur, UpdateStatus(rows[cur], "no_driver_found"))
      BY <2>1, <1>5
    <2> QED BY <1>1, <1>6, <1>8, <2>2
            DEF WriteNoDriver, Alone!WriteNoDriver, kafka, redis, inHand,
                Alone!kafka, Alone!redis, Alone!inHand
  <1>9. ASSUME Assign PROVE Alone!Assign
    <2>1. rows' = Updated(cur, [rows[cur] EXCEPT !.status = "matched", !.driver = Winner(chain)])
      BY <1>9 DEF Assign
    <2>2. [t \in Trips |-> IF t \in Sent THEN rows[t] ELSE NoRow]'
            = Alone!Updated(cur, [rows[cur] EXCEPT !.status = "matched", !.driver = Winner(chain)])
      BY <2>1, <1>5
    <2> QED BY <1>6, <1>9, <2>2, SameChains
            DEF Assign, Alone!Assign, kafka, redis, inHand,
                Alone!kafka, Alone!redis, Alone!inHand
  <1> QED BY <1>7, <1>8, <1>9

-----------------------------------------------------------------------------
(* What dispatch's proofs stand on holds with the rows as they are,        *)
(* whether their requests were sent or not, and sent how often.            *)

\* Passenger-service's part: a trip it has not yet sent has just its row, and
\* its first life asks for nothing twice.
RowsFirst ==
    /\ asked \subseteq Trips /\ minted \subseteq Trips /\ asked \subseteq minted /\ deaths \in Nat
    /\ \A t \in Trips \ Sent : rows[t] \in {NoRow, Pax!Requested}
    /\ \A t \in asked : rows[t] # NoRow
    /\ deaths = 0 => Sent \subseteq minted /\ asked \cap Sent = {}

\* Dispatch's part: it moves along only trips it was asked for.
MovedWasSent == \A t \in Moving : t \in Sent

Standing == TypeOK /\ InHand /\ NextInLine /\ AnswerOnRecord /\ MovedWasSent /\ RowsFirst

\* As long as every request is the first of its trip, all of Sound is there.
FirstLife == deaths = 0 => Sound

LEMMA SentIsRequested ==
    ASSUME TypeOK
    PROVE  DOMAIN requests = 1..Len(requests) /\ Len(requests) \in Nat
  BY LenProperties DEF TypeOK

\* Dispatch has in hand only trips it read of.
LEMMA HandIsSent ==
    ASSUME Standing
    PROVE  /\ pc \in Answering \cup MovingOn => cur \in Trips /\ cur \in Sent
           /\ \A i \in 1..committed : i \in 1..Len(requests) /\ requests[i] \in Sent
           /\ \A t \in Sent : t \in Trips /\ rows[t] \in Row
  <1>1. DOMAIN requests = 1..Len(requests) /\ Len(requests) \in Nat
    BY SentIsRequested DEF Standing
  <1>2. /\ committed \in Nat /\ committed <= Len(requests)
        /\ \A i \in 1..Len(requests) : requests[i] \in Trips
        /\ pc \in Answering => position \in 1..Len(requests)
    BY OffsetBounds DEF Standing
  <1>3. \A i \in 1..committed : i \in 1..Len(requests)
    BY <1>1, <1>2
  <1>4. \A i \in 1..committed : requests[i] \in Sent
    BY <1>1, <1>3 DEF Sent
  <1>5. pc \in Answering => cur \in Trips /\ cur \in Sent
    BY <1>1, <1>2 DEF Standing, InHand, NextInLine, Sent
  <1>6. pc \in MovingOn => cur \in Trips /\ cur \in Sent
    BY DEF Standing, MovedWasSent, InHand, Moving
  <1>7. ASSUME NEW i \in 1..Len(requests) PROVE requests[i] \in Trips /\ rows[requests[i]] \in Row
    <2>1. requests[i] \in Trips /\ rows[requests[i]] \in Row \cup {NoRow}
          /\ rows[requests[i]].status \in Statuses
      BY <1>2 DEF Standing, TypeOK, NextInLine
    <2> QED BY <2>1, NoRowStatus
  <1> QED BY <1>1, <1>3, <1>4, <1>5, <1>6, <1>7 DEF Sent

LEMMA StandingIsSound == Standing /\ Copies => Sound
  BY DEF Standing, Sound

\* Rows that nobody knows of yet are nothing to dispatch.
LEMMA RowsAreNothing ==
    ASSUME Standing, rows' \in [Trips -> Row \cup {NoRow}],
           \A t \in Sent : rows'[t] = rows[t],
           UNCHANGED <<kafka, offers, rated, redis, memory, crashes>>
    PROVE  /\ TypeOK' /\ InHand' /\ NextInLine' /\ AnswerOnRecord' /\ MovedWasSent'
           /\ Copies => Copies'
  <1>1. /\ pc \in Answering \cup MovingOn => cur \in Sent
        /\ \A t \in Moving : t \in Sent
        /\ \A i \in 1..committed : requests[i] \in Sent
        /\ \A i \in 1..Len(requests) : requests[i] \in Sent
    BY HandIsSent, SentIsRequested DEF Sent, Standing, MovedWasSent
  <1> USE DEF kafka, redis, memory
  <1>2. TypeOK' /\ InHand'
    BY DEF Standing, TypeOK, InHand, Moving
  <1>3. NextInLine' /\ AnswerOnRecord'
    <2>1. NextInLine'
      BY <1>1 DEF Standing, NextInLine
    <2>2. pc \in Matching \ {"assign"} => rows'[cur] = rows[cur]
      BY <1>1 DEF Matching, Answering
    <2>3. pc = "commit" => rows'[cur] = rows[cur]
      BY <1>1 DEF Answering
    <2>4. \A i \in 1..committed : rows'[requests[i]] = rows[requests[i]]
      BY <1>1
    <2> QED BY <2>1, <2>2, <2>3, <2>4 DEF Standing, AnswerOnRecord, Decided, CommittedMeansDecided
  <1>8. MovedWasSent'
    BY <1>1 DEF MovedWasSent, Moving, Sent
  <1>4. ASSUME Copies PROVE AskedOnce' /\ ChainInHand'
    BY <1>4 DEF Copies, AskedOnce, ChainInHand, Moving, Answered
  <1>5. ASSUME Copies PROVE MatchInHand'
    <2>1. Matched => rows'[cur] = rows[cur]
      BY <1>1 DEF Matched, Answering
    <2> QED BY <1>5, <2>1 DEF Copies, MatchInHand, Matched, Told
  <1>6. ASSUME Copies PROVE MoveInHand'
    <2>1. pc \in MovingOn => rows'[cur] = rows[cur]
      BY <1>1
    <2>2. MoveInHand
      BY <1>6 DEF Copies
    <2> QED BY <2>1, <2>2 DEF MoveInHand, MovingOn, Shown, Told
  <1>7. ASSUME Copies PROVE Settled'
    <2>1. \A t \in Moving : rows'[t] = rows[t]
      BY <1>1
    <2>2. ASSUME NEW t \in Moving, Agrees(t) PROVE Agrees(t)'
      BY <2>1, <2>2 DEF Agrees, Shown, Told
    <2> QED BY <1>7, <2>2 DEF Copies, Settled, Moving
  <1> QED BY <1>2, <1>3, <1>4, <1>5, <1>6, <1>7, <1>8 DEF Copies

\* A request delivered, the first of its trip or another.
LEMMA RequestSent ==
    ASSUME TypeOK, NextInLine, NEW t \in Trips, requests' = Append(requests, t)
    PROVE  /\ requests' \in Seq(Trips) /\ Len(requests') = Len(requests) + 1
           /\ Len(requests) \in Nat /\ committed \in Nat /\ committed <= Len(requests)
           /\ DOMAIN requests = 1..Len(requests) /\ DOMAIN requests' = 1..(Len(requests) + 1)
           /\ \A i \in 1..Len(requests) : requests'[i] = requests[i]
           /\ requests'[Len(requests) + 1] = t
           /\ Sent' = Sent \cup {t}
           /\ \A i \in 1..committed : requests'[i] = requests[i]
  <1>1. /\ requests \in Seq(Trips) /\ Len(requests) \in Nat /\ DOMAIN requests = 1..Len(requests)
        /\ committed <= Len(requests) /\ committed \in Nat
    BY SentIsRequested, OffsetBounds DEF TypeOK
  <1>2. /\ requests' \in Seq(Trips) /\ Len(requests') = Len(requests) + 1
        /\ \A i \in 1..Len(requests) : requests'[i] = requests[i]
        /\ requests'[Len(requests) + 1] = t /\ DOMAIN requests' = 1..(Len(requests) + 1)
    BY <1>1, AppendProperties, LenProperties
  <1>3. Sent' = Sent \cup {t}
    BY <1>1, <1>2 DEF Sent
  <1> QED BY <1>1, <1>2, <1>3

LEMMA AskingIsRequest ==
    ASSUME Standing, NEW t \in asked, requests' = Append(requests, t),
           UNCHANGED <<committed, topic, outbox, offerLog, offerSafe, store, redis, memory, crashes>>
    PROVE  /\ TypeOK' /\ InHand' /\ NextInLine' /\ AnswerOnRecord' /\ MovedWasSent'
           /\ Sent' = Sent \cup {t}
           /\ t \notin Sent /\ Copies => Copies'
  <1> USE DEF store, redis, memory
  <1>0. t \in Trips
    BY DEF Standing, RowsFirst
  <1>1. /\ requests' \in Seq(Trips) /\ Len(requests') = Len(requests) + 1
        /\ Len(requests) \in Nat /\ committed \in Nat /\ committed <= Len(requests)
        /\ DOMAIN requests = 1..Len(requests) /\ DOMAIN requests' = 1..(Len(requests) + 1)
        /\ \A i \in 1..Len(requests) : requests'[i] = requests[i]
        /\ requests'[Len(requests) + 1] = t
        /\ Sent' = Sent \cup {t}
        /\ \A i \in 1..committed : requests'[i] = requests[i]
    BY <1>0, RequestSent DEF Standing
  <1>2. pc \in Answering => position \in 1..Len(requests)
    BY OffsetBounds DEF Standing
  <1>5. TypeOK' /\ InHand'
    BY <1>1 DEF Standing, TypeOK, InHand, Moving
  <1>6. NextInLine'
    <2>1. rows[t].status \in Statuses
      <3>1. CASE t \in Sent
        BY <3>1, HandIsSent DEF Row
      <3>2. CASE t \notin Sent
        BY <1>0, <3>2 DEF Standing, RowsFirst, Pax!Requested, Statuses
      <3> QED BY <3>1, <3>2
    <2>2. \A i \in 1..Len(requests') : rows[requests'[i]].status \in Statuses
      BY <1>1, <2>1 DEF Standing, NextInLine
    <2>3. position \in Nat /\ position <= Len(requests')
      BY <1>1 DEF Standing, NextInLine, TypeOK
    <2> QED BY <1>1, <1>2, <2>2, <2>3 DEF Standing, NextInLine
  <1>8. AnswerOnRecord'
    BY <1>1 DEF Standing, AnswerOnRecord, Decided, CommittedMeansDecided
  <1>7. MovedWasSent'
    BY <1>1 DEF Standing, MovedWasSent, Moving
  <1>9. ASSUME Copies, t \notin Sent PROVE AskedOnce'
    <2>1. \A u : Answered(u) => Answered(u)'
      BY <1>1 DEF Answered
    <2>2. \A u \in Moving : Answered(u)'
      BY <1>9, <2>1 DEF Copies, AskedOnce
    <2>3. Moving' = Moving
      BY DEF Moving
    <2>4. \A i \in 1..Len(requests) : requests[i] # t
      BY <1>1, <1>9 DEF Sent
    <2>5. ASSUME NEW i \in 1..Len(requests'), NEW j \in 1..Len(requests'), requests'[i] = requests'[j]
          PROVE  i = j
      BY <1>1, <1>9, <2>4, <2>5 DEF Copies, AskedOnce
    <2> QED BY <2>2, <2>3, <2>5 DEF AskedOnce
  <1>10. ASSUME Copies PROVE ChainInHand' /\ MatchInHand'
    BY <1>10 DEF Copies, ChainInHand, MatchInHand, Matched, Told
  <1>11. ASSUME Copies PROVE MoveInHand' /\ Settled'
    <2>1. MoveInHand'
      BY <1>11 DEF Copies, MoveInHand, MovingOn, Shown, Told
    <2>2. \A u \in Moving : Agrees(u) => Agrees(u)'
      BY DEF Agrees, Shown, Told
    <2> QED BY <1>11, <2>1, <2>2 DEF Copies, Settled, Moving
  <1> QED BY <1>1, <1>5, <1>6, <1>7, <1>8, <1>9, <1>10, <1>11 DEF Copies

-----------------------------------------------------------------------------
(* The steps. *)

\* What passenger-service leaves alone.
LEMMA PaxSteps ==
    ASSUME PaxStep \/ PaxDies
    PROVE  /\ UNCHANGED <<kafka, offers, rated, redis, memory, crashes>>
           /\ \/ Pax!AskForRides
              \/ PaxDies /\ rows' = rows /\ minted' = {} /\ asked' = {} /\ deaths' = deaths + 1
              \/ UNCHANGED <<rows, minted, asked, deaths>>
  <1>1. CASE PaxStep /\ Pax!AskForRides
    BY <1>1 DEF PaxStep, Pax!AskForRides, dispatchOnly, kafka, redis, memory
  <1>3. CASE PaxStep /\ ~Pax!AskForRides
    BY <1>3 DEF PaxStep, Pax!Step, Pax!StopReading, Pax!EndTick, Pax!ReadNews,
       Pax!ReportPosition, dispatchOnly, kafka, redis, memory
  <1>2. CASE PaxDies
    BY <1>2 DEF PaxDies, Pax!Die, dispatchOnly, kafka, redis, memory
  <1> QED BY <1>1, <1>2, <1>3

\* New rows are of trips nobody knew of.
LEMMA AskingForRides ==
    ASSUME Standing, Pax!AskForRides, requests' = requests
    PROVE  /\ rows' \in [Trips -> Row \cup {NoRow}] /\ \A t \in Sent : rows'[t] = rows[t]
           /\ deaths' = deaths /\ RowsFirst'
  <1>1. PICK new \in SUBSET (Trips \ minted) :
          /\ rows' = [t \in Trips |-> IF t \in new /\ rows[t] = NoRow THEN Pax!Requested ELSE rows[t]]
          /\ asked' = asked \cup new /\ minted' = minted \cup new
    BY DEF Pax!AskForRides, Pax!NoRow, NoRow
  <1>2. Pax!Requested \in Row /\ Pax!Requested # NoRow /\ deaths' = deaths
    <2>1. Pax!Requested \in Row /\ Pax!Requested.status = "requested" /\ "requested" \in Statuses
      BY DEF Pax!Requested, Row, Statuses
    <2>2. Pax!Requested # NoRow
      BY <2>1, NoRowStatus
    <2> QED BY <2>1, <2>2 DEF Pax!AskForRides
  <1>3. \A t \in Sent : t \in Trips /\ rows[t] # NoRow
    BY HandIsSent, NoRowStatus DEF Row
  <1>4. rows' \in [Trips -> Row \cup {NoRow}]
    BY <1>1, <1>2 DEF Standing, TypeOK
  <1>5. Sent' = Sent
    BY DEF Sent
  <1>6. \A t \in Sent : rows'[t] = rows[t]
    BY <1>1, <1>3
  <1>7. \A t \in Trips \ Sent : rows'[t] \in {NoRow, Pax!Requested}
    BY <1>1 DEF Standing, RowsFirst
  <1>8. \A t \in asked \cup new : rows'[t] # NoRow
    BY <1>1, <1>2 DEF Standing, RowsFirst
  <1>9. deaths = 0 => Sent \subseteq minted \cup new /\ (asked \cup new) \cap Sent = {}
    BY <1>1 DEF Standing, RowsFirst
  <1>10. /\ asked \cup new \subseteq Trips /\ minted \cup new \subseteq Trips
         /\ asked \cup new \subseteq minted \cup new /\ deaths \in Nat
    BY <1>1 DEF Standing, RowsFirst
  <1> QED BY <1>1, <1>2, <1>4, <1>5, <1>6, <1>7, <1>8, <1>9, <1>10 DEF RowsFirst

\* Dispatch writes only rows whose requests were sent, and moves along only
\* trips whose requests it read.
LEMMA DispatchWrites ==
    ASSUME Standing, Step \/ Crash
    PROVE  /\ requests' = requests
           /\ UNCHANGED rows \/ Write \/ WriteNoDriver \/ Assign
           /\ \A t \in Trips \ Sent : rows'[t] = rows[t]
           /\ MovedWasSent'
  <1>1. requests' = requests
    BY DEF Step, Crash, Poll, StopPolling, Answer, CheckStored, SearchFails, SearchOffers, RecordOffers,
       AnnounceOffers, TellNoDriver, WriteNoDriver, Assign, HideDriver, KeepMatch, TellMatch, Commit,
       Move, Advance, Keep, Tell, Write, Rate, Forget, NextTick, kafka, otherKafka
  <1>2. UNCHANGED rows \/ Write \/ WriteNoDriver \/ Assign
    BY DEF Step, Crash, Poll, StopPolling, Answer, CheckStored, SearchFails, SearchOffers, RecordOffers,
       AnnounceOffers, TellNoDriver, HideDriver, KeepMatch, TellMatch, Commit,
       Move, Advance, Keep, Tell, Rate, Forget, NextTick, store
  <1>3. ASSUME Write \/ WriteNoDriver \/ Assign
        PROVE  cur \in Sent /\ cur \in Trips /\ \E r : rows' = Updated(cur, r)
    BY <1>3, HandIsSent DEF Write, WriteNoDriver, Assign, Answering, MovingOn
  <1>4. rows \in [Trips -> Row \cup {NoRow}] /\ active \in [Trips -> ActiveTrip \cup {Idle}]
    BY DEF Standing, TypeOK
  <1>5. \A t \in Trips \ Sent : rows'[t] = rows[t]
    BY <1>2, <1>3, <1>4 DEF Updated
  <1>6. \A t \in Trips \ Sent : active'[t] = Idle
    <2> SUFFICES ASSUME NEW t \in Trips \ Sent PROVE active'[t] = Idle
      OBVIOUS
    <2>1. active[t] = Idle
      BY DEF Standing, MovedWasSent, Moving
    <2>2. CASE Crash
      BY <2>2 DEF Crash, Restart
    <2>3. CASE Commit
      <3>1. cur # t /\ cur \in Trips
        BY <2>3, HandIsSent DEF Commit, Answering
      <3> QED BY <1>4, <2>1, <2>3, <3>1 DEF Commit
    <2>4. CASE Forget
      BY <1>4, <2>1, <2>4 DEF Forget
    <2>5. ASSUME NEW u \in Trips, Advance(u) PROVE active'[t] = Idle
      <3>1. u # t
        <4>1. u \in Moving
          BY <2>5 DEF Advance, Standing, TypeOK
        <4> QED BY <2>1, <4>1 DEF Moving
      <3> QED BY <1>4, <2>1, <2>5, <3>1 DEF Advance
    <2>6. CASE active' = active
      BY <2>1, <2>6
    <2> QED BY <2>2, <2>3, <2>4, <2>5, <2>6 DEF Step, Poll, StopPolling, Answer, CheckStored,
         SearchFails, SearchOffers, RecordOffers, AnnounceOffers, TellNoDriver, WriteNoDriver, Assign,
         HideDriver, KeepMatch, TellMatch, Move, Keep, Tell, Write, Rate, NextTick, inHand
  <1> QED BY <1>1, <1>2, <1>5, <1>6 DEF MovedWasSent, Moving, Sent

LEMMA SurroundingsLeave ==
    ASSUME Passing
    PROVE  Surroundings /\ UNCHANGED <<requests, rows, active, paxOnly>>
  <1>1. Surroundings
    BY DEF Passing, Surroundings
  <1> QED BY <1>1 DEF Passing, BecomeDue, Deliver, Expire, ReportFree, ReportBusy, kafka, store, memory

LEMMA RowsFirstKept ==
    ASSUME RowsFirst, requests' = requests, \A t \in Trips \ Sent : rows'[t] = rows[t],
           \A t \in Trips : rows[t] # NoRow => rows'[t] # NoRow,
           UNCHANGED <<minted, asked, deaths>>
    PROVE  RowsFirst'
  BY DEF RowsFirst, Sent

\* What stands, stands whatever dies; the copies agree until passenger-service
\* has died.
LEMMA StandingStep ==
    Standing /\ FirstLife /\ [RidersNext]_riderVars => Standing' /\ FirstLife'
  <1> SUFFICES ASSUME Standing, FirstLife, [RidersNext]_riderVars PROVE Standing' /\ FirstLife'
    OBVIOUS
  <1>0. deaths \in Nat /\ (deaths = 0 => Copies)
    BY DEF Standing, RowsFirst, FirstLife, Sound
  <1>1. ASSUME [Next]_vars, deaths' = deaths
        PROVE  /\ TypeOK' /\ InHand' /\ NextInLine' /\ AnswerOnRecord' /\ FirstLife'
    <2>1. TypeOK' /\ InHand' /\ NextInLine' /\ AnswerOnRecord'
      BY <1>1, TypeStep, LineStep DEF Standing
    <2>2. deaths = 0 => Sound'
      BY <1>1, SoundStep DEF FirstLife
    <2> QED BY <1>1, <2>1, <2>2 DEF FirstLife
  <1>2. CASE DispatchStep \/ DispatchDies
    <2>1. (Step \/ Crash) /\ UNCHANGED <<minted, asked, deaths>>
      BY <1>2 DEF DispatchStep, DispatchDies, paxOnly
    <2>2. [Next]_vars
      BY <2>1 DEF Next, CalmNext
    <2>3. requests' = requests /\ (\A t \in Trips \ Sent : rows'[t] = rows[t]) /\ MovedWasSent'
      BY <2>1, DispatchWrites
    <2>4. \A t \in Trips : rows[t] # NoRow => rows'[t] # NoRow
      <3>1. ASSUME NEW t \in Trips, rows[t] # NoRow, t \in Sent PROVE rows'[t] # NoRow
        <4>1. t \in {requests[i] : i \in 1..Len(requests)} /\ Len(requests) \in Nat
          BY <3>1, SentIsRequested DEF Sent, Standing
        <4>2. rows'[t].status \in Statuses
          BY <1>1, <2>1, <2>2, <2>3, <4>1 DEF NextInLine
        <4> QED BY <4>2, NoRowStatus
      <3> QED BY <2>3, <3>1
    <2>5. RowsFirst'
      BY <2>1, <2>3, <2>4, RowsFirstKept DEF Standing
    <2> QED BY <1>1, <2>1, <2>2, <2>3, <2>5 DEF Standing
  <1>3. CASE Passing
    <2>1. Surroundings /\ UNCHANGED <<requests, rows, active, minted, asked, deaths>>
      BY <1>3, SurroundingsLeave DEF paxOnly
    <2>2. [Next]_vars
      BY <2>1 DEF Next, CalmNext
    <2>3. RowsFirst' /\ MovedWasSent'
      BY <2>1 DEF Standing, RowsFirst, MovedWasSent, Moving, Sent
    <2> QED BY <1>1, <2>1, <2>2, <2>3 DEF Standing
  <1>4. CASE PaxStep \/ PaxDies
    <2>1. UNCHANGED <<kafka, offers, rated, redis, memory, crashes>> /\ requests' = requests
      BY <1>4, PaxSteps DEF kafka
    <2>2. ASSUME rows' \in [Trips -> Row \cup {NoRow}], \A t \in Sent : rows'[t] = rows[t],
                 RowsFirst', deaths' = 0 => deaths = 0
          PROVE  Standing' /\ FirstLife'
      <3>1. /\ TypeOK' /\ InHand' /\ NextInLine' /\ AnswerOnRecord' /\ MovedWasSent'
            /\ Copies => Copies'
        BY <2>1, <2>2, RowsAreNothing
      <3> QED BY <1>0, <2>2, <3>1 DEF Standing, FirstLife, Sound
    <2>3. CASE Pax!AskForRides
      BY <2>1, <2>2, <2>3, AskingForRides
    <2>4. rows' = rows => rows' \in [Trips -> Row \cup {NoRow}]
      BY DEF Standing, TypeOK
    <2>5. CASE PaxDies /\ rows' = rows /\ minted' = {} /\ asked' = {} /\ deaths' = deaths + 1
      <3>1. deaths' # 0 /\ deaths' \in Nat
        BY <1>0, <2>5
      <3>2. RowsFirst'
        BY <2>1, <2>5, <3>1 DEF Standing, RowsFirst, Sent
      <3> QED BY <2>2, <2>4, <2>5, <3>1, <3>2
    <2>6. CASE UNCHANGED <<rows, minted, asked, deaths>>
      <3>1. RowsFirst'
        BY <2>1, <2>6 DEF Standing, RowsFirst, Sent
      <3> QED BY <2>2, <2>4, <2>6, <3>1
    <2> QED BY <1>4, <2>3, <2>5, <2>6, PaxSteps
  <1>5. ASSUME NEW t \in Trips, Pax!DeliverRequest(t), UNCHANGED dispatchOnly
        PROVE  Standing' /\ FirstLife'
    <2>1. /\ t \in asked /\ requests' = Append(requests, t) /\ asked' = asked \ {t}
          /\ minted' = minted /\ deaths' = deaths /\ rows' = rows
          /\ UNCHANGED <<committed, topic, outbox, offerLog, offerSafe, store, redis, memory, crashes>>
      BY <1>5 DEF Pax!DeliverRequest, dispatchOnly, store, redis, memory
    <2>2. /\ TypeOK' /\ InHand' /\ NextInLine' /\ AnswerOnRecord' /\ MovedWasSent'
          /\ Sent' = Sent \cup {t}
          /\ t \notin Sent /\ Copies => Copies'
      BY <2>1, AskingIsRequest
    <2>3. RowsFirst'
      BY <2>1, <2>2 DEF Standing, RowsFirst
    <2>4. deaths = 0 => Copies'
      BY <1>0, <2>1, <2>2 DEF Standing, RowsFirst
    <2> QED BY <2>1, <2>2, <2>3, <2>4 DEF Standing, FirstLife, Sound
  <1>6. CASE UNCHANGED riderVars
    <2>1. UNCHANGED vars /\ UNCHANGED <<minted, asked, deaths>>
      BY <1>6 DEF riderVars, paxOnly
    <2>2. RowsFirst' /\ MovedWasSent'
      BY <2>1 DEF Standing, RowsFirst, MovedWasSent, Moving, Sent, vars, kafka, store, memory
    <2> QED BY <1>1, <2>1, <2>2 DEF Standing
  <1> QED BY <1>2, <1>3, <1>4, <1>5, <1>6 DEF RidersNext, Asking

\* Each step of the two processes is one of Alone, or nothing to it, or asks
\* again for a trip.
Repeated == deaths > 0 /\ \E t \in Trips : Alone!RequestAgain(t)

LEMMA StepsMap == Standing /\ [RidersNext]_riderVars => [Alone!Next \/ Repeated]_Alone!vars
  <1> SUFFICES ASSUME Standing, [RidersNext]_riderVars PROVE [Alone!Next \/ Repeated]_Alone!vars
    OBVIOUS
  <1>1. CASE DispatchStep
    <2>1. Step /\ requests' = requests
      BY <1>1, DispatchWrites DEF DispatchStep
    <2>2. CASE rows' = rows
      <3>1. Seen' = Seen
        BY <2>1, <2>2, SeenKept
      <3>2. Alone!Step \/ Write \/ WriteNoDriver \/ Assign
        BY <2>1, <3>1, AnswersMap, MovesMap DEF Step, Answer, Move, Alone!Step
      <3>3. CASE Write \/ WriteNoDriver \/ Assign
        BY <2>1, <3>3, HandIsSent, WritesMap DEF Standing, TypeOK, Write, WriteNoDriver, Assign,
           Answering, MovingOn, Alone!Next, Alone!CalmNext, Alone!Step, Alone!Answer, Alone!Move
      <3> QED BY <3>2, <3>3 DEF Alone!Next, Alone!CalmNext
    <2>3. CASE Write \/ WriteNoDriver \/ Assign
      BY <2>1, <2>3, HandIsSent, WritesMap DEF Standing, TypeOK, Write, WriteNoDriver, Assign,
         Answering, MovingOn, Alone!Next, Alone!CalmNext, Alone!Step, Alone!Answer, Alone!Move
    <2> QED BY <2>1, <2>2, <2>3, DispatchWrites
  <1>2. CASE Passing
    <2>1. Seen' = Seen
      BY <1>2, SurroundingsLeave, SeenKept
    <2> QED BY <1>2, <2>1, SurroundingsMap DEF Passing, Alone!Next, Alone!CalmNext
  <1>3. CASE DispatchDies
    <2>1. Crash /\ Seen' = Seen
      <3>1. Crash /\ UNCHANGED <<requests, rows>>
        BY <1>3 DEF DispatchDies, Crash, store
      <3> QED BY <3>1, SeenKept
    <2> QED BY <2>1, CrashMaps DEF Alone!Next
  <1>4. CASE PaxStep \/ PaxDies
    <2>1. UNCHANGED <<kafka, offers, rated, redis, memory, crashes>>
      BY <1>4, PaxSteps
    <2>2. \A t \in Sent : rows'[t] = rows[t]
      BY <1>4, <2>1, PaxSteps, AskingForRides DEF kafka
    <2>3. Seen' = Seen
      BY <2>1, <2>2 DEF Seen, Sent, kafka
    <2> QED BY <2>1, <2>3 DEF Seen, Alone!vars, Alone!kafka, Alone!store, Alone!redis, Alone!memory,
        kafka, redis, memory
  <1>5. ASSUME NEW t \in Trips, Pax!DeliverRequest(t), UNCHANGED dispatchOnly
        PROVE  Alone!Request(t) \/ Repeated
    <2>1. /\ t \in asked /\ requests' = Append(requests, t)
          /\ UNCHANGED <<committed, topic, outbox, offerLog, offerSafe, store, redis, memory, crashes>>
      BY <1>5 DEF Pax!DeliverRequest, dispatchOnly, store, redis, memory
    <2>2. Sent' = Sent \cup {t}
      BY <2>1, AskingIsRequest
    <2>3. CASE t \notin Sent
      <3>1. rows[t] = Pax!Requested
        BY <2>1, <2>3 DEF Standing, RowsFirst
      <3>2. Seen[t] = NoRow /\ \A i \in DOMAIN requests : requests[i] # t
        BY <2>3 DEF Seen, Sent
      <3>3. Seen' = [Seen EXCEPT ![t] = [status |-> "requested", driver |-> None, ended |-> FALSE]]
        BY <2>1, <2>2, <3>1 DEF Seen, store, Pax!Requested
      <3> QED BY <2>1, <3>2, <3>3, SameStatuses
          DEF Seen, Alone!Request, store, redis, memory, Alone!redis, Alone!memory
    <2>4. CASE t \in Sent
      <3>1. deaths > 0
        BY <2>1, <2>4 DEF Standing, RowsFirst
      <3>2. Seen' = Seen
        BY <2>1, <2>2, <2>4 DEF Seen, store
      <3>3. \E i \in DOMAIN requests : requests[i] = t
        BY <2>4 DEF Sent
      <3>4. Alone!RequestAgain(t)
        BY <2>1, <3>2, <3>3 DEF Seen, Alone!RequestAgain, store, redis, memory,
           Alone!store, Alone!redis, Alone!memory
      <3> QED BY <3>1, <3>4 DEF Repeated
    <2> QED BY <2>3, <2>4
  <1>6. CASE UNCHANGED riderVars
    <2>1. UNCHANGED vars
      BY <1>6 DEF riderVars
    <2>2. Seen' = Seen
      BY <2>1, SeenKept DEF vars, kafka, store
    <2> QED BY <2>1, <2>2 DEF Seen, Alone!vars, Alone!kafka, Alone!store, Alone!redis, Alone!memory,
        vars, kafka, store, redis, memory
  <1> QED BY <1>1, <1>2, <1>3, <1>4, <1>5, <1>6
          DEF RidersNext, Asking, Alone!Next, Alone!CalmNext, Alone!Surroundings

LEMMA RidersBegin == RidersInit => Standing /\ FirstLife /\ Alone!Init
  <1> SUFFICES ASSUME Init, Pax!Init PROVE Standing /\ FirstLife /\ Alone!Init
    BY DEF RidersInit
  <1>1. Sound
    BY InitType, InitLine, CopiesInit DEF Sound
  <1>2. requests = <<>> /\ Moving = {} /\ rows = [t \in Trips |-> NoRow] /\ Sent = {}
    BY DEF Init, InitOutside, Moving, Sent
  <1>3. RowsFirst /\ MovedWasSent
    BY <1>2 DEF Pax!Init, RowsFirst, MovedWasSent
  <1>4. Seen = [t \in Trips |-> NoRow]
    BY DEF Init, Seen
  <1>5. Alone!Init
    BY <1>4, SameStatuses DEF Seen, Init, InitOutside, Alone!Init, Alone!InitOutside
  <1> QED BY <1>1, <1>3, <1>5 DEF Sound, Standing, FirstLife

\* Whatever dies, and however often a trip is asked for: dispatch works only
\* on trips it was sent, a committed request has left something durable, and
\* what is not yet sent has just its row.  In the first life of
\* passenger-service dispatch's copies of a trip agree as well.
THEOREM SoundWithRiders == RidersSpec => [](Standing /\ FirstLife)
  BY RidersBegin, StandingStep, PTL DEF RidersSpec

\* Inserting a row first and sending its request after it, with a death in
\* between, is the one step Dispatch takes it for: dispatch never hears of a
\* trip without a row, and a row nobody hears of is none.  Only a
\* passenger-service that has died asks for a trip it has asked for.
THEOREM RowsComeFirst == RidersSpec => RowThenMessage
  <1>1. RidersInit => Alone!Init
    BY RidersBegin
  <1>2. Standing /\ [RidersNext]_riderVars => [Alone!Next \/ Repeated]_Alone!vars
    BY StepsMap
  <1>3. RidersSpec => Alone!Init /\ [][Alone!Next \/ Repeated]_Alone!vars
    BY <1>1, <1>2, SoundWithRiders, PTL DEF RidersSpec
  <1> QED BY <1>3 DEF RowThenMessage, Repeated

-----------------------------------------------------------------------------
(* Who follows whom. *)

\* A ride whose beginning was told or is about to be told ...
Began(t) ==
    \/ \E i \in 1..Len(topic[t]) : topic[t][i].status = "in_progress"
    \/ \E i \in 1..Len(outbox[t]) : outbox[t][i].status = "in_progress"

\* ... is of a trip that was answered and does not begin again.
BeginsOnce ==
    \A t \in Trips :
        Began(t) => /\ Answered(t)
                    /\ t \in Moving => active[t].status \in {"in_progress"} \cup Finished

\* passenger-service hears only what was told.
Hearing ==
    /\ heard \in [Trips -> Nat] /\ deaths \in Nat /\ travelling \subseteq Trips
    /\ \A t \in Trips : heard[t] <= Len(topic[t])

LEMMA StaysAnswered ==
    Sound /\ Standing /\ [RidersNext]_riderVars => \A t \in Trips : Answered(t) => Answered(t)'
  <1> SUFFICES ASSUME Sound, Standing, [RidersNext]_riderVars
               PROVE  \A t \in Trips : Answered(t) => Answered(t)'
    OBVIOUS
  <1>1. CASE DispatchStep \/ Passing \/ DispatchDies \/ UNCHANGED riderVars
    <2>1. [Next]_vars
      BY <1>1 DEF DispatchStep, Passing, DispatchDies, riderVars, Next, CalmNext, Surroundings
    <2> QED BY <2>1, AnsweredStays
  <1>2. CASE PaxStep \/ PaxDies
    BY <1>2, PaxSteps DEF Answered, kafka
  <1>3. CASE Asking
    <2>1. PICK u \in Trips : requests' = Append(requests, u) /\ committed' = committed
      BY <1>3 DEF Asking, Pax!DeliverRequest, dispatchOnly
    <2>2. \A i \in 1..Len(requests) : requests'[i] = requests[i]
      BY <2>1, AppendProperties DEF Sound, TypeOK
    <2>3. \A i \in 1..committed : requests'[i] = requests[i]
      BY <2>2, OffsetBounds DEF Sound
    <2> QED BY <2>1, <2>3 DEF Answered
  <1> QED BY <1>1, <1>2, <1>3 DEF RidersNext

\* Announce tells of a beginning only if it is one.
LEMMA BeginningTold ==
    ASSUME TypeOK, cur \in Trips, topic' = topic,
           NEW status \in Statuses, NEW driver \in Drivers \cup {None},
           NEW stamps \in SUBSET Milestones, NEW reason \in Reasons,
           Announce(status, driver, stamps, reason)
    PROVE  \A t \in Trips : Began(t)' => Began(t) \/ (t = cur /\ status = "in_progress")
  <1> DEFINE m == [status |-> status, driver |-> driver, stamps |-> stamps, reason |-> reason]
  <1>1. outbox' = [outbox EXCEPT ![cur] = Append(outbox[cur], m)] /\ m.status = status
    BY DEF Announce
  <1>2. outbox \in [Trips -> Seq(Message)] /\ outbox[cur] \in Seq(Message) /\ m \in Message
    BY DEF TypeOK, Message
  <1> HIDE DEF m
  <1>3. /\ Len(Append(outbox[cur], m)) = Len(outbox[cur]) + 1 /\ Len(outbox[cur]) \in Nat
        /\ \A i \in 1..Len(outbox[cur]) : Append(outbox[cur], m)[i] = outbox[cur][i]
        /\ Append(outbox[cur], m)[Len(outbox[cur]) + 1] = m
    BY <1>2, AppendProperties, LenProperties
  <1>4. \A t \in Trips \ {cur} : outbox'[t] = outbox[t]
    BY <1>1, <1>2
  <1>5. outbox'[cur] = Append(outbox[cur], m)
    BY <1>1, <1>2
  <1> QED BY <1>1, <1>3, <1>4, <1>5 DEF Began

\* What is delivered was to be told.
LEMMA BeginningDelivered ==
    ASSUME TypeOK, NEW t \in Trips, Deliver(t)
    PROVE  /\ \A u \in Trips : Began(u)' => Began(u)
           /\ \A u \in Trips : Len(topic[u]) \in Nat /\ Len(topic[u]) <= Len(topic'[u])
           /\ \A u \in Trips : \A i \in 1..Len(topic[u]) : topic'[u][i] = topic[u][i]
  <1>1. /\ topic \in [Trips -> Seq(Message)] /\ outbox \in [Trips -> Seq(Message)]
        /\ topic' = [topic EXCEPT ![t] = Append(topic[t], Head(outbox[t]))]
        /\ outbox' = [outbox EXCEPT ![t] = Tail(outbox[t])] /\ outbox[t] # <<>>
        /\ topic[t] \in Seq(Message) /\ outbox[t] \in Seq(Message)
    BY DEF TypeOK, Deliver
  <1>2. /\ Len(outbox[t]) \in Nat \ {0} /\ Len(Tail(outbox[t])) = Len(outbox[t]) - 1
        /\ \A i \in 1..Len(Tail(outbox[t])) : Tail(outbox[t])[i] = outbox[t][i + 1]
        /\ Head(outbox[t]) = outbox[t][1] /\ Head(outbox[t]) \in Message
    BY <1>1, HeadTailProperties, EmptySeq, LenProperties
  <1>3. /\ Len(topic'[t]) = Len(topic[t]) + 1 /\ topic'[t][Len(topic[t]) + 1] = outbox[t][1]
        /\ \A i \in 1..Len(topic[t]) : topic'[t][i] = topic[t][i]
    BY <1>1, <1>2, AppendProperties
  <1>4. \A u \in Trips \ {t} : topic'[u] = topic[u] /\ outbox'[u] = outbox[u]
    BY <1>1
  <1>5. outbox'[t] = Tail(outbox[t])
    BY <1>1
  <1>6. \A u \in Trips : Len(topic[u]) \in Nat
    BY <1>1, LenProperties
  <1>7. ASSUME Began(t)' PROVE Began(t)
    <2>1. CASE \E i \in 1..Len(topic'[t]) : topic'[t][i].status = "in_progress"
      <3>1. PICK i \in 1..Len(topic'[t]) : topic'[t][i].status = "in_progress"
        BY <2>1
      <3>2. CASE i = Len(topic[t]) + 1
        <4>1. outbox[t][1].status = "in_progress" /\ 1 \in 1..Len(outbox[t])
          BY <1>2, <1>3, <3>1, <3>2
        <4> QED BY <4>1 DEF Began
      <3>3. CASE i # Len(topic[t]) + 1
        <4>1. i \in 1..Len(topic[t])
          BY <1>3, <1>6, <3>3
        <4> QED BY <1>3, <3>1, <4>1 DEF Began
      <3> QED BY <3>2, <3>3
    <2>2. CASE \E i \in 1..Len(outbox'[t]) : outbox'[t][i].status = "in_progress"
      <3>1. PICK i \in 1..Len(Tail(outbox[t])) : Tail(outbox[t])[i].status = "in_progress"
        BY <1>5, <2>2
      <3>2. i + 1 \in 1..Len(outbox[t]) /\ outbox[t][i + 1].status = "in_progress"
        BY <1>2, <3>1
      <3> QED BY <3>2 DEF Began
    <2> QED BY <1>7, <2>1, <2>2 DEF Began
  <1>8. \A u \in Trips : Began(u)' => Began(u)
    BY <1>4, <1>7 DEF Began
  <1>9. \A u \in Trips : /\ Len(topic[u]) <= Len(topic'[u])
                         /\ \A i \in 1..Len(topic[u]) : topic'[u][i] = topic[u][i]
    BY <1>3, <1>4, <1>6
  <1> QED BY <1>6, <1>8, <1>9

\* A step that tells of no beginning and moves no trip along.
LEMMA NothingBegins ==
    ASSUME BeginsOnce, \A t \in Trips : Began(t)' => Began(t),
           \A t \in Trips : Answered(t) => Answered(t)',
           \A t \in Trips : active'[t] \in {active[t], Idle}
    PROVE  BeginsOnce'
  <1> SUFFICES ASSUME NEW t \in Trips, Began(t)'
               PROVE  /\ Answered(t)'
                      /\ active'[t] # Idle => active'[t].status \in {"in_progress"} \cup Finished
    BY DEF BeginsOnce, Moving
  <1>1. /\ Answered(t)
        /\ active[t] # Idle => active[t].status \in {"in_progress"} \cup Finished
    BY DEF BeginsOnce, Moving
  <1> QED BY <1>1

LEMMA BeginsStep ==
    Sound /\ Standing /\ BeginsOnce /\ [RidersNext]_riderVars => BeginsOnce'
  <1> SUFFICES ASSUME Sound, Standing, BeginsOnce, [RidersNext]_riderVars PROVE BeginsOnce'
    OBVIOUS
  <1>1. \A t \in Trips : Answered(t) => Answered(t)'
    BY StaysAnswered
  <1>2. TypeOK /\ active \in [Trips -> ActiveTrip \cup {Idle}]
    BY DEF Sound, TypeOK
  <1>3. ASSUME UNCHANGED <<topic, outbox>> PROVE \A t \in Trips : Began(t)' = Began(t)
    BY <1>3 DEF Began
  <1>4. CASE UNCHANGED <<topic, outbox, active>>
    BY <1>1, <1>3, <1>4, NothingBegins
  <1>5. CASE DispatchStep /\ (TellNoDriver \/ TellMatch)
    <2>1. cur \in Trips /\ active' = active
      BY <1>5, HandIsSent DEF TellNoDriver, TellMatch, Answering, inHand
    <2>2. /\ topic' = topic
          /\ \E s \in {"no_driver_found", "matched"}, d \in Drivers \cup {None} :
                Announce(s, d, {}, "none")
      <3>1. Winner(chain) \in Drivers \cup {None}
        BY <1>2, WinnerType DEF TypeOK
      <3> QED BY <1>5, <3>1 DEF TellNoDriver, TellMatch, otherKafka
    <2>3. PICK s \in {"no_driver_found", "matched"}, d \in Drivers \cup {None} :
            Announce(s, d, {}, "none")
      BY <2>2
    <2>4. s \in Statuses /\ s # "in_progress" /\ {} \in SUBSET Milestones /\ "none" \in Reasons
      BY DEF Statuses, Stages, Finished, Reasons
    <2>5. \A t \in Trips : Began(t)' => Began(t)
      BY <1>2, <2>1, <2>2, <2>3, <2>4, BeginningTold
    <2> QED BY <1>1, <2>1, <2>5, NothingBegins
  <1>6. CASE DispatchStep /\ Tell
    <2>1. /\ cur \in Trips /\ cur \in Moving /\ active' = active /\ topic' = topic
          /\ active[cur] \in ActiveTrip
      BY <1>2, <1>6 DEF Tell, Sound, InHand, MovingOn, Moving, inHand, otherKafka
    <2>2. Announce(active[cur].status, active[cur].driver, active[cur].stamps,
                   ReasonFor(before, active[cur].status))
      BY <1>6 DEF Tell
    <2>3. /\ active[cur].status \in Statuses /\ active[cur].driver \in Drivers \cup {None}
          /\ active[cur].stamps \in SUBSET Milestones
          /\ ReasonFor(before, active[cur].status) \in Reasons
      BY <2>1 DEF ActiveTrip, ReasonFor, Reasons
    <2>4. \A t \in Trips : Began(t)' => Began(t) \/ (t = cur /\ active[cur].status = "in_progress")
      BY <1>2, <2>1, <2>2, <2>3, BeginningTold
    <2>5. Answered(cur)
      BY <2>1 DEF Sound, Copies, AskedOnce
    <2> QED BY <1>1, <2>1, <2>4, <2>5 DEF BeginsOnce, Moving
  <1>7. CASE DispatchStep /\ Commit
    <2>1. UNCHANGED <<topic, outbox>> /\ pc = "commit"
      BY <1>7 DEF Commit
    <2>2. cur \in Trips /\ ~Answered(cur)
      <3>1. /\ position = committed + 1 /\ cur = requests[position] /\ committed \in Nat
            /\ position \in 1..Len(requests) /\ \A i \in 1..committed : i \in 1..Len(requests)
        BY <2>1, OffsetBounds DEF Sound, NextInLine, Answering
      <3>2. \A i \in 1..committed : requests[i] # requests[position]
        BY <3>1 DEF Sound, Copies, AskedOnce
      <3> QED BY <2>1, <3>1, <3>2, HandIsSent DEF Answered, Answering
    <2>3. \A t \in Trips \ {cur} : active'[t] = active[t]
      BY <1>2, <1>7 DEF Commit
    <2>4. ASSUME NEW t \in Trips, Began(t)' PROVE Began(t) /\ t # cur
      BY <1>3, <2>1, <2>2, <2>4 DEF BeginsOnce
    <2> QED BY <1>1, <2>3, <2>4 DEF BeginsOnce, Moving
  <1>8. ASSUME NEW t \in Trips, DispatchStep, Advance(t) PROVE BeginsOnce'
    <2>1. PICK s \in NextStatuses(active[t].status) :
            active' = [active EXCEPT ![t].status = s, ![t].stamps = Stamp(@, s)]
      BY <1>8 DEF Advance
    <2>2. UNCHANGED <<topic, outbox>> /\ t \in Moving
      BY <1>2, <1>8 DEF Advance, kafka, TypeOK
    <2>3. \A u \in Trips \ {t} : active'[u] = active[u]
      BY <1>2, <2>1
    <2>4. active'[t].status = s
      BY <1>2, <2>1, <2>2 DEF Moving, ActiveTrip
    <2>5. Began(t) => s \in {"in_progress"} \cup Finished
      <3>1. Began(t) => active[t].status \in {"in_progress"} \cup Finished
        BY <2>2 DEF BeginsOnce
      <3>2. active[t].status \in {"in_progress"} \cup Finished => s = "completed"
        BY DEF NextStatuses, Finished
      <3> QED BY <3>1, <3>2 DEF Finished
    <2>6. \A u \in Trips : Began(u)' = Began(u)
      BY <1>3, <2>2
    <2>7. ASSUME NEW u \in Trips, Began(u)'
          PROVE  Answered(u)' /\ (active'[u] # Idle => active'[u].status \in {"in_progress"} \cup Finished)
      <3>1. CASE u = t
        BY <1>1, <2>4, <2>5, <2>6, <2>7, <3>1 DEF BeginsOnce
      <3>2. CASE u # t
        BY <1>1, <2>3, <2>6, <2>7, <3>2 DEF BeginsOnce, Moving
      <3> QED BY <3>1, <3>2
    <2> QED BY <2>7 DEF BeginsOnce, Moving
  <1>9. CASE DispatchStep /\ Forget
    <2>1. UNCHANGED <<topic, outbox>> /\ active' = [active EXCEPT ![cur] = Idle]
      BY <1>9 DEF Forget, kafka
    <2>2. \A t \in Trips : active'[t] \in {active[t], Idle}
      BY <1>2, <2>1
    <2> QED BY <1>1, <1>3, <2>1, <2>2, NothingBegins
  <1>10. CASE DispatchDies
    <2>1. topic' = topic /\ outbox' = [t \in Trips |-> <<>>] /\ active' = [t \in Trips |-> Idle]
      BY <1>10 DEF DispatchDies, Crash, Restart
    <2>2. \A t \in Trips : Began(t)' => Began(t)
      BY <2>1 DEF Began
    <2> QED BY <1>1, <2>1, <2>2, NothingBegins
  <1>11. CASE Passing
    <2>1. active' = active
      BY <1>11 DEF Passing, BecomeDue, Deliver, Expire, ReportFree, ReportBusy, memory
    <2>2. \A t \in Trips : Began(t)' => Began(t)
      <3>1. CASE UNCHANGED <<topic, outbox>>
        BY <1>3, <3>1
      <3>2. CASE \E t \in Trips : Deliver(t)
        BY <1>2, <3>2, BeginningDelivered
      <3> QED BY <1>11, <3>1, <3>2 DEF Passing, BecomeDue, Expire, ReportFree, ReportBusy, kafka
    <2> QED BY <1>1, <2>1, <2>2, NothingBegins
  <1>12. CASE PaxStep \/ PaxDies \/ Asking \/ UNCHANGED riderVars
    <2>1. UNCHANGED <<topic, outbox, active>>
      BY <1>12, PaxSteps DEF Asking, Pax!DeliverRequest, dispatchOnly, riderVars, vars, kafka, memory
    <2> QED BY <2>1, <1>4
  <1>13. CASE DispatchStep
    <2>1. \/ UNCHANGED <<topic, outbox, active>>
          \/ TellNoDriver \/ TellMatch \/ Tell \/ Commit \/ (\E t \in Trips : Advance(t)) \/ Forget
      BY <1>13 DEF DispatchStep, Step, Poll, StopPolling, Answer, CheckStored, SearchFails,
         SearchOffers, RecordOffers, AnnounceOffers, WriteNoDriver, Assign, HideDriver, KeepMatch,
         Move, Keep, Write, Rate, NextTick, kafka, inHand
    <2> QED BY <2>1, <1>4, <1>5, <1>6, <1>7, <1>8, <1>9, <1>13
  <1> QED BY <1>10, <1>11, <1>12, <1>13 DEF RidersNext

\* The live state of a ride under way is there.
LEMMA RideIsLive ==
    ASSUME Sound, NEW t \in Trips, active[t].status = "in_progress"
    PROVE  live[t] # NoKey
  <1>1. t \in Moving
    BY DEF Moving, Idle
  <1>0. NoKey.status = "no key"
    BY DEF NoKey
  <1> SUFFICES live[t].status # "no key"
    BY <1>0
  <1>2. CASE Agrees(t)
    BY <1>2 DEF Agrees, Shown
  <1>3. CASE t = cur /\ pc \in MovingOn
    <2>1. pc \in {"keep", "tell", "write"}
      BY <1>3 DEF Sound, InHand, MovingOn, Finished
    <2>2. /\ "in_progress" \in NextStatuses(before)
          /\ Shown(t, IF pc = "keep" \/ active[t].status \in Finished THEN before ELSE active[t].status)
      BY <1>3, <2>1 DEF Sound, Copies, MoveInHand
    <2>3. before = "arrived"
      BY <2>2 DEF NextStatuses
    <2> QED BY <2>2, <2>3 DEF Shown
  <1> QED BY <1>1, <1>2, <1>3 DEF Sound, Copies, Settled

\* What was heard stays as it was told, whatever is delivered after it.
LEMMA HearingStep ==
    Standing /\ Hearing /\ [RidersNext]_riderVars
        => Hearing' /\ \A t \in Trips : \A i \in 1..Len(topic[t]) : topic'[t][i] = topic[t][i]
  <1> SUFFICES ASSUME Standing, Hearing, [RidersNext]_riderVars
               PROVE  Hearing' /\ \A t \in Trips : \A i \in 1..Len(topic[t]) : topic'[t][i] = topic[t][i]
    OBVIOUS
  <1>1. topic \in [Trips -> Seq(Message)] /\ \A t \in Trips : Len(topic[t]) \in Nat
    <2>1. topic \in [Trips -> Seq(Message)]
      BY DEF Standing, TypeOK
    <2> QED BY <2>1, LenProperties
  <1>2. CASE \E t \in Trips : Deliver(t) /\ UNCHANGED paxOnly
    <2>1. PICK t \in Trips : Deliver(t) /\ UNCHANGED paxOnly
      BY <1>2
    <2>2. /\ \A u \in Trips : Len(topic[u]) <= Len(topic'[u])
          /\ \A u \in Trips : \A i \in 1..Len(topic[u]) : topic'[u][i] = topic[u][i]
      BY <2>1, BeginningDelivered DEF Standing
    <2>3. \A u \in Trips : Len(topic'[u]) \in Nat
      <3>1. topic' \in [Trips -> Seq(Message)]
        BY <2>1, TypeStep DEF Next, CalmNext, Surroundings, Standing, TypeOK
      <3> QED BY <3>1, LenProperties
    <2>4. heard' = heard /\ deaths' = deaths /\ travelling' = travelling
      BY <2>1 DEF paxOnly
    <2>5. \A u \in Trips : heard[u] <= Len(topic'[u])
      BY <1>1, <2>2, <2>3 DEF Hearing
    <2> QED BY <2>2, <2>4, <2>5 DEF Hearing
  <1>3. CASE topic' = topic /\ UNCHANGED <<heard, deaths, travelling>>
    BY <1>3 DEF Hearing
  <1>4. CASE PaxStep \/ PaxDies
    <2>1. topic' = topic
      BY <1>4, PaxSteps DEF kafka
    <2>2. ASSUME NEW t \in Trips, Pax!ReadNews(t)
          PROVE  /\ heard' = [heard EXCEPT ![t] = heard[t] + 1] /\ heard[t] < Len(topic[t])
                 /\ deaths' = deaths /\ travelling' \subseteq Trips
      BY <2>2 DEF Pax!ReadNews, Hearing
    <2>3. ASSUME NEW t \in Trips, Pax!ReadNews(t) PROVE Hearing'
      BY <1>1, <2>1, <2>2, <2>3 DEF Hearing
    <2>4. ASSUME NEW t \in Trips, Pax!ReportPosition(t)
          PROVE  UNCHANGED <<heard, deaths>> /\ travelling' \subseteq Trips
      BY <2>4 DEF Pax!ReportPosition, Hearing
    <2>5. CASE PaxDies
      <3>1. heard' = [t \in Trips |-> Len(topic[t])] /\ deaths' = deaths + 1 /\ travelling' = {}
        BY <2>5 DEF PaxDies, Pax!Die
      <3> QED BY <1>1, <2>1, <3>1 DEF Hearing
    <2>6. CASE Pax!AskForRides \/ Pax!StopReading \/ Pax!EndTick
      BY <2>1, <2>6 DEF Pax!AskForRides, Pax!StopReading, Pax!EndTick, Hearing
    <2> QED BY <1>4, <2>1, <2>3, <2>4, <2>5, <2>6 DEF PaxStep, Pax!Step, Hearing
  <1>5. CASE DispatchStep \/ DispatchDies \/ Asking \/ UNCHANGED riderVars
    <2>1. topic' = topic
      BY <1>5 DEF DispatchStep, DispatchDies, Asking, Pax!DeliverRequest, riderVars, vars, kafka, Crash,
         Step, Poll, StopPolling, Answer, CheckStored, SearchFails, SearchOffers, RecordOffers,
         AnnounceOffers, TellNoDriver, WriteNoDriver, Assign, HideDriver, KeepMatch, TellMatch, Commit,
         Move, Advance, Keep, Tell, Write, Rate, Forget, NextTick, otherKafka
    <2>2. UNCHANGED <<heard, deaths, travelling>>
      BY <1>5 DEF DispatchStep, DispatchDies, Asking, Pax!DeliverRequest, riderVars, paxOnly
    <2> QED BY <1>3, <2>1, <2>2
  <1>6. CASE Passing
    <2>1. (\E t \in Trips : Deliver(t) /\ UNCHANGED paxOnly) \/ topic' = topic
      BY <1>6 DEF Passing, BecomeDue, Expire, ReportFree, ReportBusy, kafka
    <2>2. UNCHANGED <<heard, deaths, travelling>>
      BY <1>6 DEF Passing, paxOnly
    <2> QED BY <1>2, <1>3, <2>1, <2>2
  <1> QED BY <1>4, <1>5, <1>6 DEF RidersNext

\* A rider is taken up with the news of the beginning, and let go only with
\* other news or when the live state is gone.
LEMMA FollowedStep ==
    Sound /\ Standing /\ BeginsOnce /\ Hearing /\ RidersAreFollowed /\ [RidersNext]_riderVars
        => RidersAreFollowed'
  <1> SUFFICES ASSUME Sound, Standing, BeginsOnce, Hearing, RidersAreFollowed,
                      [RidersNext]_riderVars, NEW t \in Trips,
                      deaths' = 0, heard'[t] > 0, topic'[t][heard'[t]].status = "in_progress",
                      active'[t].status = "in_progress"
               PROVE  t \in travelling'
    BY DEF RidersAreFollowed
  <1>1. /\ heard \in [Trips -> Nat] /\ heard[t] \in Nat /\ heard[t] <= Len(topic[t])
        /\ Len(topic[t]) \in Nat /\ deaths \in Nat
    <2>1. topic[t] \in Seq(Message)
      BY DEF Sound, TypeOK
    <2> QED BY <2>1, LenProperties DEF Hearing
  <1>2. \A i \in 1..Len(topic[t]) : topic'[t][i] = topic[t][i]
    BY HearingStep
  <1>3. CASE heard'[t] = heard[t] /\ deaths' = deaths /\ travelling' = travelling
    <2>1. heard[t] > 0 /\ heard[t] \in 1..Len(topic[t])
      BY <1>1, <1>3
    <2>2. topic[t][heard[t]].status = "in_progress"
      BY <1>2, <1>3, <2>1
    <2>3. Began(t)
      BY <2>1, <2>2 DEF Began
    <2>4. active[t].status = "in_progress"
      <3>1. active[t] # Idle => active[t].status \in {"in_progress"} \cup Finished
        BY <2>3 DEF BeginsOnce, Moving
      <3>2. active \in [Trips -> ActiveTrip \cup {Idle}]
        BY DEF Sound, TypeOK
      <3>3. CASE active'[t] = active[t]
        BY <3>3
      <3>4. ASSUME DispatchStep, Commit, active'[t] # active[t] PROVE FALSE
        <4>1. active'[t].status = "matched"
          BY <3>2, <3>4 DEF Commit
        <4> QED BY <4>1
      <3>5. ASSUME DispatchStep, Advance(t) PROVE active[t].status = "in_progress"
        <4>1. PICK s \in NextStatuses(active[t].status) :
                active' = [active EXCEPT ![t].status = s, ![t].stamps = Stamp(@, s)]
          BY <3>5 DEF Advance
        <4>2. active[t] # Idle
          BY <3>5 DEF Advance, Sound, TypeOK, Moving
        <4>3. active'[t].status = s
          BY <3>2, <4>1, <4>2 DEF ActiveTrip
        <4>4. "in_progress" \in NextStatuses(active[t].status)
          BY <4>1, <4>3
        <4> QED BY <3>1, <4>2, <4>4 DEF NextStatuses, Finished
      <3>6. ASSUME DispatchStep, NEW u \in Trips, u # t, Advance(u) PROVE active'[t] = active[t]
        BY <3>2, <3>6 DEF Advance
      <3>7. ASSUME active'[t] = Idle PROVE FALSE
        BY <3>7 DEF Idle
      <3>8. CASE DispatchStep
        <4>1. \/ active' = active \/ Commit \/ (\E u \in Trips : Advance(u)) \/ active'[t] \in {active[t], Idle}
          BY <3>2, <3>8 DEF DispatchStep, Step, Poll, StopPolling, Answer, CheckStored, SearchFails,
             SearchOffers, RecordOffers, AnnounceOffers, TellNoDriver, WriteNoDriver, Assign, HideDriver,
             KeepMatch, TellMatch, Move, Keep, Tell, Write, Rate, Forget, NextTick, inHand
        <4> QED BY <3>3, <3>4, <3>5, <3>6, <3>7, <3>8, <4>1
      <3>9. CASE DispatchDies
        BY <3>7, <3>9 DEF DispatchDies, Crash, Restart
      <3>10. CASE Passing \/ PaxStep \/ PaxDies \/ Asking \/ UNCHANGED riderVars
        <4>1. active' = active
          BY <3>10, PaxSteps DEF Passing, BecomeDue, Deliver, Expire, ReportFree, ReportBusy, Asking,
             dispatchOnly, riderVars, vars, memory
        <4> QED BY <3>3, <4>1
      <3> QED BY <3>8, <3>9, <3>10 DEF RidersNext
    <2> QED BY <1>3, <2>1, <2>2, <2>4 DEF RidersAreFollowed
  <1>4. CASE PaxStep
    <2>1. UNCHANGED <<topic, live, active>>
      BY <1>4, PaxSteps DEF kafka, redis, memory
    <2>2. ASSUME Pax!ReadNews(t) PROVE t \in travelling'
      <3>1. /\ heard'[t] = heard[t] + 1
            /\ travelling' = LET status == topic[t][heard[t] + 1].status
                             IN CASE status \in Pax!Travelling -> travelling \cup {t}
                                  [] status \in Pax!Finished -> travelling \ {t}
                                  [] OTHER -> travelling
        BY <1>1, <2>2 DEF Pax!ReadNews
      <3>2. topic[t][heard[t] + 1].status = "in_progress"
        BY <2>1, <3>1
      <3> QED BY <3>1, <3>2 DEF Pax!Travelling, Pax!Finished
    <2>3. ASSUME NEW u \in Trips, u # t, Pax!ReadNews(u) \/ Pax!ReportPosition(u)
          PROVE  /\ heard'[t] = heard[t] /\ deaths' = deaths
                 /\ t \in travelling => t \in travelling'
      BY <1>1, <2>3 DEF Pax!ReadNews, Pax!ReportPosition, Pax!Travelling, Pax!Finished
    <2>4. ASSUME Pax!ReportPosition(t)
          PROVE  /\ heard'[t] = heard[t] /\ deaths' = deaths
                 /\ t \in travelling => t \in travelling'
      <3>1. live[t] # NoKey
        BY <2>1, RideIsLive
      <3>2. live[t] # Pax!NoKey
        BY <3>1 DEF NoKey, Pax!NoKey
      <3> QED BY <2>4, <3>2 DEF Pax!ReportPosition
    <2>5. ASSUME Pax!AskForRides \/ Pax!StopReading \/ Pax!EndTick
          PROVE  heard'[t] = heard[t] /\ deaths' = deaths /\ travelling' = travelling
      BY <2>5 DEF Pax!AskForRides, Pax!StopReading, Pax!EndTick
    <2>6. heard'[t] = heard[t] /\ deaths' = deaths => t \in travelling
      BY <2>1 DEF RidersAreFollowed
    <2> QED BY <1>4, <2>2, <2>3, <2>4, <2>5, <2>6 DEF PaxStep, Pax!Step
  <1>5. CASE PaxDies
    BY <1>1, <1>5 DEF PaxDies, Pax!Die
  <1>6. CASE DispatchStep \/ DispatchDies \/ Passing \/ Asking \/ UNCHANGED riderVars
    BY <1>3, <1>6 DEF DispatchStep, DispatchDies, Passing, Asking, Pax!DeliverRequest, riderVars, paxOnly
  <1> QED BY <1>4, <1>5, <1>6 DEF RidersNext

FirstBeginnings == deaths = 0 => BeginsOnce

LEMMA DeathsCount ==
    Hearing /\ [RidersNext]_riderVars => (deaths' = 0 => deaths = 0)
  <1> SUFFICES ASSUME Hearing, [RidersNext]_riderVars, deaths' = 0 PROVE deaths = 0
    OBVIOUS
  <1>1. deaths' \in {deaths, deaths + 1}
    BY DEF RidersNext, DispatchStep, Passing, DispatchDies, PaxStep, Pax!Step, Pax!AskForRides,
       Pax!StopReading, Pax!EndTick, Pax!ReadNews, Pax!ReportPosition, Asking, Pax!DeliverRequest,
       PaxDies, Pax!Die, riderVars, paxOnly
  <1> QED BY <1>1 DEF Hearing

\* Nobody hears more than was told; and in the first life of passenger-service
\* the beginning of a ride is told once in a trip's life.
THEOREM BeginningsHold == RidersSpec => [](Hearing /\ FirstBeginnings)
  <1>1. RidersInit => FirstBeginnings /\ Hearing
    <2> SUFFICES ASSUME Init, Pax!Init PROVE FirstBeginnings /\ Hearing
      BY DEF RidersInit
    <2>1. \A t \in Trips : topic[t] = <<>> /\ outbox[t] = <<>> /\ Len(topic[t]) = 0 /\ Len(outbox[t]) = 0
      BY DEF Init, InitOutside
    <2>2. heard = [t \in Trips |-> 0] /\ deaths = 0 /\ travelling = {}
      BY DEF Pax!Init
    <2> QED BY <2>1, <2>2 DEF FirstBeginnings, BeginsOnce, Began, Hearing
  <1>2. Standing /\ FirstLife /\ Hearing /\ FirstBeginnings /\ [RidersNext]_riderVars
            => Hearing' /\ FirstBeginnings'
    BY BeginsStep, HearingStep, DeathsCount DEF FirstLife, FirstBeginnings
  <1> QED BY <1>1, <1>2, SoundWithRiders, PTL DEF RidersSpec

\* A rider whose ride dispatch has begun, and passenger-service has heard of
\* last, is followed: no position report ends it early, whatever dispatch's
\* crashes left of the trip.
THEOREM RidersFollowed == RidersSpec => []RidersAreFollowed
  <1>1. RidersInit => RidersAreFollowed
    BY DEF RidersInit, Pax!Init, RidersAreFollowed
  <1>2. Standing /\ FirstLife /\ Hearing /\ FirstBeginnings /\ RidersAreFollowed
            /\ [RidersNext]_riderVars => RidersAreFollowed'
    <2>1. RidersAreFollowed' \/ deaths' = 0
      BY DEF RidersAreFollowed
    <2> QED BY <2>1, FollowedStep, DeathsCount DEF FirstLife, FirstBeginnings
  <1> QED BY <1>1, <1>2, SoundWithRiders, BeginningsHold, PTL DEF RidersSpec

-----------------------------------------------------------------------------
(* Types. *)

\* What only passenger-service keeps.
Reporting ==
    /\ stage \in {"ask", "news", "report"}
    /\ toReport \subseteq travelling /\ (stage # "report" => toReport = {})
    /\ deaths \in 0..MaxDeaths

LEMMA ReportingStep == Reporting /\ [RidersNext]_riderVars => Reporting'
  <1> SUFFICES ASSUME Reporting, [RidersNext]_riderVars PROVE Reporting'
    OBVIOUS
  <1>1. CASE PaxStep
    <2>1. deaths' = deaths
      BY <1>1 DEF PaxStep, Pax!Step, Pax!AskForRides, Pax!StopReading, Pax!EndTick, Pax!ReadNews,
         Pax!ReportPosition
    <2>2. CASE Pax!AskForRides \/ Pax!StopReading \/ Pax!EndTick
      BY <2>1, <2>2 DEF Reporting, Pax!AskForRides, Pax!StopReading, Pax!EndTick
    <2>3. ASSUME NEW t \in Trips, Pax!ReadNews(t)
          PROVE  Reporting'
      <3>1. stage' = stage /\ stage = "news" /\ toReport' = toReport
        BY <2>3 DEF Pax!ReadNews
      <3> QED BY <2>1, <3>1 DEF Reporting
    <2>4. ASSUME NEW t \in Trips, Pax!ReportPosition(t)
          PROVE  Reporting'
      <3>1. stage' = stage /\ toReport' = toReport \ {t} /\ travelling' \in {travelling, travelling \ {t}}
        BY <2>4 DEF Pax!ReportPosition
      <3> QED BY <2>1, <3>1 DEF Reporting
    <2> QED BY <1>1, <2>2, <2>3, <2>4 DEF PaxStep, Pax!Step
  <1>2. CASE PaxDies
    BY <1>2, RidersAssumption DEF PaxDies, Pax!Die, Reporting
  <1>3. CASE DispatchStep \/ DispatchDies \/ Passing \/ Asking \/ UNCHANGED riderVars
    BY <1>3 DEF Reporting, DispatchStep, DispatchDies, Passing, Asking, Pax!DeliverRequest, riderVars, paxOnly
  <1> QED BY <1>1, <1>2, <1>3 DEF RidersNext

\* The types of passenger-service's side: only followed riders are reported,
\* and in its first life no request is waited for that was delivered.
THEOREM PassengerTypes == RidersSpec => []PaxTypeOK
  <1>1. RidersInit => Reporting
    BY RidersAssumption DEF RidersInit, Pax!Init, Reporting
  <1>2. Standing /\ Hearing /\ Reporting => PaxTypeOK
    <2> SUFFICES ASSUME Standing, Hearing, Reporting PROVE PaxTypeOK
      OBVIOUS
    <2>1. deaths = 0 => \A i \in DOMAIN requests : requests[i] \notin asked
      BY DEF Standing, RowsFirst, Sent
    <2> QED BY <2>1 DEF Standing, RowsFirst, Hearing, Reporting, PaxTypeOK, Pax!TypeOK
  <1> QED BY <1>1, <1>2, ReportingStep, SoundWithRiders, BeginningsHold, PTL DEF RidersSpec
=============================================================================
