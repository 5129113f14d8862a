---------------------------- MODULE DispatchProofs ----------------------------
(***************************************************************************)
(* Theorems about Dispatch, for any trips, drivers, limits and number of   *)
(* crashes.  The argument: TypeOK and InHand say what each step finds in   *)
(* the process's hands; NextInLine ties the request in hand to the         *)
(* committed offset; AnswerOnRecord says the answer is durable by the time *)
(* the offset moves.  Copies says what each step has already written of    *)
(* the trip in hand, and Stamped which milestones it has passed.  The      *)
(* second half is about a process that does not die (CalmSpec), or once.   *)
(***************************************************************************)
EXTENDS Dispatch, SequenceTheorems, TLAPS

-----------------------------------------------------------------------------
(* The operators. *)

\* A chain of offers is a sequence of offers.
LEMMA ChainsType ==
    ASSUME NEW free, NEW os \in Chains(free)
    PROVE  os \in Seq(Offer)
  <1>1. PICK n \in 1..MaxOffers : os \in [1..n -> Offer]
    BY DEF Chains
  <1>2. n \in Nat
    BY <1>1, DispatchAssumption
  <1> QED BY <1>1, <1>2, IsASeq

\* The winner of a chain is a driver, or nobody.
LEMMA WinnerType ==
    ASSUME NEW os \in Seq(Offer)
    PROVE  /\ Winner(os) \in Drivers \cup {None}
           /\ Winner(os) # None => Accepts(os) # {}
  <1>1. CASE Accepts(os) = {}
    BY <1>1 DEF Winner
  <1>2. CASE Accepts(os) # {}
    <2>1. PICK i \in DOMAIN os : TRUE
      BY <1>2 DEF Accepts
    <2>2. Len(os) \in DOMAIN os
      BY <2>1, LenProperties
    <2>3. os[Len(os)] \in Offer
      BY <2>2, ElementOfSeq
    <2> QED BY <1>2, <2>3 DEF Winner, Offer
  <1> QED BY <1>1, <1>2

\* What INSERT_OFFER leaves of new rows extends the old ones and keeps every
\* acceptance that was there.
LEMMA KeptType ==
    ASSUME NEW old \in Seq(Offer), NEW new \in Seq(Offer)
    PROVE  /\ Kept(old, new) \in Seq(Offer)
           /\ old \o Kept(old, new) \in Seq(Offer)
           /\ Accepts(old) \subseteq Accepts(old \o Kept(old, new))
  <1>1. Kept(old, new) \in Seq(Offer)
    <2>1. \A i \in Len(old) + 1 .. Len(new) : new[i] \in Offer
      BY LenProperties, ElementOfSeq
    <2> QED BY <2>1, SubSeqProperties, LenProperties DEF Kept
  <1>2. /\ old \o Kept(old, new) \in Seq(Offer)
        /\ \A i \in 1..Len(old) : (old \o Kept(old, new))[i] = old[i]
        /\ Len(old \o Kept(old, new)) >= Len(old)
    BY <1>1, ConcatProperties, LenProperties
  <1>3. Accepts(old) \subseteq Accepts(old \o Kept(old, new))
    BY <1>2, LenProperties DEF Accepts
  <1> QED BY <1>1, <1>2, <1>3

\* next_status moves only a trip that has a driver, and never back to
\* requested.
LEMMA NextStatusesType ==
    ASSUME NEW s, NEW n \in NextStatuses(s)
    PROVE  /\ s \in Stages
           /\ n \in Statuses \ {"requested"}
           /\ n \notin Finished => n \in Stages
  BY DEF NextStatuses, Stages, Statuses, Finished

-----------------------------------------------------------------------------
(* Types, and what the process has in hand. *)

LEMMA InitType == Init => TypeOK /\ InHand
  <1> SUFFICES ASSUME Init PROVE TypeOK /\ InHand
    OBVIOUS
  <1>1. TypeOK
    BY DispatchAssumption
    DEF Init, InitOutside, TypeOK, Row, LiveState, ActiveTrip, Message, Steps, Statuses, Moving
  <1>2. InHand
    BY DEF Init, InitOutside, InHand, Answering, MovingOn, Matching
  <1> QED BY <1>1, <1>2

\* A lifecycle message goes to the producer: its queue stays a sequence of
\* messages.
LEMMA AnnounceType ==
    ASSUME TypeOK, NEW status \in Statuses, NEW driver \in Drivers \cup {None},
           NEW stamps \in SUBSET Milestones, NEW reason \in Reasons,
           Announce(status, driver, stamps, reason)
    PROVE  outbox' \in [Trips -> Seq(Message)]
  <1> DEFINE m == [status |-> status, driver |-> driver, stamps |-> stamps, reason |-> reason]
  <1>1. m \in Message
    BY DEF Message
  <1>2. \A q \in Seq(Message) : Append(q, m) \in Seq(Message)
    BY <1>1, AppendProperties
  <1> QED BY <1>2 DEF TypeOK, Announce


\* A written row is a row.
LEMMA RowType ==
    ASSUME NEW row \in Row \cup {NoRow}, NEW s \in Statuses, NEW d \in Drivers \cup {None}
    PROVE  /\ UpdateStatus(row, s) \in Row
           /\ [row EXCEPT !.status = s, !.driver = d] \in Row
  <1>1. CASE row \in Row
    BY <1>1 DEF Row, UpdateStatus
  <1>2. CASE row = NoRow
    BY <1>2 DEF Row, NoRow, UpdateStatus
  <1> QED BY <1>1, <1>2

\* An UPDATE writes the row it is about, when there is one, and no other.
LEMMA UpdatedType ==
    ASSUME rows \in [Trips -> Row \cup {NoRow}], NEW t \in Trips, NEW row \in Row
    PROVE  /\ Updated(t, row) \in [Trips -> Row \cup {NoRow}]
           /\ \A u \in Trips \ {t} : Updated(t, row)[u] = rows[u]
           /\ Updated(t, row)[t] = IF rows[t] = NoRow THEN NoRow ELSE row
  BY DEF Updated

LEMMA TypeStep == TypeOK /\ InHand /\ [Next]_vars => TypeOK' /\ InHand'
  <1> SUFFICES ASSUME TypeOK, InHand, [Next]_vars PROVE TypeOK' /\ InHand'
    OBVIOUS
  <1> USE DispatchAssumption DEF Moving, Steps
  <1>1. ASSUME NEW t \in Trips, Request(t) PROVE TypeOK' /\ InHand'
    BY <1>1, AppendProperties DEF Request, TypeOK, InHand, Row, Statuses, redis, memory
  <1>2. ASSUME NEW d \in Drivers, ReportFree(d) \/ ReportBusy(d) PROVE TypeOK' /\ InHand'
    BY <1>2 DEF ReportFree, ReportBusy, TypeOK, InHand, kafka, store, memory
  <1>3. ASSUME NEW t \in Trips, BecomeDue(t) PROVE TypeOK' /\ InHand'
    <2>1. t \in Moving
      BY <1>3 DEF BecomeDue, Idle, Stages
    <2> QED BY <2>1, <1>3 DEF BecomeDue, TypeOK, InHand, kafka, store, redis
  <1>4. ASSUME NEW t \in Trips, Deliver(t) PROVE TypeOK' /\ InHand'
    BY <1>4, HeadTailProperties, AppendProperties DEF Deliver, TypeOK, InHand, store, redis, memory
  <1>5. ASSUME NEW t \in Trips, Expire(t) PROVE TypeOK' /\ InHand'
    BY <1>5 DEF Expire, TypeOK, InHand, kafka, store, memory
  <1>6. CASE Poll
    <2>1. taken' \in 0..MaxPerTick /\ position' \in Nat
      BY <1>6 DEF Poll, TypeOK
    <2>2. position + 1 \in 1..Len(requests)
      BY <1>6, LenProperties DEF Poll, TypeOK
    <2>3. cur' \in Trips
      BY <2>2, <1>6, ElementOfSeq, LenProperties DEF Poll, TypeOK
    <2> QED BY <2>1, <2>3, <1>6 DEF Poll, TypeOK, InHand, kafka, store, redis, Answering, Matching, MovingOn
  <1>7. CASE StopPolling
    BY <1>7 DEF StopPolling, TypeOK, InHand, kafka, store, redis, inHand, Answering, Matching, MovingOn
  <1>8. CASE CheckStored \/ SearchFails
    BY <1>8 DEF CheckStored, SearchFails, TypeOK, InHand, kafka, store, redis, inHand, Answering, Matching, MovingOn
  <1>9. CASE SearchOffers
    BY <1>9, ChainsType DEF SearchOffers, TypeOK, InHand, kafka, store, redis, Answering, Matching, MovingOn
  <1>10. CASE RecordOffers
    <2>1. chain' \in Seq(Offer)
      <3>1. chain' = <<>> \/ chain' = chain
        BY <1>10 DEF RecordOffers
      <3>2. <<>> \in Seq(Offer)
        OBVIOUS
      <3>3. chain \in Seq(Offer)
        BY DEF TypeOK
      <3> QED BY <3>1, <3>2, <3>3
    <2>2. cur \in Trips /\ offers[cur] \in Seq(Offer) /\ chain \in Seq(Offer)
      BY <1>10 DEF RecordOffers, TypeOK, InHand, Answering
    <2>3. offers[cur] \o Kept(offers[cur], chain) \in Seq(Offer)
      BY <2>2, KeptType
    <2>4. offers' \in [Trips -> Seq(Offer)]
      BY <2>3, <1>10 DEF RecordOffers, TypeOK
    <2> QED BY <2>1, <2>4, <1>10 DEF RecordOffers, TypeOK, InHand, kafka, redis, Answering, Matching, MovingOn
  <1>11. CASE AnnounceOffers
    BY <1>11, ConcatProperties DEF AnnounceOffers, TypeOK, InHand, store, redis, inHand, Answering, Matching, MovingOn
  <1>12. CASE TellNoDriver
    <2>1. outbox' \in [Trips -> Seq(Message)]
      BY <1>12, AnnounceType DEF TellNoDriver, Statuses, Finished, Reasons
    <2> QED BY <2>1, <1>12 DEF TellNoDriver, TypeOK, InHand, otherKafka, store, redis, inHand, Answering, Matching, MovingOn
  <1>13. CASE WriteNoDriver
    <2>1. rows' \in [Trips -> Row \cup {NoRow}]
      <3>1. rows[cur] \in Row \cup {NoRow} /\ cur \in Trips
        BY <1>13 DEF WriteNoDriver, TypeOK, InHand, Answering
      <3>2. UpdateStatus(rows[cur], "no_driver_found") \in Row
        BY <3>1, RowType DEF Statuses, Finished
      <3> QED BY <3>1, <3>2, <1>13, UpdatedType DEF WriteNoDriver, TypeOK
    <2> QED BY <2>1, <1>13 DEF WriteNoDriver, TypeOK, InHand, kafka, redis, inHand, Answering, Matching, MovingOn
  <1>14. CASE Assign
    <2>1. rows' \in [Trips -> Row \cup {NoRow}]
      <3>1. rows[cur] \in Row \cup {NoRow} /\ cur \in Trips
        BY <1>14 DEF Assign, TypeOK, InHand, Answering
      <3>2. [rows[cur] EXCEPT !.status = "matched", !.driver = Winner(chain)] \in Row
        BY <3>1, RowType, WinnerType DEF TypeOK, Statuses, Stages
      <3> QED BY <3>1, <3>2, <1>14, UpdatedType DEF Assign, TypeOK
    <2> QED BY <2>1, <1>14 DEF Assign, TypeOK, InHand, kafka, redis, inHand, Answering, Matching, MovingOn
  <1>15. CASE HideDriver
    BY <1>15 DEF HideDriver, TypeOK, InHand, kafka, store, inHand, Answering, Matching, MovingOn
  <1>16. CASE KeepMatch
    BY <1>16, WinnerType DEF KeepMatch, TypeOK, InHand, kafka, store, inHand, LiveState, Stages, Answering, Matching, MovingOn
  <1>17. CASE TellMatch
    <2>1. outbox' \in [Trips -> Seq(Message)]
      BY <1>17, AnnounceType, WinnerType DEF TellMatch, TypeOK, Statuses, Stages, Reasons
    <2> QED BY <2>1, <1>17 DEF TellMatch, TypeOK, InHand, otherKafka, store, redis, inHand, Answering, Matching, MovingOn
  <1>18. CASE Commit
    <2>1. Winner(chain) # None =>
            [status |-> "matched", driver |-> Winner(chain), stamps |-> {}] \in ActiveTrip
      BY WinnerType DEF TypeOK, ActiveTrip, Statuses, Stages
    <2>2. /\ cur \in Trips /\ pc' = "poll"
          /\ active' \in [Trips -> ActiveTrip \cup {Idle}]
      <3>1. cur \in Trips /\ pc' = "poll" /\ active \in [Trips -> ActiveTrip \cup {Idle}]
        BY <1>18 DEF Commit, TypeOK, InHand, Answering
      <3>2. CASE Winner(chain) = None
        BY <1>18, <3>1, <3>2 DEF Commit
      <3>3. CASE Winner(chain) # None
        <4>1. active' = [active EXCEPT ![cur] = [status |-> "matched", driver |-> Winner(chain), stamps |-> {}]]
          BY <1>18, <3>3 DEF Commit
        <4> QED BY <2>1, <3>1, <3>3, <4>1
      <3> QED BY <3>1, <3>2, <3>3
    <2>3. /\ todo' \subseteq due' /\ due' \subseteq due
          /\ \A t \in due' : active'[t] = active[t]
      <3>1. CASE Winner(chain) = None
        BY <1>18, <3>1 DEF Commit, TypeOK
      <3>2. CASE Winner(chain) # None
        <4>1. todo' = todo \ {cur} /\ due' = due \ {cur}
          BY <1>18, <3>2 DEF Commit
        <4>2. \A t \in Trips \ {cur} : active'[t] = active[t]
          BY <1>18 DEF Commit, TypeOK
        <4> QED BY <4>1, <4>2 DEF TypeOK
      <3> QED BY <3>1, <3>2
    <2>4. TypeOK'
      BY <1>18, <2>2, <2>3, EmptySeq DEF Commit, TypeOK, store, redis
    <2> QED BY <2>2, <2>3, <2>4 DEF InHand, Answering, Matching, MovingOn, Stages
  <1>19. ASSUME NEW t \in Trips, Advance(t) PROVE TypeOK' /\ InHand'
    <2>1. PICK s \in NextStatuses(active[t].status) :
              /\ active' = [active EXCEPT ![t].status = s, ![t].stamps = Stamp(@, s)]
              /\ pc' = IF s \in Finished THEN "tell" ELSE "keep"
      BY <1>19 DEF Advance
    <2>2. /\ active[t].status \in Stages /\ s \in Statuses \ {"requested"}
          /\ s \notin Finished => s \in Stages
      BY <2>1, NextStatusesType
    <2>3. active[t] \in ActiveTrip
      BY <2>2 DEF TypeOK, Idle, Stages
    <2>4. /\ active'[t] \in ActiveTrip /\ active'[t].status = s
          /\ active' \in [Trips -> ActiveTrip \cup {Idle}]
          /\ \A u \in Trips \ {t} : active'[u] = active[u]
      BY <2>1, <2>2, <2>3 DEF ActiveTrip, Stamp, TypeOK
    <2>5. active'[t] # Idle /\ active[t].status \in Statuses
      BY <2>4, <2>3, DispatchAssumption DEF ActiveTrip, Idle
    <2>6. TypeOK'
      BY <2>1, <2>4, <2>5, <1>19 DEF Advance, TypeOK, kafka, store, redis
    <2>7. InHand'
      BY <2>1, <2>2, <2>4, <2>5, <1>19 DEF Advance, TypeOK, InHand, Answering, Matching, MovingOn
    <2> QED BY <2>6, <2>7
  <1>20. CASE Keep
    BY <1>20 DEF Keep, TypeOK, InHand, kafka, store, inHand, LiveState, ActiveTrip, Idle, Answering, Matching, MovingOn
  <1>21. CASE Tell
    <2>1. outbox' \in [Trips -> Seq(Message)]
      BY <1>21, AnnounceType DEF Tell, TypeOK, InHand, MovingOn, ActiveTrip, Reasons, ReasonFor
    <2> QED BY <2>1, <1>21 DEF Tell, TypeOK, InHand, otherKafka, store, redis, inHand, Answering, Matching, MovingOn
  <1>22. CASE Write
    <2>1. active[cur] \in ActiveTrip /\ cur \in Trips
      BY <1>22 DEF Write, TypeOK, InHand, MovingOn
    <2>2. rows' \in [Trips -> Row \cup {NoRow}]
      <3>1. UpdateStatus(rows[cur], active[cur].status) \in Row
        BY <2>1, RowType DEF TypeOK, ActiveTrip
      <3> QED BY <2>1, <3>1, <1>22, UpdatedType DEF Write, TypeOK
    <2>3. /\ pc' \in {"rate", "forget", "move"} /\ cur' \in Trips \cup {None}
          /\ pc' \in {"rate", "forget"} => active[cur].status \in Finished
      BY <2>1, <1>22 DEF Write, Finished
    <2>4. pc' # "move" => cur' = cur
      BY <2>3, <1>22 DEF Write
    <2>5. TypeOK'
      BY <2>2, <2>3, <1>22 DEF Write, TypeOK, kafka, redis, Statuses
    <2> QED BY <2>1, <2>3, <2>4, <2>5, <1>22 DEF Write, InHand, Answering, Matching, MovingOn
  <1>23. CASE Rate
    BY <1>23 DEF Rate, TypeOK, InHand, kafka, redis, inHand, Answering, Matching, MovingOn
  <1>24. CASE Forget
    BY <1>24 DEF Forget, TypeOK, InHand, kafka, store, Finished, Stages, Answering, Matching, MovingOn
  <1>25. CASE NextTick
    <2>1. live' \in [Trips -> LiveState \cup {NoKey}]
      <3>1. ASSUME NEW t \in Trips, active[t].status = "in_progress"
            PROVE  [status |-> "in_progress", driver |-> active[t].driver] \in LiveState
        BY <3>1 DEF TypeOK, LiveState, ActiveTrip, Idle, Stages
      <3> QED BY <3>1, <1>25 DEF NextTick, TypeOK
    <2> QED BY <2>1, <1>25 DEF NextTick, TypeOK, InHand, kafka, store, Answering, Matching, MovingOn
  <1>26. CASE Crash
    <2>1. PICK kept \in [Trips -> UNION {0..Len(offerLog[t]) : t \in Trips}] :
            /\ \A t \in Trips : kept[t] \in offerSafe[t]..Len(offerLog[t])
            /\ offerSafe' = kept
            /\ offerLog' = [t \in Trips |-> SubSeq(offerLog[t], 1, kept[t])]
      BY <1>26 DEF Crash
    <2>2. \A t \in Trips : /\ offerLog[t] \in Seq(Offer) /\ Len(offerLog[t]) \in Nat
                           /\ kept[t] \in 0..Len(offerLog[t])
      <3> SUFFICES ASSUME NEW t \in Trips
                   PROVE  /\ offerLog[t] \in Seq(Offer) /\ Len(offerLog[t]) \in Nat
                          /\ kept[t] \in 0..Len(offerLog[t])
        OBVIOUS
      <3>1. offerLog[t] \in Seq(Offer) /\ offerSafe[t] \in Nat
        BY DEF TypeOK
      <3>2. Len(offerLog[t]) \in Nat
        BY <3>1, LenProperties
      <3>3. kept[t] \in offerSafe[t]..Len(offerLog[t])
        BY <2>1
      <3> QED BY <3>1, <3>2, <3>3
    <2>3. offerSafe' \in [Trips -> Nat]
      <3>1. offerSafe' = kept /\ kept = [t \in Trips |-> kept[t]] /\ \A t \in Trips : kept[t] \in Nat
        BY <2>1, <2>2
      <3> QED BY <3>1
    <2>4. \A t \in Trips : SubSeq(offerLog[t], 1, kept[t]) \in Seq(Offer)
      BY <2>2, SubSeqProperties, ElementOfSeq
    <2>5. offerLog' \in [Trips -> Seq(Offer)]
      BY <2>1, <2>4
    <2>6. /\ outbox' = [t \in Trips |-> <<>>] /\ Restart /\ crashes' \in 0..MaxCrashes
          /\ UNCHANGED <<requests, committed, topic, store, redis>>
      <3>1. /\ outbox' = [t \in Trips |-> <<>>] /\ Restart
            /\ UNCHANGED <<requests, committed, topic, store, redis>>
            /\ crashes < MaxCrashes /\ crashes' = crashes + 1
        BY <1>26 DEF Crash
      <3>2. crashes \in 0..MaxCrashes
        BY DEF TypeOK
      <3>3. crashes' \in 0..MaxCrashes
        BY <3>1, <3>2
      <3> QED BY <3>1, <3>3
    <2>7. TypeOK'
      <3>1. /\ pc' = "poll" /\ position' \in Nat /\ taken' \in 0..MaxPerTick
            /\ cur' = None /\ chain' \in Seq(Offer) /\ before' \in Statuses
            /\ todo' = {} /\ due' = {}
        BY <2>6, EmptySeq DEF Restart, TypeOK, Statuses
      <3>2. outbox' \in [Trips -> Seq(Message)] /\ active' \in [Trips -> ActiveTrip \cup {Idle}]
        BY <2>6, EmptySeq DEF Restart
      <3> QED BY <2>3, <2>5, <2>6, <3>1, <3>2 DEF TypeOK, store, redis
    <2>8. InHand'
      BY <2>6 DEF Restart, InHand, Answering, Matching, MovingOn
    <2> QED BY <2>7, <2>8
  <1>27. CASE UNCHANGED vars
    BY <1>27 DEF vars, kafka, store, redis, memory, TypeOK, InHand
  <1> QED
    BY <1>1, <1>2, <1>3, <1>4, <1>5, <1>6, <1>7, <1>8, <1>9, <1>10, <1>11, <1>12, <1>13, <1>14,
       <1>15, <1>16, <1>17, <1>18, <1>19, <1>20, <1>21, <1>22, <1>23, <1>24, <1>25, <1>26, <1>27
    DEF Next, CalmNext, Step, Surroundings, Answer, Move

\* Every variable keeps its type, and at every step the process holds what the
\* step needs.
THEOREM TypeCorrect == Spec => []TypeOK
  <1>1. Spec => [](TypeOK /\ InHand)
    BY InitType, TypeStep, PTL DEF Spec
  <1> QED BY <1>1, PTL

LEMMA HandCorrect == Spec => []InHand
  <1>1. Spec => [](TypeOK /\ InHand)
    BY InitType, TypeStep, PTL DEF Spec
  <1> QED BY <1>1, PTL

-----------------------------------------------------------------------------
(* No request is passed over without a trace. *)

\* The consumer stands between the committed offset and the end of the topic.
LEMMA OffsetBounds ==
    ASSUME TypeOK, NextInLine
    PROVE  /\ Len(requests) \in Nat /\ committed \in Nat /\ committed <= Len(requests)
           /\ \A i \in 1..Len(requests) : requests[i] \in Trips
           /\ pc \in Answering => position \in 1..Len(requests)
  <1>1. Len(requests) \in Nat /\ committed \in Nat /\ position \in Nat
    BY LenProperties DEF TypeOK
  <1>2. position = committed \/ position = committed + 1
    BY DEF NextInLine
  <1>3. \A i \in 1..Len(requests) : requests[i] \in Trips
    BY LenProperties, ElementOfSeq DEF TypeOK
  <1> QED BY <1>1, <1>2, <1>3 DEF NextInLine

\* What is decided stays decided, as long as no row goes back to requested
\* and no acceptance is lost.
LEMMA DecidedStays ==
    ASSUME CommittedMeansDecided, NextInLine, TypeOK,
           committed' = committed,
           \A i \in 1..Len(requests) : requests'[i] = requests[i],
           \A t \in Trips : rows[t].status \in Statuses =>
               /\ rows'[t].status = "requested" => rows[t].status = "requested"
               /\ Accepts(offers[t]) # {} => Accepts(offers'[t]) # {}
    PROVE  CommittedMeansDecided'
  <1>1. ASSUME NEW i \in 1..committed
        PROVE  rows'[requests'[i]].status # "requested" \/ Accepts(offers'[requests'[i]]) # {}
    <2>1. i \in 1..Len(requests) /\ requests[i] \in Trips
      BY OffsetBounds
    <2>2. rows[requests[i]].status # "requested" \/ Accepts(offers[requests[i]]) # {}
      BY DEF CommittedMeansDecided
    <2>3. rows[requests[i]].status \in Statuses
      BY <2>1 DEF NextInLine
    <2> QED BY <2>1, <2>2, <2>3
  <1> QED BY <1>1 DEF CommittedMeansDecided

LEMMA LineStep ==
    TypeOK /\ InHand /\ NextInLine /\ AnswerOnRecord /\ [Next]_vars
        => NextInLine' /\ AnswerOnRecord'
  <1> SUFFICES ASSUME TypeOK, InHand, NextInLine, AnswerOnRecord, [Next]_vars
               PROVE  NextInLine' /\ AnswerOnRecord'
    OBVIOUS
  <1> USE DispatchAssumption
  <1>1. ASSUME NEW t \in Trips, Request(t) PROVE NextInLine' /\ AnswerOnRecord'
    <2>1. /\ requests' \in Seq(Trips) /\ Len(requests') = Len(requests) + 1
          /\ \A i \in 1..Len(requests) : requests'[i] = requests[i]
          /\ requests'[Len(requests) + 1] = t
      BY <1>1, AppendProperties DEF Request, TypeOK
    <2>2. /\ rows'[t].status = "requested"
          /\ \A u \in Trips \ {t} : rows'[u] = rows[u]
      BY <1>1 DEF Request, TypeOK
    <2>9. rows[t].status \notin Statuses
      <3>1. rows[t] = NoRow
        BY <1>1 DEF Request
      <3>2. NoRow.status = "no row"
        BY DEF NoRow
      <3>3. "no row" \notin Statuses
        BY DEF Statuses, Stages, Finished
      <3> QED BY <3>1, <3>2, <3>3
    <2>3. \A i \in 1..Len(requests) : requests[i] \in Trips \ {t}
      BY <2>9, OffsetBounds DEF NextInLine
    <2>4. UNCHANGED <<pc, position, committed, cur, offers>>
      BY <1>1 DEF Request, memory
    <2>5. NextInLine'
      <3>1. \A i \in 1..Len(requests') : rows'[requests'[i]].status \in Statuses
        <4>1. ASSUME NEW i \in 1..Len(requests')
              PROVE  rows'[requests'[i]].status \in Statuses
          <5>1. CASE i = Len(requests) + 1
            BY <5>1, <2>1, <2>2 DEF Statuses
          <5>2. CASE i \in 1..Len(requests)
            BY <5>2, <2>1, <2>2, <2>3 DEF NextInLine
          <5> QED BY <5>1, <5>2, <2>1, OffsetBounds
        <4> QED BY <4>1
      <3>2. position' <= Len(requests')
        <4>1. position \in Nat /\ Len(requests) \in Nat
          BY LenProperties DEF TypeOK
        <4>2. position <= Len(requests) /\ position' = position
          BY <2>4 DEF NextInLine
        <4> QED BY <2>1, <4>1, <4>2
      <3>3. pc' \in Answering => cur' = requests'[position']
        BY <2>1, <2>4, OffsetBounds DEF NextInLine
      <3> QED BY <2>4, <3>1, <3>2, <3>3 DEF NextInLine
    <2>6. CommittedMeansDecided'
      BY <2>1, <2>2, <2>4, <2>9, DecidedStays DEF AnswerOnRecord
    <2>7. pc \in Answering => cur \in Trips \ {t}
      BY <2>3, OffsetBounds DEF NextInLine
    <2>8. pc \in Answering => rows'[cur] = rows[cur]
      BY <2>2, <2>7
    <2> QED BY <2>4, <2>5, <2>6, <2>8 DEF AnswerOnRecord, Decided, Answering, Matching
  <1>2. ASSUME UNCHANGED <<requests, committed, position, rows, offers, pc, cur>>
        PROVE  NextInLine' /\ AnswerOnRecord'
    BY <1>2 DEF NextInLine, AnswerOnRecord, Decided, CommittedMeansDecided
  <1>3. CASE Poll
    <2>1. position + 1 <= Len(requests) /\ position + 1 \in 1..Len(requests)
      BY <1>3, LenProperties DEF Poll, TypeOK
    <2>2. NextInLine'
      BY <2>1, <1>3 DEF Poll, NextInLine, TypeOK, Answering, kafka, store
    <2> QED BY <2>2, <1>3 DEF Poll, AnswerOnRecord, CommittedMeansDecided, kafka, store, Matching
  <1>4. CASE StopPolling \/ CheckStored \/ SearchFails \/ SearchOffers \/ AnnounceOffers
             \/ TellNoDriver \/ HideDriver \/ KeepMatch \/ TellMatch
    <2>1. UNCHANGED <<requests, committed, position, rows, offers, cur>>
      BY <1>4 DEF StopPolling, CheckStored, SearchFails, SearchOffers, AnnounceOffers,
           TellNoDriver, HideDriver, KeepMatch, TellMatch, kafka, otherKafka, store, inHand
    <2>2. pc \in Answering <=> pc' \in Answering
      BY <1>4 DEF StopPolling, CheckStored, SearchFails, SearchOffers, AnnounceOffers,
           TellNoDriver, HideDriver, KeepMatch, TellMatch, Answering
    <2>3. pc' \in Matching \ {"assign"} => pc \in Matching \ {"assign"}
      BY <1>4 DEF StopPolling, CheckStored, SearchFails, SearchOffers, AnnounceOffers,
           TellNoDriver, HideDriver, KeepMatch, TellMatch, Matching
    <2>4. pc' = "commit" => pc \in Matching \ {"assign"} \/ Accepts(offers[cur]) # {}
      BY <1>4 DEF StopPolling, CheckStored, SearchFails, SearchOffers, AnnounceOffers,
           TellNoDriver, HideDriver, KeepMatch, TellMatch, Matching
    <2>5. NextInLine'
      BY <2>1, <2>2 DEF NextInLine
    <2> QED BY <2>1, <2>3, <2>4, <2>5 DEF AnswerOnRecord, Decided, CommittedMeansDecided
  <1>5. CASE RecordOffers
    <2>1. /\ cur \in Trips /\ offers[cur] \in Seq(Offer) /\ chain \in Seq(Offer)
          /\ UNCHANGED <<requests, committed, position, rows, cur>>
          /\ pc = "record" /\ pc' \in {"commit", "tell_offers"}
      BY <1>5 DEF RecordOffers, TypeOK, InHand, Answering, kafka
    <2>2. /\ pc' = "commit" => Accepts(offers[cur]) # {}
          /\ offers' = offers
                \/ offers' = [offers EXCEPT ![cur] = @ \o Kept(@, chain)]
      BY <1>5 DEF RecordOffers
    <2>3. \A t \in Trips : Accepts(offers[t]) # {} => Accepts(offers'[t]) # {}
      BY <2>1, <2>2, KeptType DEF TypeOK
    <2>4. CommittedMeansDecided'
      BY <2>1, <2>3, DecidedStays DEF AnswerOnRecord
    <2>5. NextInLine'
      BY <2>1 DEF NextInLine, Answering
    <2> QED BY <2>1, <2>2, <2>3, <2>4, <2>5 DEF AnswerOnRecord, Decided, Matching
  <1>6. CASE WriteNoDriver \/ Assign
    <2>1. /\ cur \in Trips /\ pc \in Answering
          /\ UNCHANGED <<requests, committed, position, offers, cur>>
          /\ pc' \in {"commit", "hide"}
      BY <1>6 DEF WriteNoDriver, Assign, InHand, Answering, kafka, inHand
    <2>2. /\ \A t \in Trips \ {cur} : rows'[t] = rows[t]
          /\ rows'[cur].status \in {"matched", "no_driver_found"}
      <3>1. rows \in [Trips -> Row \cup {NoRow}]
        BY DEF TypeOK
      <3>2. rows[cur] # NoRow
        <4>1. rows[cur].status \in Statuses
          BY <2>1, OffsetBounds DEF NextInLine
        <4>2. NoRow.status = "no row"
          BY DEF NoRow
        <4>3. "no row" \notin Statuses
          BY DEF Statuses, Stages, Finished
        <4> QED BY <4>1, <4>2, <4>3
      <3>3. ASSUME NEW r \in Row, NEW s, NEW d
            PROVE  /\ UpdateStatus(r, s).status = s
                   /\ [r EXCEPT !.status = s, !.driver = d].status = s
        BY DEF Row, UpdateStatus
      <3>4. rows[cur] \in Row
        BY <2>1, <3>1, <3>2
      <3>5. CASE WriteNoDriver
        BY <3>1, <3>2, <3>3, <3>4, <3>5, <2>1 DEF WriteNoDriver, Updated
      <3>6. CASE Assign
        BY <3>1, <3>2, <3>3, <3>4, <3>6, <2>1 DEF Assign, Updated
      <3> QED BY <3>5, <3>6, <1>6
    <2>3. CommittedMeansDecided'
      BY <2>1, <2>2, DecidedStays DEF AnswerOnRecord
    <2>4. NextInLine'
      <3>1. \A i \in 1..Len(requests) : requests[i] \in Trips
        BY ElementOfSeq, LenProperties DEF TypeOK
      <3> QED BY <3>1, <2>1, <2>2 DEF NextInLine, Answering, Statuses, Stages, Finished
    <2> QED BY <2>1, <2>2, <2>3, <2>4 DEF AnswerOnRecord, Decided, Matching
  <1>7. CASE Commit
    <2>1. /\ committed' = position /\ position = committed + 1 /\ cur = requests[position]
          /\ Decided(cur) /\ pc' = "poll"
          /\ UNCHANGED <<requests, position, rows, offers>>
      BY <1>7 DEF Commit, NextInLine, AnswerOnRecord, Answering, store
    <2>2. NextInLine'
      BY <2>1 DEF NextInLine, Answering
    <2>3. CommittedMeansDecided'
      <3>1. \A i \in 1..committed' : i \in 1..committed \/ i = position
        BY <2>1, OffsetBounds
      <3> QED BY <2>1, <3>1 DEF CommittedMeansDecided, AnswerOnRecord, Decided
    <2> QED BY <2>1, <2>2, <2>3 DEF AnswerOnRecord, Matching
  <1>8. CASE Write
    <2>1. /\ cur \in Trips /\ active[cur] \in ActiveTrip
          /\ UNCHANGED <<requests, committed, position, offers>>
          /\ pc = "write" /\ pc' \in {"rate", "forget", "move"}
      BY <1>8 DEF Write, TypeOK, InHand, MovingOn, kafka, Finished
    <2>2. /\ \A t \in Trips \ {cur} : rows'[t] = rows[t]
          /\ rows[cur].status \in Statuses => rows'[cur].status \in Statuses \ {"requested"}
      <3>1. rows \in [Trips -> Row \cup {NoRow}]
        BY DEF TypeOK
      <3>2. ASSUME NEW s
            PROVE  rows[cur] \in Row => UpdateStatus(rows[cur], s).status = s
        BY DEF Row, UpdateStatus
      <3>3. NoRow.status \notin Statuses
        <4>1. NoRow.status = "no row"
          BY DEF NoRow
        <4> QED BY <4>1 DEF Statuses, Stages, Finished
      <3> QED BY <3>1, <3>2, <3>3, <2>1, <1>8 DEF Write, Updated, ActiveTrip
    <2>3. CommittedMeansDecided'
      BY <2>1, <2>2, DecidedStays DEF AnswerOnRecord
    <2>4. NextInLine'
      <3>1. \A i \in 1..Len(requests) : requests[i] \in Trips
        BY ElementOfSeq, LenProperties DEF TypeOK
      <3> QED BY <3>1, <2>1, <2>2 DEF NextInLine, Answering
    <2> QED BY <2>1, <2>3, <2>4 DEF AnswerOnRecord, Matching
  <1>9. CASE Crash
    <2>1. /\ UNCHANGED <<requests, committed, rows, offers>>
          /\ pc' = "poll" /\ position' = committed
      BY <1>9 DEF Crash, Restart, store
    <2> QED BY <2>1, OffsetBounds DEF NextInLine, AnswerOnRecord, CommittedMeansDecided,
                                      Answering, Matching
  <1>10. CASE (\E t \in Trips : Advance(t)) \/ Keep \/ Tell \/ Rate \/ Forget \/ NextTick
    <2>1. /\ UNCHANGED <<requests, committed, position, rows, offers>>
          /\ pc \notin Answering /\ pc' \notin Answering
      BY <1>10 DEF Advance, Keep, Tell, Rate, Forget, NextTick, kafka, otherKafka, store,
                   inHand, Answering
    <2> QED BY <2>1 DEF NextInLine, AnswerOnRecord, Decided, CommittedMeansDecided, Answering, Matching
  <1>11. ASSUME NEW t \in Trips, BecomeDue(t) \/ Deliver(t) \/ Expire(t)
         PROVE  UNCHANGED <<requests, committed, position, rows, offers, pc, cur>>
    BY <1>11 DEF BecomeDue, Deliver, Expire, kafka, store, memory
  <1>12. ASSUME NEW d \in Drivers, ReportFree(d) \/ ReportBusy(d)
         PROVE  UNCHANGED <<requests, committed, position, rows, offers, pc, cur>>
    BY <1>12 DEF ReportFree, ReportBusy, kafka, store, memory
  <1>13. CASE UNCHANGED vars
    BY <1>2, <1>13 DEF vars, kafka, store, memory
  <1> QED
    BY <1>1, <1>2, <1>3, <1>4, <1>5, <1>6, <1>7, <1>8, <1>9, <1>10, <1>11, <1>12, <1>13
    DEF Next, CalmNext, Step, Surroundings, Answer, Move

LEMMA InitLine == Init => NextInLine /\ AnswerOnRecord
  BY DEF Init, InitOutside, NextInLine, AnswerOnRecord, CommittedMeansDecided, Answering, Matching

\* The inductive invariant holds.
THEOREM InductiveHolds == Spec => []Inductive
  <1>1. TypeOK /\ InHand /\ NextInLine /\ AnswerOnRecord /\ [Next]_vars
            => (TypeOK /\ InHand /\ NextInLine /\ AnswerOnRecord)'
    BY TypeStep, LineStep
  <1>2. Spec => [](TypeOK /\ InHand /\ NextInLine /\ AnswerOnRecord)
    BY <1>1, InitType, InitLine, PTL DEF Spec
  <1> QED BY <1>2, PTL DEF Inductive

\* Whatever crashes: the committed offset never passes a request that has left
\* neither an answer in its row nor an accepted offer on record.
THEOREM NoRequestLost == Spec => []CommittedMeansDecided
  <1>1. Inductive => CommittedMeansDecided
    BY DEF Inductive, AnswerOnRecord
  <1> QED BY <1>1, InductiveHolds, PTL

-----------------------------------------------------------------------------
(***************************************************************************)
(* The copies of a trip.  What is true at every step, for the theorems     *)
(* below: every trip is asked for once, and only a trip whose request is   *)
(* committed is in the process's memory ...                                *)
(***************************************************************************)
Answered(t) == \E i \in 1..committed : requests[i] = t

AskedOnce ==
    /\ \A i, j \in 1..Len(requests) : requests[i] = requests[j] => i = j
    /\ \A t \in Moving : Answered(t)

\* ... a chain somebody accepted is in hand only between the search and the
\* commit ...
ChainInHand ==
    pc \notin {"record", "tell_offers", "commit"} \cup Matching => Winner(chain) = None

\* ... from the assignment on, row, live state and message follow one another
\* until the match is committed ...
Matched == pc \in {"hide", "keep_match", "tell_match"} \/ (pc = "commit" /\ Winner(chain) # None)

MatchInHand ==
    /\ Matched => rows[cur].status = "matched" /\ rows[cur].driver = Winner(chain)
    /\ Matched /\ pc \notin {"hide", "keep_match"} =>
          live[cur] = [status |-> "matched", driver |-> Winner(chain)]
    /\ Matched /\ pc = "commit" => Latest(Told(cur)) = "matched"

Shown(t, s) == live[t] = [status |-> s, driver |-> active[t].driver]

\* ... so they do when a trip moves along ...
MoveInHand ==
    /\ pc \in MovingOn => rows[cur].driver = active[cur].driver
    /\ pc \in {"keep", "tell", "write"} =>
          /\ active[cur].status \in NextStatuses(before)
          /\ rows[cur].status = before
          /\ Shown(cur, IF pc = "keep" \/ active[cur].status \in Finished THEN before
                        ELSE active[cur].status)
    /\ pc \in {"keep", "tell"} => Latest(Told(cur)) = before
    /\ pc \in {"write", "rate", "forget"} => Latest(Told(cur)) = active[cur].status
    /\ pc \in {"rate", "forget"} => rows[cur].status = active[cur].status

Agrees(t) ==
    /\ active[t].status \in Stages
    /\ rows[t].status = active[t].status
    /\ rows[t].driver = active[t].driver
    /\ Shown(t, active[t].status)
    /\ Latest(Told(t)) = active[t].status

\* ... and every other trip in the process's memory is the same everywhere.
Settled == \A t \in Moving : (t = cur /\ pc \in MovingOn) \/ Agrees(t)

Copies == AskedOnce /\ ChainInHand /\ MatchInHand /\ MoveInHand /\ Settled

-----------------------------------------------------------------------------
(* The operators. *)

\* A message that is handed to the producer is the last one told.
LEMMA LatestAppend ==
    ASSUME NEW sent \in Seq(Message), NEW queue \in Seq(Message), NEW m \in Message
    PROVE  Latest(sent \o Append(queue, m)) = m.status
  <1>1. /\ Append(queue, m) \in Seq(Message) /\ Len(Append(queue, m)) = Len(queue) + 1
        /\ Append(queue, m)[Len(queue) + 1] = m
    BY AppendProperties
  <1>2. Len(sent) \in Nat /\ Len(queue) \in Nat
    BY LenProperties
  <1> DEFINE both == sent \o Append(queue, m)
  <1>3. /\ both \in Seq(Message) /\ Len(both) = Len(sent) + Len(queue) + 1
        /\ both[Len(sent) + (Len(queue) + 1)] = m
    BY <1>1, <1>2, ConcatProperties
  <1>4. both # <<>>
    BY <1>2, <1>3, EmptySeq
  <1> QED BY <1>2, <1>3, <1>4 DEF Latest

\* A delivery changes nothing about what is told.
LEMMA DeliverTold ==
    ASSUME NEW sent \in Seq(Message), NEW queue \in Seq(Message), queue # <<>>
    PROVE  Append(sent, Head(queue)) \o Tail(queue) = sent \o queue
  <1>1. /\ Head(queue) \in Message /\ Tail(queue) \in Seq(Message)
        /\ Len(Tail(queue)) = Len(queue) - 1 /\ Head(queue) = queue[1]
        /\ \A i \in 1..Len(Tail(queue)) : Tail(queue)[i] = queue[i + 1]
    BY HeadTailProperties
  <1>2. /\ Append(sent, Head(queue)) \in Seq(Message)
        /\ Len(Append(sent, Head(queue))) = Len(sent) + 1
        /\ \A i \in 1..Len(sent) : Append(sent, Head(queue))[i] = sent[i]
        /\ Append(sent, Head(queue))[Len(sent) + 1] = queue[1]
    BY <1>1, AppendProperties
  <1>3. Len(sent) \in Nat /\ Len(queue) \in Nat \ {0}
    BY LenProperties, EmptySeq
  <1> DEFINE l == Append(sent, Head(queue)) \o Tail(queue)
             r == sent \o queue
  <1>4. /\ l \in Seq(Message) /\ Len(l) = Len(sent) + 1 + (Len(queue) - 1)
        /\ \A i \in 1..Len(sent) + 1 + (Len(queue) - 1) :
              l[i] = IF i <= Len(sent) + 1 THEN Append(sent, Head(queue))[i]
                     ELSE Tail(queue)[i - (Len(sent) + 1)]
    BY <1>1, <1>2, ConcatProperties
  <1>5. /\ r \in Seq(Message) /\ Len(r) = Len(sent) + Len(queue)
        /\ \A i \in 1..Len(sent) + Len(queue) :
              r[i] = IF i <= Len(sent) THEN sent[i] ELSE queue[i - Len(sent)]
    BY ConcatProperties
  <1>6. ASSUME NEW i \in 1..Len(l) PROVE l[i] = r[i]
    <2>1. CASE i <= Len(sent)
      BY <2>1, <1>2, <1>3, <1>4, <1>5
    <2>2. CASE i = Len(sent) + 1
      BY <2>2, <1>2, <1>3, <1>4, <1>5
    <2>3. CASE i > Len(sent) + 1
      <3>1. /\ i - (Len(sent) + 1) \in 1..Len(Tail(queue))
            /\ (i - (Len(sent) + 1)) + 1 = i - Len(sent)
        BY <2>3, <1>1, <1>3, <1>4
      <3> QED BY <3>1, <2>3, <1>1, <1>3, <1>4, <1>5
    <2> QED BY <2>1, <2>2, <2>3, <1>3, <1>4
  <1> QED BY <1>3, <1>4, <1>5, <1>6, SeqEqual

\* An announcement is about the trip in hand, and is the last thing told of it.
LEMMA AnnounceTells ==
    ASSUME TypeOK, cur \in Trips, topic' = topic,
           NEW status \in Statuses, NEW driver \in Drivers \cup {None},
           NEW stamps \in SUBSET Milestones, NEW reason \in Reasons,
           Announce(status, driver, stamps, reason)
    PROVE  \A t \in Trips : IF t = cur THEN Latest(Told(t)') = status ELSE Told(t)' = Told(t)
  <1> DEFINE m == [status |-> status, driver |-> driver, stamps |-> stamps, reason |-> reason]
  <1>1. m \in Message /\ m.status = status
    BY DEF Message
  <1>2. outbox'[cur] = Append(outbox[cur], m) /\ \A t \in Trips \ {cur} : outbox'[t] = outbox[t]
    BY DEF Announce, TypeOK
  <1>3. topic[cur] \in Seq(Message) /\ outbox[cur] \in Seq(Message)
    BY DEF TypeOK
  <1>4. Latest(topic[cur] \o Append(outbox[cur], m)) = status
    BY <1>1, <1>3, LatestAppend
  <1> QED BY <1>2, <1>4 DEF Told

\* Deliveries do not change what is told.
LEMMA DeliverKeepsTold ==
    ASSUME TypeOK, NEW t \in Trips, Deliver(t)
    PROVE  \A u \in Trips : Told(u)' = Told(u)
  <1>1. topic[t] \in Seq(Message) /\ outbox[t] \in Seq(Message) /\ outbox[t] # <<>>
    BY DEF Deliver, TypeOK
  <1>2. /\ topic'[t] = Append(topic[t], Head(outbox[t])) /\ outbox'[t] = Tail(outbox[t])
        /\ \A u \in Trips \ {t} : topic'[u] = topic[u] /\ outbox'[u] = outbox[u]
    BY DEF Deliver, TypeOK
  <1>3. topic'[t] \o outbox'[t] = topic[t] \o outbox[t]
    BY <1>1, <1>2, DeliverTold
  <1> QED BY <1>2, <1>3 DEF Told

\* Nobody wins an empty chain.
LEMMA NoWinner == Winner(<<>>) = None
  BY DEF Winner, Accepts

LEMMA NoRowStatus == NoRow.status = "no row" /\ "no row" \notin Statuses
  BY DEF NoRow, Statuses, Stages, Finished

\* The trip being answered is not yet in the process's memory, and it has a
\* row; so has every trip in memory.
LEMMA AnsweringIsNew ==
    ASSUME TypeOK, InHand, NextInLine, AskedOnce
    PROVE  /\ pc \in Answering => cur \in Trips /\ cur \notin Moving /\ rows[cur] \in Row
           /\ \A t \in Moving : rows[t] \in Row
  <1>1. \A i \in 1..Len(requests) : requests[i] \in Trips /\ rows[requests[i]] \in Row
    BY NoRowStatus, OffsetBounds DEF NextInLine, TypeOK
  <1>2. ASSUME NEW t \in Moving PROVE rows[t] \in Row
    BY <1>1, OffsetBounds DEF AskedOnce, Answered
  <1>3. ASSUME pc \in Answering PROVE cur \in Trips /\ cur \notin Moving /\ rows[cur] \in Row
    <2>1. position = committed + 1 /\ cur = requests[position] /\ position \in 1..Len(requests)
      BY <1>3, OffsetBounds DEF NextInLine
    <2>2. ~Answered(cur)
      BY <2>1, OffsetBounds DEF Answered, AskedOnce
    <2> QED BY <1>1, <2>1, <2>2 DEF AskedOnce
  <1> QED BY <1>2, <1>3

\* A new request is about a trip nobody has in hand.
LEMMA RequestIsNew ==
    ASSUME TypeOK, InHand, NextInLine, AskedOnce, NEW t \in Trips, Request(t)
    PROVE  /\ t \notin Moving /\ (pc \in Answering \cup MovingOn => t # cur)
           /\ \A u \in Trips \ {t} : rows'[u] = rows[u]
  <1>1. rows[t] = NoRow /\ NoRow \notin Row
    BY NoRowStatus DEF Request, Row
  <1>2. \A u \in Trips \ {t} : rows'[u] = rows[u]
    BY DEF Request, TypeOK
  <1>3. pc \in MovingOn => cur \in Moving
    BY DEF InHand, Moving
  <1> QED BY <1>1, <1>2, <1>3, AnsweringIsNew

-----------------------------------------------------------------------------
(* The steps. *)

LEMMA AskedStep ==
    TypeOK /\ InHand /\ NextInLine /\ AskedOnce /\ [Next]_vars => AskedOnce'
  <1> SUFFICES ASSUME TypeOK, InHand, NextInLine, AskedOnce, [Next]_vars PROVE AskedOnce'
    OBVIOUS
  <1> USE DEF Moving
  <1>1. ASSUME NEW t \in Trips, Request(t) PROVE AskedOnce'
    <2>1. /\ Len(requests) \in Nat /\ Len(requests') = Len(requests) + 1
          /\ \A i \in 1..Len(requests) : requests'[i] = requests[i] /\ requests[i] # t
          /\ requests'[Len(requests) + 1] = t
      <3>1. requests \in Seq(Trips) /\ requests' = Append(requests, t)
        BY <1>1 DEF Request, TypeOK
      <3>2. DOMAIN requests = 1..Len(requests) /\ Len(requests) \in Nat
        BY <3>1, LenProperties
      <3>3. \A i \in 1..Len(requests) : requests[i] # t
        BY <1>1, <3>2 DEF Request
      <3> QED BY <3>1, <3>2, <3>3, AppendProperties
    <2>2. \A i \in 1..Len(requests') : i \in 1..Len(requests) \/ i = Len(requests) + 1
      BY <2>1
    <2>3. \A i, j \in 1..Len(requests') : requests'[i] = requests'[j] => i = j
      BY <2>1, <2>2 DEF AskedOnce
    <2>4. UNCHANGED <<committed, active>>
      BY <1>1 DEF Request, memory
    <2>5. \A u \in Trips : Answered(u) => Answered(u)'
      <3>1. \A i \in 1..committed : i \in 1..Len(requests)
        BY OffsetBounds
      <3> QED BY <2>1, <2>4, <3>1 DEF Answered
    <2> QED BY <2>3, <2>4, <2>5 DEF AskedOnce
  <1>2. CASE UNCHANGED <<requests, committed, active>>
    BY <1>2 DEF AskedOnce, Answered
  <1>3. CASE Commit
    <2>1. /\ committed' = position /\ position = committed + 1 /\ cur = requests[position]
          /\ requests' = requests /\ \A u \in Trips \ {cur} : active'[u] = active[u]
      BY <1>3 DEF Commit, NextInLine, Answering, TypeOK
    <2>2. \A u \in Trips : u = cur \/ Answered(u) => Answered(u)'
      BY <2>1, OffsetBounds DEF Answered
    <2> QED BY <2>1, <2>2 DEF AskedOnce
  <1>4. ASSUME NEW t \in Trips, Advance(t) PROVE AskedOnce'
    <2>1. /\ UNCHANGED <<requests, committed>> /\ active[t].status \in Stages
          /\ \A u \in Trips \ {t} : active'[u] = active[u]
      BY <1>4, NextStatusesType DEF Advance, kafka, TypeOK
    <2>2. active[t] # Idle
      BY <2>1 DEF Idle, Stages
    <2> QED BY <2>1, <2>2 DEF AskedOnce, Answered
  <1>5. CASE Forget \/ Crash
    <2>1. /\ UNCHANGED <<requests, committed>>
          /\ \A u \in Trips : active'[u] # Idle => active[u] # Idle
      BY <1>5 DEF Forget, Crash, Restart, kafka, TypeOK
    <2> QED BY <2>1 DEF AskedOnce, Answered
  <1>6. ASSUME NEW t \in Trips, BecomeDue(t) \/ Deliver(t) \/ Expire(t)
        PROVE  UNCHANGED <<requests, committed, active>>
    BY <1>6 DEF BecomeDue, Deliver, Expire, kafka, memory
  <1>7. ASSUME NEW d \in Drivers, ReportFree(d) \/ ReportBusy(d)
        PROVE  UNCHANGED <<requests, committed, active>>
    BY <1>7 DEF ReportFree, ReportBusy, kafka, memory
  <1>8. CASE Poll \/ StopPolling \/ CheckStored \/ SearchFails \/ SearchOffers \/ RecordOffers
             \/ AnnounceOffers \/ TellNoDriver \/ WriteNoDriver \/ Assign \/ HideDriver
             \/ KeepMatch \/ TellMatch \/ Keep \/ Tell \/ Write \/ Rate \/ NextTick
             \/ UNCHANGED vars
    <2>1. UNCHANGED <<requests, committed, active>>
      BY <1>8 DEF Poll, StopPolling, CheckStored, SearchFails, SearchOffers, RecordOffers,
           AnnounceOffers, TellNoDriver, WriteNoDriver, Assign, HideDriver, KeepMatch,
           TellMatch, Keep, Tell, Write, Rate, NextTick, vars, kafka, otherKafka, memory, inHand
    <2> QED BY <2>1, <1>2
  <1> QED
    BY <1>1, <1>2, <1>3, <1>4, <1>5, <1>6, <1>7, <1>8
    DEF Next, CalmNext, Step, Surroundings, Answer, Move

LEMMA ChainStep == InHand /\ ChainInHand /\ [Next]_vars => ChainInHand'
  <1> SUFFICES ASSUME InHand, ChainInHand, [Next]_vars PROVE ChainInHand'
    OBVIOUS
  <1> USE DEF ChainInHand, Matching
  <1>1. CASE UNCHANGED <<pc, chain>>
    BY <1>1 DEF Winner
  <1>2. CASE Commit \/ Crash
    <2>1. chain' = <<>>
      BY <1>2 DEF Commit, Crash, Restart
    <2> QED BY <2>1, NoWinner DEF Winner
  <1>3. CASE SearchOffers \/ Assign \/ HideDriver \/ KeepMatch \/ TellMatch \/ WriteNoDriver
    <2>1. pc' \in {"record", "commit"} \cup Matching
      BY <1>3 DEF SearchOffers, Assign, HideDriver, KeepMatch, TellMatch, WriteNoDriver
    <2> QED BY <2>1
  <1>4. CASE RecordOffers
    BY <1>4 DEF RecordOffers
  <1>5. CASE AnnounceOffers
    <2>1. chain' = chain /\ pc' = IF Winner(chain) = None THEN "tell_none" ELSE "assign"
      BY <1>5 DEF AnnounceOffers, inHand
    <2> QED BY <2>1
  <1>6. CASE Poll \/ StopPolling \/ CheckStored \/ SearchFails \/ TellNoDriver
    <2>1. chain' = chain /\ pc \notin {"record", "tell_offers", "commit"} \cup Matching
      BY <1>6 DEF Poll, StopPolling, CheckStored, SearchFails, TellNoDriver, inHand
    <2> QED BY <2>1
  <1>7. CASE (\E t \in Trips : Advance(t)) \/ Keep \/ Tell \/ Write \/ Rate \/ Forget \/ NextTick
    <2>1. chain' = chain /\ pc \notin {"record", "tell_offers", "commit"} \cup Matching
      BY <1>7 DEF Advance, Keep, Tell, Write, Rate, Forget, NextTick, inHand
    <2> QED BY <2>1
  <1>8. ASSUME NEW t \in Trips, Request(t) \/ BecomeDue(t) \/ Deliver(t) \/ Expire(t)
        PROVE  UNCHANGED <<pc, chain>>
    BY <1>8 DEF Request, BecomeDue, Deliver, Expire, memory
  <1>9. ASSUME NEW d \in Drivers, ReportFree(d) \/ ReportBusy(d)
        PROVE  UNCHANGED <<pc, chain>>
    BY <1>9 DEF ReportFree, ReportBusy, memory
  <1>10. CASE UNCHANGED vars
    BY <1>1, <1>10 DEF vars, memory
  <1> QED
    BY <1>1, <1>2, <1>3, <1>4, <1>5, <1>6, <1>7, <1>8, <1>9, <1>10
    DEF Next, CalmNext, Step, Surroundings, Answer, Move

LEMMA MatchStep ==
    TypeOK /\ InHand /\ NextInLine /\ AskedOnce /\ ChainInHand /\ MatchInHand /\ [Next]_vars
        => MatchInHand'
  <1> SUFFICES ASSUME TypeOK, InHand, NextInLine, AskedOnce, ChainInHand, MatchInHand, [Next]_vars
               PROVE  MatchInHand'
    OBVIOUS
  <1>0. Matched => cur \in Trips /\ cur \notin Moving /\ rows[cur] \in Row
    BY AnsweringIsNew DEF Matched, Answering
  <1>1. ASSUME UNCHANGED <<pc, chain, cur>>,
               Matched => /\ rows'[cur] = rows[cur] /\ live'[cur] = live[cur]
                          /\ \A u \in Trips : Told(u)' = Told(u)
        PROVE  MatchInHand'
    <2>1. Matched' = Matched /\ Winner(chain)' = Winner(chain)
      BY <1>1 DEF Matched, Winner, Accepts
    <2>2. Matched => Told(cur)' = Told(cur)
      BY <1>0, <1>1
    <2>3. Matched => Latest(Told(cur))' = Latest(Told(cur))
      BY <2>2 DEF Latest
    <2> QED BY <1>1, <2>1, <2>3 DEF MatchInHand
  <1>2. ASSUME NEW t \in Trips, Request(t) PROVE MatchInHand'
    <2>1. Matched => t # cur
      BY <1>2, RequestIsNew DEF Matched, Answering
    <2>2. UNCHANGED <<pc, chain, cur, live, topic, outbox>>
      BY <1>2 DEF Request, memory, redis
    <2>3. Matched => rows'[cur] = rows[cur]
      BY <1>0, <1>2, <2>1, RequestIsNew
    <2> QED BY <1>1, <2>2, <2>3 DEF Told
  <1>3. ASSUME NEW t \in Trips, Deliver(t) PROVE MatchInHand'
    <2>1. UNCHANGED <<pc, chain, cur, live, rows>>
      BY <1>3 DEF Deliver, memory, redis, store
    <2> QED BY <1>1, <1>3, <2>1, DeliverKeepsTold
  <1>4. ASSUME NEW t \in Trips, Expire(t) PROVE MatchInHand'
    <2>1. UNCHANGED <<pc, chain, cur, topic, outbox, rows>> /\ t # cur
      BY <1>4 DEF Expire, memory, kafka, store
    <2>2. Matched => live'[cur] = live[cur]
      BY <1>0, <1>4, <2>1 DEF Expire, TypeOK
    <2> QED BY <1>1, <2>1, <2>2 DEF Told
  <1>5. ASSUME NEW t \in Trips, BecomeDue(t) PROVE MatchInHand'
    BY <1>1, <1>5 DEF BecomeDue, kafka, store, redis, Told
  <1>6. ASSUME NEW d \in Drivers, ReportFree(d) \/ ReportBusy(d) PROVE MatchInHand'
    BY <1>1, <1>6 DEF ReportFree, ReportBusy, kafka, store, memory, Told
  <1>7. CASE UNCHANGED vars
    BY <1>1, <1>7 DEF vars, kafka, store, redis, memory, Told
  <1>8. ASSUME ~Matched' PROVE MatchInHand'
    BY <1>8 DEF MatchInHand
  <1>9. CASE Poll \/ StopPolling \/ SearchFails \/ SearchOffers \/ AnnounceOffers \/ TellNoDriver
             \/ (\E t \in Trips : Advance(t)) \/ Keep \/ Tell \/ Write \/ Rate \/ Forget \/ NextTick
             \/ Commit \/ Crash
    <2>1. pc' \notin {"hide", "keep_match", "tell_match", "commit"}
      BY <1>9 DEF Poll, StopPolling, SearchFails, SearchOffers, AnnounceOffers, TellNoDriver,
           Advance, Keep, Tell, Write, Rate, Forget, NextTick, Commit, Crash, Restart
    <2> QED BY <1>8, <2>1 DEF Matched
  <1>10. CASE CheckStored \/ RecordOffers \/ WriteNoDriver
    <2>1. pc' \notin {"hide", "keep_match", "tell_match"}
      BY <1>10 DEF CheckStored, RecordOffers, WriteNoDriver
    <2>2. pc' = "commit" => chain' = <<>> \/ (chain' = chain /\ Winner(chain) = None)
      BY <1>10 DEF CheckStored, RecordOffers, WriteNoDriver, inHand, ChainInHand, Matching
    <2>3. pc' = "commit" => Winner(chain)' = None
      BY <2>2, NoWinner DEF Winner
    <2> QED BY <1>8, <2>1, <2>3 DEF Matched
  <1>11. CASE Assign
    <2>1. pc' = "hide" /\ UNCHANGED <<cur, chain>> /\ pc = "assign"
      BY <1>11 DEF Assign, inHand
    <2>2. cur \in Trips /\ rows[cur] \in Row
      BY <2>1, AnsweringIsNew DEF Answering
    <2>3. rows' = [rows EXCEPT ![cur] = [rows[cur] EXCEPT !.status = "matched", !.driver = Winner(chain)]]
      BY <1>11, <2>2, NoRowStatus DEF Assign, Updated, Row
    <2>4. rows'[cur].status = "matched" /\ rows'[cur].driver = Winner(chain)
      BY <2>2, <2>3 DEF TypeOK, Row
    <2> QED BY <2>1, <2>4 DEF MatchInHand, Winner, Matched
  <1>12. CASE HideDriver
    BY <1>12 DEF HideDriver, kafka, store, inHand, MatchInHand, Matched, Winner
  <1>13. CASE KeepMatch
    <2>1. /\ pc = "keep_match" /\ pc' = "tell_match" /\ UNCHANGED <<cur, chain, rows>> /\ cur \in Trips
          /\ live'[cur] = [status |-> "matched", driver |-> Winner(chain)]
      BY <1>0, <1>13 DEF KeepMatch, store, inHand, Matched, TypeOK
    <2> QED BY <2>1 DEF MatchInHand, Matched, Winner
  <1>14. CASE TellMatch
    <2>1. pc = "tell_match" /\ pc' = "commit" /\ UNCHANGED <<cur, chain, rows, live, topic>>
      BY <1>14 DEF TellMatch, otherKafka, store, redis, inHand
    <2>2. Winner(chain) \in Drivers \cup {None}
      BY WinnerType DEF TypeOK
    <2>3. Matched /\ cur \in Trips
      BY <1>0, <2>1 DEF Matched
    <2>4. Latest(Told(cur))' = "matched"
      BY <1>14, <2>1, <2>2, <2>3, AnnounceTells DEF TellMatch, Statuses, Stages, Reasons
    <2> QED BY <2>1, <2>3, <2>4 DEF MatchInHand, Matched, Winner
  <1> QED
    BY <1>2, <1>3, <1>4, <1>5, <1>6, <1>7, <1>9, <1>10, <1>11, <1>12, <1>13, <1>14
    DEF Next, CalmNext, Step, Surroundings, Answer, Move

\* A trip whose copies nobody touches stays as it is.
LEMMA AgreesStays ==
    ASSUME NEW t \in Trips, Agrees(t), Told(t)' = Told(t), active'[t] = active[t],
           rows'[t] = rows[t], live'[t] = live[t]
    PROVE  Agrees(t)'
  BY DEF Agrees, Shown, Latest

LEMMA MoveStep ==
    TypeOK /\ InHand /\ NextInLine /\ Copies /\ [Next]_vars => MoveInHand' /\ Settled'
  <1> SUFFICES ASSUME TypeOK, InHand, NextInLine, AskedOnce, ChainInHand, MatchInHand,
                      MoveInHand, Settled, [Next]_vars
               PROVE  MoveInHand' /\ Settled'
    BY DEF Copies
  <1>0. /\ pc \in MovingOn => cur \in Moving /\ rows[cur] \in Row
        /\ pc \in Answering => cur \in Trips /\ cur \notin Moving
        /\ Moving \subseteq Trips
    BY AnsweringIsNew DEF InHand, Moving
  <1>1. ASSUME UNCHANGED <<pc, cur, before, active>>,
               \A t \in Moving : rows'[t] = rows[t] /\ live'[t] = live[t] /\ Told(t)' = Told(t)
        PROVE  MoveInHand' /\ Settled'
    <2>1. Moving' = Moving
      BY <1>1 DEF Moving
    <2>2. \A t \in Moving : Agrees(t) => Agrees(t)'
      BY <1>0, <1>1, AgreesStays
    <2>3. Settled'
      BY <1>1, <2>1, <2>2 DEF Settled
    <2>4. pc \in MovingOn => /\ rows'[cur] = rows[cur] /\ live'[cur] = live[cur]
                             /\ Latest(Told(cur))' = Latest(Told(cur))
      BY <1>0, <1>1 DEF Latest
    <2>5. MoveInHand'
      BY <1>1, <2>4 DEF MoveInHand, MovingOn, Shown
    <2> QED BY <2>3, <2>5
  <1>2. ASSUME active' = active, pc \notin MovingOn, pc' \notin MovingOn,
               \A t \in Moving : rows'[t] = rows[t] /\ live'[t] = live[t] /\ Told(t)' = Told(t)
        PROVE  MoveInHand' /\ Settled'
    <2>1. Moving' = Moving
      BY <1>2 DEF Moving
    <2>2. \A t \in Moving : Agrees(t)'
      BY <1>0, <1>2, AgreesStays DEF Settled
    <2>3. MoveInHand'
      BY <1>2 DEF MoveInHand, MovingOn
    <2> QED BY <2>1, <2>2, <2>3 DEF Settled
  <1>3. ASSUME NEW t \in Trips, Request(t) PROVE MoveInHand' /\ Settled'
    <2>1. UNCHANGED <<pc, cur, before, active, live, topic, outbox>>
      BY <1>3 DEF Request, memory, redis
    <2> QED BY <1>0, <1>1, <1>3, <2>1, RequestIsNew DEF Told
  <1>4. ASSUME NEW t \in Trips, Deliver(t) PROVE MoveInHand' /\ Settled'
    <2>1. UNCHANGED <<pc, cur, before, active, live, rows>>
      BY <1>4 DEF Deliver, memory, redis, store
    <2> QED BY <1>0, <1>1, <1>4, <2>1, DeliverKeepsTold
  <1>5. ASSUME NEW t \in Trips, Expire(t) PROVE MoveInHand' /\ Settled'
    <2>1. UNCHANGED <<pc, cur, before, active, topic, outbox, rows>> /\ t \notin Moving
      BY <1>5 DEF Expire, memory, kafka, store
    <2>2. \A u \in Moving : live'[u] = live[u]
      BY <1>0, <1>5, <2>1 DEF Expire, TypeOK
    <2> QED BY <1>1, <2>1, <2>2 DEF Told
  <1>6. ASSUME NEW t \in Trips, BecomeDue(t) PROVE MoveInHand' /\ Settled'
    BY <1>1, <1>6 DEF BecomeDue, kafka, store, redis, Told
  <1>7. ASSUME NEW d \in Drivers, ReportFree(d) \/ ReportBusy(d) PROVE MoveInHand' /\ Settled'
    BY <1>1, <1>7 DEF ReportFree, ReportBusy, kafka, store, memory, Told
  <1>8. CASE UNCHANGED vars
    BY <1>1, <1>8 DEF vars, kafka, store, redis, memory, Told
  <1>9. CASE Poll \/ StopPolling \/ CheckStored \/ SearchFails \/ SearchOffers \/ RecordOffers
             \/ AnnounceOffers \/ HideDriver
    <2>1. UNCHANGED <<active, rows, live, topic, outbox>>
      BY <1>9 DEF Poll, StopPolling, CheckStored, SearchFails, SearchOffers, RecordOffers,
           AnnounceOffers, HideDriver, kafka, store, redis, inHand
    <2>2. pc \notin MovingOn /\ pc' \notin MovingOn
      BY <1>9 DEF Poll, StopPolling, CheckStored, SearchFails, SearchOffers, RecordOffers,
           AnnounceOffers, HideDriver, MovingOn
    <2> QED BY <1>2, <2>1, <2>2 DEF Told
  <1>10. CASE TellNoDriver \/ TellMatch
    <2>1. /\ UNCHANGED <<active, rows, live, topic>> /\ pc \in Answering
          /\ pc \notin MovingOn /\ pc' \notin MovingOn
      BY <1>10 DEF TellNoDriver, TellMatch, otherKafka, store, redis, inHand, MovingOn, Answering
    <2>2. \A t \in Trips \ {cur} : outbox'[t] = outbox[t]
      BY <1>10 DEF TellNoDriver, TellMatch, Announce, TypeOK
    <2>3. \A t \in Moving : Told(t)' = Told(t)
      BY <1>0, <2>1, <2>2 DEF Told
    <2> QED BY <1>2, <2>1, <2>3
  <1>11. CASE WriteNoDriver \/ Assign
    <2>1. /\ UNCHANGED <<active, live, topic, outbox>> /\ pc \in Answering
          /\ pc \notin MovingOn /\ pc' \notin MovingOn
      BY <1>11 DEF WriteNoDriver, Assign, kafka, redis, inHand, MovingOn, Answering
    <2>2. \A t \in Trips \ {cur} : rows'[t] = rows[t]
      BY <1>11 DEF WriteNoDriver, Assign, Updated, TypeOK
    <2> QED BY <1>0, <1>2, <2>1, <2>2 DEF Told
  <1>12. CASE KeepMatch
    <2>1. /\ UNCHANGED <<active, rows, topic, outbox>> /\ pc \in Answering
          /\ pc \notin MovingOn /\ pc' \notin MovingOn
      BY <1>12 DEF KeepMatch, kafka, store, inHand, MovingOn, Answering
    <2>2. \A t \in Trips \ {cur} : live'[t] = live[t]
      BY <1>12 DEF KeepMatch, TypeOK
    <2> QED BY <1>0, <1>2, <2>1, <2>2 DEF Told
  <1>13. CASE Commit
    <2>1. /\ UNCHANGED <<rows, live, topic, outbox>> /\ pc = "commit" /\ pc' = "poll" /\ cur \in Trips
          /\ \A t \in Trips \ {cur} : active'[t] = active[t]
          /\ Winner(chain) = None => active' = active
          /\ Winner(chain) # None =>
                active'[cur] = [status |-> "matched", driver |-> Winner(chain), stamps |-> {}]
      BY <1>0, <1>13 DEF Commit, store, redis, TypeOK, Answering
    <2>2. ASSUME NEW t \in Moving' PROVE Agrees(t)'
      <3>1. CASE t = cur
        <4>1. Winner(chain) # None /\ Matched
          BY <1>0, <2>1, <2>2, <3>1 DEF Moving, Answering, Matched
        <4>2. /\ rows[t].status = "matched" /\ rows[t].driver = Winner(chain)
              /\ live[t] = [status |-> "matched", driver |-> Winner(chain)]
              /\ Latest(Told(t)) = "matched"
          BY <2>1, <3>1, <4>1 DEF MatchInHand
        <4>3. Told(t)' = Told(t) /\ rows'[t] = rows[t] /\ live'[t] = live[t]
          BY <2>1 DEF Told
        <4>4. Latest(Told(t))' = "matched"
          BY <4>2, <4>3 DEF Latest
        <4>5. active'[t].status = "matched" /\ active'[t].driver = Winner(chain)
          BY <2>1, <3>1, <4>1
        <4> QED BY <4>2, <4>3, <4>4, <4>5 DEF Agrees, Shown, Stages
      <3>2. CASE t # cur
        <4>1. t \in Moving
          BY <2>1, <2>2, <3>2 DEF Moving
        <4>2. Agrees(t)
          BY <2>1, <3>2, <4>1 DEF Settled
        <4> QED BY <1>0, <2>1, <3>2, <4>1, <4>2, AgreesStays DEF Told
      <3> QED BY <3>1, <3>2
    <2> QED BY <2>1, <2>2 DEF Settled, MoveInHand, MovingOn
  <1>14. ASSUME NEW t \in Trips, Advance(t) PROVE MoveInHand' /\ Settled'
    <2>1. PICK s \in NextStatuses(active[t].status) :
              /\ active' = [active EXCEPT ![t].status = s, ![t].stamps = Stamp(@, s)]
              /\ pc' = IF s \in Finished THEN "tell" ELSE "keep"
      BY <1>14 DEF Advance
    <2>2. /\ UNCHANGED <<rows, live, topic, outbox>> /\ pc = "move" /\ cur' = t
          /\ before' = active[t].status
      BY <1>14 DEF Advance, kafka, store, redis
    <2>3. active[t].status \in Stages /\ (s \notin Finished => s \in Stages)
      BY <2>1, NextStatusesType
    <2>4. t \in Moving
      BY <2>3 DEF Moving, Idle, Stages
    <2>5. Agrees(t)
      BY <2>2, <2>4 DEF Settled, MovingOn
    <2>6. /\ active'[t].status = s /\ active'[t].driver = active[t].driver
          /\ \A u \in Trips \ {t} : active'[u] = active[u]
      <3>1. active \in [Trips -> ActiveTrip \cup {Idle}] /\ active[t] \in ActiveTrip
        BY <2>4 DEF TypeOK, Moving
      <3> QED BY <2>1, <3>1 DEF ActiveTrip
    <2>7. \A u \in Trips : Told(u)' = Told(u)
      BY <2>2 DEF Told
    <2>8. Latest(Told(t)) = before' /\ Latest(Told(cur))' = before'
      BY <2>2, <2>5, <2>7 DEF Agrees, Latest
    <2>9. MoveInHand'
      <3>1. rows'[t].driver = active'[t].driver /\ rows'[t].status = before'
        BY <2>2, <2>5, <2>6 DEF Agrees
      <3>2. active'[t].status \in NextStatuses(before')
        BY <2>1, <2>2, <2>6
      <3>3. live'[t] = [status |-> before', driver |-> active'[t].driver]
        BY <2>2, <2>5, <2>6 DEF Agrees, Shown
      <3>4. pc' = "tell" => active'[t].status \in Finished
        BY <2>1, <2>6
      <3> QED BY <2>1, <2>2, <2>8, <3>1, <3>2, <3>3, <3>4 DEF MoveInHand, Shown, MovingOn
    <2>10. Settled'
      <3>1. ASSUME NEW u \in Moving', u # t PROVE Agrees(u)'
        <4>1. u \in Moving
          BY <2>6, <3>1 DEF Moving
        <4>2. Agrees(u)
          BY <2>2, <4>1 DEF Settled, MovingOn
        <4> QED BY <1>0, <2>2, <2>6, <2>7, <3>1, <4>1, <4>2, AgreesStays
      <3>2. pc' \in MovingOn
        BY <2>1 DEF MovingOn
      <3> QED BY <2>2, <3>1, <3>2 DEF Settled
    <2> QED BY <2>9, <2>10
  <1>15. ASSUME active' = active, cur' = cur, pc' \in MovingOn, pc \in MovingOn,
                \A t \in Trips \ {cur} : rows'[t] = rows[t] /\ live'[t] = live[t] /\ Told(t)' = Told(t)
         PROVE  Settled'
    <2>1. Moving' = Moving
      BY <1>15 DEF Moving
    <2>2. ASSUME NEW t \in Moving, t # cur PROVE Agrees(t)'
      <3>1. Agrees(t)
        BY <2>2 DEF Settled
      <3> QED BY <1>0, <1>15, <2>2, <3>1, AgreesStays
    <2> QED BY <1>15, <2>1, <2>2 DEF Settled
  <1>16. CASE Keep
    <2>1. /\ pc = "keep" /\ pc' = "tell" /\ UNCHANGED <<cur, before, active, rows, topic, outbox>>
          /\ cur \in Trips /\ active[cur].status \in Stages
          /\ live'[cur] = [status |-> active[cur].status, driver |-> active[cur].driver]
          /\ \A t \in Trips \ {cur} : live'[t] = live[t]
      BY <1>0, <1>16 DEF Keep, kafka, store, inHand, InHand, TypeOK, MovingOn
    <2>2. Settled'
      BY <1>15, <2>1 DEF Told, MovingOn
    <2>3. Latest(Told(cur))' = Latest(Told(cur))
      BY <2>1 DEF Told, Latest
    <2>4. active[cur].status \notin Finished
      BY <2>1 DEF Stages, Finished
    <2> QED BY <2>1, <2>2, <2>3, <2>4 DEF MoveInHand, Shown, MovingOn
  <1>17. CASE Tell
    <2>1. /\ pc = "tell" /\ pc' = "write" /\ UNCHANGED <<cur, before, active, rows, live, topic>>
          /\ cur \in Trips /\ active[cur] \in ActiveTrip
      BY <1>0, <1>17 DEF Tell, otherKafka, store, redis, inHand, TypeOK, MovingOn, Moving
    <2>2. /\ active[cur].status \in Statuses /\ active[cur].driver \in Drivers
          /\ active[cur].stamps \in SUBSET Milestones
          /\ ReasonFor(before, active[cur].status) \in Reasons
      BY <2>1 DEF ActiveTrip, ReasonFor, Reasons
    <2>3. \A t \in Trips : IF t = cur THEN Latest(Told(t)') = active[cur].status ELSE Told(t)' = Told(t)
      BY <1>17, <2>1, <2>2, AnnounceTells DEF Tell
    <2>4. Settled'
      BY <1>15, <2>1, <2>3 DEF MovingOn
    <2>5. Latest(Told(cur))' = active'[cur'].status
      BY <2>1, <2>3
    <2> QED BY <2>1, <2>4, <2>5 DEF MoveInHand, Shown, MovingOn
  <1>18. CASE Write
    <2>1. /\ pc = "write" /\ pc' \in {"rate", "forget", "move"}
          /\ UNCHANGED <<active, live, topic, outbox>>
          /\ cur \in Moving /\ active[cur].status \in Statuses
          /\ pc' # "move" => cur' = cur
          /\ pc' = "move" => active[cur].status \notin Finished
      <3>1. cur \in Moving /\ pc = "write"
        BY <1>0, <1>18 DEF Write, MovingOn
      <3>2. active[cur].status \in Statuses
        BY <1>0, <3>1 DEF TypeOK, Moving, ActiveTrip
      <3> QED BY <1>18, <3>1, <3>2 DEF Write, kafka, redis, Finished
    <2>2. /\ \A t \in Trips \ {cur} : rows'[t] = rows[t]
          /\ rows'[cur].status = active[cur].status /\ rows'[cur].driver = rows[cur].driver
      <3>1. rows[cur] \in Row /\ rows[cur] # NoRow /\ cur \in Trips
        BY <1>0, <2>1, NoRowStatus DEF Row, MovingOn
      <3>2. rows' = [rows EXCEPT ![cur] = UpdateStatus(rows[cur], active[cur].status)]
        BY <1>18, <3>1 DEF Write, Updated
      <3> QED BY <3>1, <3>2 DEF UpdateStatus, Row, TypeOK
    <2>3. \A t \in Trips : Told(t)' = Told(t)
      BY <2>1 DEF Told
    <2>4. Latest(Told(cur)) = active[cur].status /\ rows[cur].driver = active[cur].driver
      BY <2>1 DEF MoveInHand, MovingOn
    <2>5. CASE pc' = "move"
      <3>1. active[cur].status \in Stages
        BY <1>0, <2>1, <2>5 DEF MoveInHand, NextStatuses, Finished, Stages
      <3>2. Shown(cur, active[cur].status)
        BY <2>1, <2>5 DEF MoveInHand
      <3>3. ASSUME NEW t \in Moving PROVE Agrees(t)'
        <4>1. CASE t = cur
          <5>1. Latest(Told(t))' = active[t].status
            BY <1>0, <2>3, <2>4, <4>1 DEF Latest
          <5> QED BY <1>0, <2>1, <2>2, <2>4, <3>1, <3>2, <4>1, <5>1 DEF Agrees, Shown
        <4>2. CASE t # cur
          <5>1. Agrees(t)
            BY <4>2 DEF Settled
          <5> QED BY <1>0, <2>1, <2>2, <2>3, <4>2, <5>1, AgreesStays
        <4> QED BY <4>1, <4>2
      <3> QED BY <2>1, <2>5, <3>3 DEF Settled, MoveInHand, MovingOn, Moving
    <2>6. CASE pc' \in {"rate", "forget"}
      <3>1. cur' = cur
        BY <2>1, <2>6
      <3>2. Latest(Told(cur))' = active[cur].status
        BY <1>0, <2>1, <2>3, <2>4, <3>1 DEF Latest
      <3>3. Settled'
        BY <1>15, <2>1, <2>2, <2>3, <2>6, <3>1 DEF MovingOn
      <3> QED BY <2>1, <2>2, <2>4, <2>6, <3>1, <3>2, <3>3 DEF MoveInHand
    <2> QED BY <2>1, <2>5, <2>6
  <1>19. CASE Rate
    <2>1. /\ pc = "rate" /\ pc' = "forget"
          /\ UNCHANGED <<cur, active, rows, live, topic, outbox>>
      BY <1>19 DEF Rate, kafka, redis, inHand
    <2>2. Settled'
      BY <1>15, <2>1 DEF Told, MovingOn
    <2> QED BY <2>1, <2>2 DEF MoveInHand, MovingOn, Told, Latest
  <1>20. CASE Forget
    <2>1. /\ pc = "forget" /\ pc' = "move" /\ UNCHANGED <<rows, topic, outbox>>
          /\ cur \in Trips /\ active'[cur] = Idle
          /\ \A t \in Trips \ {cur} : active'[t] = active[t] /\ live'[t] = live[t]
      BY <1>0, <1>20 DEF Forget, kafka, store, TypeOK, MovingOn
    <2>2. ASSUME NEW t \in Moving' PROVE Agrees(t)'
      <3>1. t \in Moving \ {cur}
        BY <2>1, <2>2 DEF Moving
      <3>2. Agrees(t)
        BY <3>1 DEF Settled
      <3> QED BY <1>0, <2>1, <3>1, <3>2, AgreesStays DEF Told
    <2> QED BY <2>1, <2>2 DEF Settled, MoveInHand, MovingOn
  <1>21. CASE NextTick
    <2>1. pc = "move" /\ pc' = "poll" /\ UNCHANGED <<active, rows, topic, outbox>>
      BY <1>21 DEF NextTick, kafka, store
    <2>2. \A t \in Moving : live'[t] = live[t]
      BY <1>0, <1>21, <2>1 DEF NextTick, Settled, Agrees, Shown, MovingOn
    <2> QED BY <1>2, <2>1, <2>2 DEF MovingOn, Told
  <1>22. CASE Crash
    <2>1. pc' = "poll" /\ Moving' = {}
      BY <1>22 DEF Crash, Restart, Moving
    <2> QED BY <2>1 DEF Settled, MoveInHand, MovingOn
  <1> QED
    BY <1>3, <1>4, <1>5, <1>6, <1>7, <1>8, <1>9, <1>10, <1>11, <1>12, <1>13, <1>14,
       <1>16, <1>17, <1>18, <1>19, <1>20, <1>21, <1>22
    DEF Next, CalmNext, Step, Surroundings, Answer, Move

LEMMA CopiesInit == Init => Copies
  <1> SUFFICES ASSUME Init PROVE Copies
    OBVIOUS
  <1>1. Moving = {} /\ pc = "poll" /\ chain = <<>> /\ requests = <<>>
    BY DEF Init, InitOutside, Moving
  <1>2. Len(requests) = 0
    BY <1>1
  <1> QED BY <1>1, <1>2, NoWinner DEF Copies, AskedOnce, ChainInHand, MatchInHand, Matched,
                                      MoveInHand, MovingOn, Settled

LEMMA CopiesStep ==
    TypeOK /\ InHand /\ NextInLine /\ Copies /\ [Next]_vars => Copies'
  BY AskedStep, ChainStep, MatchStep, MoveStep DEF Copies

\* At every step, every copy of a trip that dispatch moves along is where the
\* step leaves it.
THEOREM CopiesHold == Spec => []Copies
  <1>1. TypeOK /\ InHand /\ NextInLine /\ AnswerOnRecord /\ Copies /\ [Next]_vars
            => (TypeOK /\ InHand /\ NextInLine /\ AnswerOnRecord /\ Copies)'
    BY TypeStep, LineStep, CopiesStep
  <1>2. Spec => [](TypeOK /\ InHand /\ NextInLine /\ AnswerOnRecord /\ Copies)
    BY <1>1, InitType, InitLine, CopiesInit, PTL DEF Spec
  <1> QED BY <1>2, PTL

\* Whatever crashes: at the start of a tick memory, row, live state and the
\* last message agree on every trip that dispatch is moving along.
THEOREM CopiesAgree == Spec => []FourCopiesAgree
  <1>1. Copies => FourCopiesAgree
    BY DEF Copies, Settled, Agrees, Shown, FourCopiesAgree, MovingOn
  <1> QED BY <1>1, CopiesHold, PTL

\* Redis before Kafka: whoever hears of a running trip that dispatch moves
\* along finds its live state, as far along as the message or one step further.
THEOREM ReadersFindState == Spec => []AnnouncedIsReadable
  <1>1. InHand /\ Copies => AnnouncedIsReadable
    <2> SUFFICES ASSUME InHand, Copies, NEW t \in Trips, Latest(Told(t)) \in Stages,
                        t \in Moving \/ (t = cur /\ pc = "commit" /\ Winner(chain) # None)
                 PROVE  live[t].status \in {Latest(Told(t))} \cup NextStatuses(Latest(Told(t)))
      BY DEF AnnouncedIsReadable
    <2>1. CASE t = cur /\ pc = "commit" /\ Winner(chain) # None
      BY <2>1 DEF Copies, MatchInHand, Matched
    <2>2. CASE t \in Moving /\ ~(t = cur /\ pc \in MovingOn)
      <3>1. Agrees(t)
        BY <2>2 DEF Copies, Settled
      <3> QED BY <3>1 DEF Agrees, Shown
    <2>3. CASE t = cur /\ pc \in {"keep", "tell"}
      BY <2>3 DEF Copies, MoveInHand, Shown
    <2>4. CASE t = cur /\ pc \in {"write", "rate", "forget"}
      <3>1. Latest(Told(t)) = active[t].status
        BY <2>4 DEF Copies, MoveInHand
      <3>2. active[t].status \notin Finished
        BY <3>1 DEF Stages, Finished
      <3>3. pc = "write"
        BY <2>4, <3>2 DEF InHand
      <3> QED BY <2>4, <3>1, <3>2, <3>3 DEF Copies, MoveInHand, Shown
    <2> QED BY <2>1, <2>2, <2>3, <2>4 DEF MovingOn
  <1>2. Spec => []InHand
    BY HandCorrect
  <1> QED BY <1>1, <1>2, CopiesHold, PTL

-----------------------------------------------------------------------------
(* The milestones a message carries. *)

\* What an ActiveTrip has stamped when it gets to a stage.
StampsOf(s) ==
    CASE s = "matched" -> {}
      [] s \in {"accepted", "en_route_pickup"} -> {"accepted"}
      [] s = "arrived" -> {"accepted", "arrived"}
      [] OTHER -> Milestones

\* What StampsInOrder says of one message.
TellsInOrder(m) ==
    /\ "arrived" \in m.stamps => "accepted" \in m.stamps
    /\ m.status = "completed" => m.stamps = Milestones
    /\ m.reason = "at_kerb" <=> /\ m.status \in Finished /\ "arrived" \in m.stamps
                                /\ "in_progress" \notin m.stamps

OrderlyNews == {m \in Message : TellsInOrder(m)}

Stamped ==
    /\ \A t \in Trips : topic[t] \in Seq(OrderlyNews) /\ outbox[t] \in Seq(OrderlyNews)
    /\ \A t \in Moving : active[t].status \in Stages => active[t].stamps = StampsOf(active[t].status)
    /\ pc = "tell" /\ active[cur].status \in Finished => active[cur].stamps = StampsOf(before)

\* What is stamped on the way from one status to the next; a trip that ends
\* keeps what it had.
LEMMA StampsNext ==
    ASSUME NEW s \in Stages, NEW n \in NextStatuses(s)
    PROVE  Stamp(StampsOf(s), n) = IF n \in Finished THEN StampsOf(s) ELSE StampsOf(n)
  BY DEF NextStatuses, Stages, Finished, Stamp, StampsOf, Milestones

\* The message about a step of the state machine is in order.
LEMMA NewsInOrder ==
    ASSUME NEW s, NEW n \in NextStatuses(s), NEW m,
           m.status = n, m.reason = ReasonFor(s, n),
           m.stamps = IF n \in Finished THEN StampsOf(s) ELSE StampsOf(n)
    PROVE  TellsInOrder(m)
  BY DEF NextStatuses, Finished, ReasonFor, StampsOf, Milestones, TellsInOrder

LEMMA StampStep ==
    TypeOK /\ InHand /\ MoveInHand /\ Stamped /\ [Next]_vars => Stamped'
  <1> SUFFICES ASSUME TypeOK, InHand, MoveInHand, Stamped, [Next]_vars PROVE Stamped'
    OBVIOUS
  <1>1. ASSUME UNCHANGED <<topic, outbox, active>>, pc' # "tell" \/ UNCHANGED <<pc, cur, before>>
        PROVE  Stamped'
    BY <1>1 DEF Stamped, Moving, StampsOf
  <1>2. ASSUME NEW t \in Trips, Request(t) \/ BecomeDue(t) \/ Expire(t) PROVE Stamped'
    BY <1>1, <1>2 DEF Request, BecomeDue, Expire, kafka, memory
  <1>3. ASSUME NEW t \in Trips, Deliver(t) PROVE Stamped'
    <2>1. /\ topic[t] \in Seq(OrderlyNews) /\ outbox[t] \in Seq(OrderlyNews) /\ outbox[t] # <<>>
          /\ topic'[t] = Append(topic[t], Head(outbox[t])) /\ outbox'[t] = Tail(outbox[t])
          /\ \A u \in Trips \ {t} : topic'[u] = topic[u] /\ outbox'[u] = outbox[u]
          /\ UNCHANGED <<pc, cur, before, active>>
      BY <1>3 DEF Deliver, TypeOK, Stamped, memory
    <2>2. topic'[t] \in Seq(OrderlyNews) /\ outbox'[t] \in Seq(OrderlyNews)
      BY <2>1, HeadTailProperties, AppendProperties
    <2> QED BY <2>1, <2>2 DEF Stamped, Moving, StampsOf
  <1>4. ASSUME NEW d \in Drivers, ReportFree(d) \/ ReportBusy(d) PROVE Stamped'
    BY <1>1, <1>4 DEF ReportFree, ReportBusy, kafka, memory
  <1>5. CASE UNCHANGED vars
    BY <1>1, <1>5 DEF vars, kafka, memory
  <1>6. CASE Poll \/ StopPolling \/ CheckStored \/ SearchFails \/ SearchOffers \/ RecordOffers
             \/ AnnounceOffers \/ WriteNoDriver \/ Assign \/ HideDriver \/ KeepMatch \/ Rate \/ NextTick
    <2>1. UNCHANGED <<topic, outbox, active>> /\ pc' # "tell"
      BY <1>6 DEF Poll, StopPolling, CheckStored, SearchFails, SearchOffers, RecordOffers,
           AnnounceOffers, WriteNoDriver, Assign, HideDriver, KeepMatch, Rate, NextTick, kafka, inHand
    <2> QED BY <1>1, <2>1
  <1>7. CASE Write
    <2>1. UNCHANGED <<topic, outbox, active>> /\ pc' # "tell"
      BY <1>7 DEF Write, kafka, Finished, TypeOK
    <2> QED BY <1>1, <2>1
  <1>8. ASSUME NEW status \in Statuses, NEW driver \in Drivers \cup {None},
               NEW stamps \in SUBSET Milestones, NEW reason \in Reasons,
               Announce(status, driver, stamps, reason), cur \in Trips,
               TellsInOrder([status |-> status, driver |-> driver, stamps |-> stamps, reason |-> reason]),
               topic' = topic, active' = active, pc' # "tell"
        PROVE  Stamped'
    <2> DEFINE m == [status |-> status, driver |-> driver, stamps |-> stamps, reason |-> reason]
    <2>1. m \in OrderlyNews
      BY <1>8 DEF Message, OrderlyNews
    <2>2. Append(outbox[cur], m) \in Seq(OrderlyNews)
      BY <1>8, <2>1, AppendProperties DEF Stamped
    <2>3. outbox'[cur] = Append(outbox[cur], m) /\ \A t \in Trips \ {cur} : outbox'[t] = outbox[t]
      BY <1>8 DEF Announce, TypeOK
    <2> QED BY <1>8, <2>2, <2>3 DEF Stamped, Moving, StampsOf
  <1>9. CASE TellNoDriver
    <2>1. /\ Announce("no_driver_found", None, {}, "none") /\ cur \in Trips
          /\ topic' = topic /\ active' = active /\ pc' # "tell"
      BY <1>9 DEF TellNoDriver, otherKafka, inHand, InHand, Answering
    <2>2. TellsInOrder([status |-> "no_driver_found", driver |-> None, stamps |-> {}, reason |-> "none"])
      BY DEF TellsInOrder
    <2> QED BY <1>8, <2>1, <2>2 DEF Statuses, Finished, Reasons
  <1>10. CASE TellMatch
    <2>1. /\ Announce("matched", Winner(chain), {}, "none") /\ cur \in Trips
          /\ topic' = topic /\ active' = active /\ pc' # "tell"
          /\ Winner(chain) \in Drivers \cup {None}
      BY <1>10, WinnerType DEF TellMatch, otherKafka, inHand, InHand, Answering, TypeOK
    <2>2. TellsInOrder([status |-> "matched", driver |-> Winner(chain), stamps |-> {}, reason |-> "none"])
      BY DEF TellsInOrder
    <2> QED BY <1>8, <2>1, <2>2 DEF Statuses, Stages, Reasons
  <1>11. CASE Tell
    <2>1. /\ Announce(active[cur].status, active[cur].driver, active[cur].stamps,
                      ReasonFor(before, active[cur].status))
          /\ cur \in Moving /\ active[cur] \in ActiveTrip /\ topic' = topic /\ active' = active
          /\ pc = "tell" /\ pc' # "tell"
      BY <1>11 DEF Tell, otherKafka, inHand, InHand, MovingOn, TypeOK, Moving
    <2>2. active[cur].status \in NextStatuses(before)
      BY <2>1 DEF MoveInHand
    <2>3. active[cur].stamps = IF active[cur].status \in Finished THEN StampsOf(before)
                               ELSE StampsOf(active[cur].status)
      BY <2>1, <2>2, NextStatusesType DEF Stamped
    <2> DEFINE m == [status |-> active[cur].status, driver |-> active[cur].driver,
                     stamps |-> active[cur].stamps, reason |-> ReasonFor(before, active[cur].status)]
    <2>4. TellsInOrder(m)
      BY <2>2, <2>3, NewsInOrder
    <2>5. /\ active[cur].status \in Statuses /\ active[cur].driver \in Drivers
          /\ active[cur].stamps \in SUBSET Milestones
          /\ ReasonFor(before, active[cur].status) \in Reasons /\ cur \in Trips
      BY <2>1 DEF ActiveTrip, ReasonFor, Reasons, Moving
    <2> QED BY <1>8, <2>1, <2>4, <2>5
  <1>12. CASE Commit \/ Forget
    <2>1. /\ UNCHANGED <<topic, outbox>> /\ pc' # "tell"
          /\ \A t \in Moving' : \/ t \in Moving /\ active'[t] = active[t]
                                \/ active'[t].status = "matched" /\ active'[t].stamps = {}
      <3>1. CASE Commit
        <4>1. \A t \in Trips : \/ active'[t] = active[t]
                               \/ active'[t].status = "matched" /\ active'[t].stamps = {}
          BY <3>1 DEF Commit, TypeOK, InHand, Answering
        <4> QED BY <3>1, <4>1 DEF Commit, Moving
      <3>2. CASE Forget
        BY <3>2 DEF Forget, TypeOK, Moving, kafka
      <3> QED BY <1>12, <3>1, <3>2
    <2> QED BY <2>1 DEF Stamped, StampsOf
  <1>13. ASSUME NEW t \in Trips, Advance(t) PROVE Stamped'
    <2>1. PICK s \in NextStatuses(active[t].status) :
              /\ active' = [active EXCEPT ![t].status = s, ![t].stamps = Stamp(@, s)]
              /\ pc' = IF s \in Finished THEN "tell" ELSE "keep"
      BY <1>13 DEF Advance
    <2>2. UNCHANGED <<topic, outbox>> /\ cur' = t /\ before' = active[t].status
      BY <1>13 DEF Advance, kafka
    <2>3. active[t].status \in Stages /\ t \in Moving
      BY <2>1, NextStatusesType DEF Moving, Idle, Stages
    <2>4. /\ active'[t].status = s /\ active'[t].stamps = Stamp(active[t].stamps, s)
          /\ \A u \in Trips \ {t} : active'[u] = active[u]
      <3>1. active \in [Trips -> ActiveTrip \cup {Idle}] /\ active[t] \in ActiveTrip
        BY <2>3 DEF TypeOK, Moving
      <3> QED BY <2>1, <3>1 DEF ActiveTrip
    <2>5. active[t].stamps = StampsOf(active[t].status)
      BY <2>3 DEF Stamped
    <2>6. active'[t].stamps = IF s \in Finished THEN StampsOf(active[t].status) ELSE StampsOf(s)
      BY <2>1, <2>3, <2>4, <2>5, StampsNext
    <2>7. s \in Stages => s \notin Finished
      BY DEF Stages, Finished
    <2>8. \A u \in Moving' : active'[u].status \in Stages => active'[u].stamps = StampsOf(active'[u].status)
      <3>1. \A u \in Moving' : u = t \/ (u \in Moving /\ active'[u] = active[u])
        BY <2>4 DEF Moving
      <3> QED BY <2>4, <2>6, <2>7, <3>1 DEF Stamped
    <2>9. pc' = "tell" => active'[cur'].stamps = StampsOf(before')
      BY <2>1, <2>2, <2>4, <2>6
    <2> QED BY <2>2, <2>8, <2>9 DEF Stamped, StampsOf
  <1>14. CASE Keep
    <2>1. UNCHANGED <<topic, outbox, active, cur>> /\ active[cur].status \in Stages
      BY <1>14 DEF Keep, kafka, inHand, InHand
    <2> QED BY <2>1 DEF Stamped, Moving, Stages, Finished
  <1>15. CASE Crash
    <2>1. topic' = topic /\ pc' = "poll" /\ Moving' = {} /\ \A t \in Trips : outbox'[t] = <<>>
      BY <1>15 DEF Crash, Restart, Moving
    <2> QED BY <2>1, EmptySeq DEF Stamped
  <1> QED
    BY <1>2, <1>3, <1>4, <1>5, <1>6, <1>7, <1>9, <1>10, <1>11, <1>12, <1>13, <1>14, <1>15
    DEF Next, CalmNext, Step, Surroundings, Answer, Move

\* Whatever crashes: no message has an arrival without an acceptance, an end
\* without its milestones, or a reason from another phase of the ride.
THEOREM MilestonesInOrder == Spec => []StampsInOrder
  <1>1. Init => Stamped
    BY EmptySeq DEF Init, InitOutside, Stamped, Moving
  <1>2. TypeOK /\ InHand /\ NextInLine /\ AnswerOnRecord /\ Copies /\ Stamped /\ [Next]_vars
            => (TypeOK /\ InHand /\ NextInLine /\ AnswerOnRecord /\ Copies /\ Stamped)'
    BY TypeStep, LineStep, CopiesStep, StampStep DEF Copies
  <1>3. TypeOK /\ Stamped => StampsInOrder
    <2> SUFFICES ASSUME TypeOK, Stamped, NEW t \in Trips, NEW i \in DOMAIN Told(t)
                 PROVE  TellsInOrder(Told(t)[i])
      BY DEF StampsInOrder, TellsInOrder
    <2>1. Told(t) \in Seq(OrderlyNews)
      BY ConcatProperties DEF Stamped, Told
    <2>2. Told(t)[i] \in OrderlyNews
      BY <2>1, LenProperties, ElementOfSeq
    <2> QED BY <2>2 DEF OrderlyNews
  <1>4. Spec => [](TypeOK /\ InHand /\ NextInLine /\ AnswerOnRecord /\ Copies /\ Stamped)
    BY <1>1, <1>2, InitType, InitLine, CopiesInit, PTL DEF Spec
  <1> QED BY <1>3, <1>4, PTL

-----------------------------------------------------------------------------
(***************************************************************************)
(* While the process does not die (CalmSpec), what the topics and the      *)
(* tables tell of a trip is one story, and trips.status keeps the safety   *)
(* half of the promise of TripLifecycle.  The argument: nobody has touched *)
(* a trip before its request is taken, so each step of the answer finds    *)
(* what the step before it has left, and the answer is whole when the      *)
(* offset moves.                                                           *)
(***************************************************************************)

\* The inductive invariant.  A trip whose request is still to be taken has at
\* most its row ...
Untold(t) == topic[t] = <<>> /\ outbox[t] = <<>>
Unoffered(t) == offers[t] = <<>> /\ offerLog[t] = <<>>
Unanswered(t) == rows[t].status \in {"no row", "requested"} /\ rows[t].driver = None
Fresh(t) == Unanswered(t) /\ Untold(t) /\ Unoffered(t)

Undisturbed == \A t \in Trips : Answered(t) \/ (pc \in Answering /\ t = cur) \/ Fresh(t)

\* ... a trip that is being answered has what the steps so far have written ...
AnswerInHand ==
    /\ pc \in {"check", "search", "record"} => Unoffered(cur)
    /\ pc = "tell_offers" => offers[cur] = chain /\ offerLog[cur] = <<>>
    /\ pc \in Answering \ {"check", "search", "record", "tell_offers"} => offerLog[cur] = offers[cur]
    /\ pc \in {"tell_none", "write_none"} => Accepts(offers[cur]) = {}
    /\ pc \in Answering \ {"write_none", "commit"} => Untold(cur)
    /\ pc = "write_none" => Latest(Told(cur)) = "no_driver_found"
    /\ pc \in Answering \ {"hide", "keep_match", "tell_match", "commit"} =>
          rows[cur].status = "requested" /\ rows[cur].driver = None
    /\ pc = "commit" => rows[cur].status = Latest(Told(cur))
    /\ pc = "commit" /\ Winner(chain) = None =>
          rows[cur].status = "no_driver_found" /\ rows[cur].driver = None

\* ... and a trip that has been answered has its whole chain published, and a
\* row that says what the topic says, and is moved along as long as it runs.
Whole(t) ==
    /\ rows[t].status # "requested"
    /\ offerLog[t] = offers[t]
    /\ rows[t].status \in Stages => t \in Moving
    /\ rows[t].status = Latest(Told(t)) \/ (t = cur /\ pc = "write")

AnsweredAreWhole == \A t \in Trips : Answered(t) => Whole(t)

\* Each chain is numbered, and only its last offer may be accepted.
InOrder(os) == Accepts(os) \subseteq {Len(os)} /\ \A i \in DOMAIN os : os[i].sequence = i

ChainsInOrder ==
    /\ \A t \in Trips : InOrder(offers[t])
    /\ pc \in {"record", "tell_offers"} => InOrder(chain)

\* Every message names the driver of the row, and says that there is none only
\* when nobody has accepted.
NewsOf(t) == {m \in Message : /\ m.driver = rows[t].driver
                              /\ m.status = "no_driver_found" => Accepts(offers[t]) = {}}

NewsIsTrue == \A t \in Trips : topic[t] \in Seq(NewsOf(t)) /\ outbox[t] \in Seq(NewsOf(t))

Calm == Undisturbed /\ AnswerInHand /\ AnsweredAreWhole /\ ChainsInOrder /\ NewsIsTrue

\* What holds whatever crashes.
Sound == TypeOK /\ InHand /\ NextInLine /\ AnswerOnRecord /\ Copies

\* Sound is inductive, crash or not.
LEMMA SoundStep == Sound /\ [Next]_vars => Sound'
  BY TypeStep, LineStep, CopiesStep DEF Sound

\* It holds at the start.
LEMMA SoundInit == Init => Sound
  BY InitType, InitLine, CopiesInit DEF Sound

-----------------------------------------------------------------------------
(* The operators. *)

\* run_chain numbers its offers and stops at the first acceptance.
LEMMA ChainsAreInOrder ==
    ASSUME NEW free, NEW os \in Chains(free)
    PROVE  InOrder(os)
  BY DEF Chains, InOrder

\* No offer, no acceptance.
LEMMA EmptyInOrder == Accepts(<<>>) = {} /\ InOrder(<<>>)
  BY DEF Accepts, InOrder

\* The first chain of a trip is kept as it is.
LEMMA KeepAll ==
    ASSUME NEW os \in Seq(Offer)
    PROVE  <<>> \o Kept(<<>>, os) = os
  <1>1. Kept(<<>>, os) = os
    BY SubSeqFull, LenProperties DEF Kept
  <1> QED BY <1>1, ConcatEmptySeq

\* A chain without a winner has no acceptance.
LEMMA NobodyAccepted ==
    ASSUME NEW os \in Seq(Offer), InOrder(os), Winner(os) = None
    PROVE  Accepts(os) = {}
  <1> SUFFICES ASSUME Accepts(os) # {} PROVE FALSE
    OBVIOUS
  <1>1. Len(os) \in DOMAIN os /\ os[Len(os)] = os[Len(os)]
    BY DEF InOrder, Accepts
  <1>2. os[Len(os)] \in Offer
    BY <1>1, ElementOfSeq, LenProperties
  <1> QED BY <1>2, DispatchAssumption DEF Winner, Offer

\* An UPDATE of the status leaves the driver in the row.
LEMMA UpdateKeepsDriver ==
    ASSUME TypeOK, NEW t \in Trips, rows[t] \in Row, NEW s,
           rows' = Updated(t, UpdateStatus(rows[t], s))
    PROVE  /\ rows'[t].status = s
           /\ \A u \in Trips : rows'[u].driver = rows[u].driver
           /\ \A u \in Trips \ {t} : rows'[u] = rows[u]
  <1>1. rows[t] # NoRow
    BY NoRowStatus DEF Row
  <1>2. rows' = [rows EXCEPT ![t] = UpdateStatus(rows[t], s)]
    BY <1>1 DEF Updated
  <1>3. UpdateStatus(rows[t], s).status = s /\ UpdateStatus(rows[t], s).driver = rows[t].driver
    BY DEF UpdateStatus, Row
  <1> QED BY <1>2, <1>3 DEF TypeOK

\* The next request to be taken is about a trip nobody has answered.
LEMMA NextIsFresh ==
    ASSUME Sound, Undisturbed, pc \notin Answering, position < Len(requests)
    PROVE  /\ requests[position + 1] \in Trips /\ Fresh(requests[position + 1])
           /\ rows[requests[position + 1]].status = "requested"
  <1>1. /\ position = committed /\ position \in Nat /\ Len(requests) \in Nat
        /\ position + 1 \in 1..Len(requests) /\ requests[position + 1] \in Trips
    BY OffsetBounds DEF Sound, NextInLine
  <1>2. ~Answered(requests[position + 1])
    BY <1>1 DEF Answered, Sound, Copies, AskedOnce
  <1>3. rows[requests[position + 1]].status \in Statuses
    BY <1>1 DEF Sound, NextInLine
  <1> QED BY <1>1, <1>2, <1>3, NoRowStatus DEF Undisturbed, Fresh, Unanswered

\* What is in hand while a request is answered.
LEMMA AnsweringTrip ==
    ASSUME Sound, pc \in Answering
    PROVE  /\ cur \in Trips /\ cur \notin Moving /\ rows[cur] \in Row /\ ~Answered(cur)
           /\ position = committed + 1 /\ position \in 1..Len(requests) /\ cur = requests[position]
  <1>1. position = committed + 1 /\ position \in 1..Len(requests) /\ cur = requests[position]
    BY OffsetBounds DEF Sound, NextInLine
  <1>2. ~Answered(cur)
    BY <1>1, OffsetBounds DEF Answered, Sound, Copies, AskedOnce
  <1> QED BY <1>1, <1>2, AnsweringIsNew DEF Sound, Copies

-----------------------------------------------------------------------------
(* The steps. *)

\* Chains are written whole and once, so they stay in order.
LEMMA ChainsStep == Sound /\ Calm /\ [CalmNext]_vars => ChainsInOrder'
  <1> SUFFICES ASSUME Sound, Calm, [CalmNext]_vars PROVE ChainsInOrder'
    OBVIOUS
  <1> USE DEF ChainsInOrder
  <1>0. ChainsInOrder
    BY DEF Calm
  <1>1. ASSUME UNCHANGED <<offers, chain>>,
               pc' \in {"record", "tell_offers"} => pc \in {"record", "tell_offers"}
        PROVE  ChainsInOrder'
    BY <1>0, <1>1 DEF InOrder, Accepts
  <1>2. CASE SearchOffers
    <2>1. PICK os \in Chains(geo) : chain' = os
      BY <1>2 DEF SearchOffers
    <2>2. offers' = offers
      BY <1>2 DEF SearchOffers, store
    <2> QED BY <1>0, <2>1, <2>2, ChainsAreInOrder DEF InOrder, Accepts
  <1>3. CASE RecordOffers
    <2>1. /\ cur \in Trips /\ offers[cur] = <<>> /\ pc = "record" /\ chain \in Seq(Offer)
      BY <1>3, AnsweringTrip DEF RecordOffers, Calm, AnswerInHand, Unoffered, Answering, Sound, TypeOK
    <2>2. chain' = chain /\ offers' = [offers EXCEPT ![cur] = chain]
      BY <1>3, <2>1, EmptyInOrder, KeepAll DEF RecordOffers
    <2> QED BY <1>0, <2>1, <2>2 DEF InOrder, Accepts, Sound, TypeOK
  <1>4. CASE Commit
    BY <1>0, <1>4 DEF Commit, store, InOrder, Accepts
  <1>5. ASSUME NEW t \in Trips, Request(t) \/ BecomeDue(t) \/ Deliver(t) \/ Expire(t)
        PROVE  ChainsInOrder'
    BY <1>1, <1>5 DEF Request, BecomeDue, Deliver, Expire, store, memory
  <1>6. ASSUME NEW d \in Drivers, ReportFree(d) \/ ReportBusy(d) PROVE ChainsInOrder'
    BY <1>1, <1>6 DEF ReportFree, ReportBusy, store, memory
  <1>7. CASE Poll \/ StopPolling \/ CheckStored \/ SearchFails \/ AnnounceOffers \/ TellNoDriver
             \/ WriteNoDriver \/ Assign \/ HideDriver \/ KeepMatch \/ TellMatch
    <2>1. UNCHANGED <<offers, chain>> /\ pc' \notin {"record", "tell_offers"}
      BY <1>7 DEF Poll, StopPolling, CheckStored, SearchFails, AnnounceOffers, TellNoDriver,
           WriteNoDriver, Assign, HideDriver, KeepMatch, TellMatch, store, inHand
    <2> QED BY <1>1, <2>1
  <1>8. CASE (\E t \in Trips : Advance(t)) \/ Keep \/ Tell \/ Write \/ Rate \/ Forget \/ NextTick
    <2>1. UNCHANGED <<offers, chain>> /\ pc' \notin {"record", "tell_offers"}
      BY <1>8 DEF Advance, Keep, Tell, Write, Rate, Forget, NextTick, store, inHand
    <2> QED BY <1>1, <2>1
  <1>9. CASE UNCHANGED vars
    BY <1>1, <1>9 DEF vars, store, memory
  <1> QED
    BY <1>2, <1>3, <1>4, <1>5, <1>6, <1>7, <1>8, <1>9
    DEF CalmNext, Step, Surroundings, Answer, Move

\* A true message goes to the producer.
LEMMA AnnounceIsTrue ==
    ASSUME Sound, NewsIsTrue, cur \in Trips, UNCHANGED <<topic, rows, offers>>,
           NEW status \in Statuses, NEW driver \in Drivers \cup {None},
           NEW stamps \in SUBSET Milestones, NEW reason \in Reasons,
           Announce(status, driver, stamps, reason),
           driver = rows[cur].driver, status = "no_driver_found" => Accepts(offers[cur]) = {}
    PROVE  NewsIsTrue'
  <1> DEFINE m == [status |-> status, driver |-> driver, stamps |-> stamps, reason |-> reason]
  <1>1. m \in NewsOf(cur)
    BY DEF Message, NewsOf
  <1>2. Append(outbox[cur], m) \in Seq(NewsOf(cur))
    BY <1>1, AppendProperties DEF NewsIsTrue
  <1>3. outbox'[cur] = Append(outbox[cur], m) /\ \A t \in Trips \ {cur} : outbox'[t] = outbox[t]
    BY DEF Announce, Sound, TypeOK
  <1>4. \A t \in Trips : NewsOf(t)' = NewsOf(t)
    BY DEF NewsOf
  <1> QED BY <1>2, <1>3, <1>4 DEF NewsIsTrue

\* A message is sent after its row is written, or before the row can still change.
LEMMA NewsStep == Sound /\ Calm /\ [CalmNext]_vars => NewsIsTrue'
  <1> SUFFICES ASSUME Sound, Calm, [CalmNext]_vars PROVE NewsIsTrue'
    OBVIOUS
  <1>0. NewsIsTrue /\ TypeOK
    BY DEF Calm, Sound
  <1>1. ASSUME UNCHANGED <<topic, outbox>>,
               \A t \in Trips : \/ Untold(t)
                                \/ rows'[t].driver = rows[t].driver /\ offers'[t] = offers[t]
        PROVE  NewsIsTrue'
    <2>1. ASSUME NEW t \in Trips PROVE topic'[t] \in Seq(NewsOf(t)') /\ outbox'[t] \in Seq(NewsOf(t)')
      <3>1. CASE Untold(t)
        BY <1>1, <3>1, EmptySeq DEF Untold
      <3>2. CASE rows'[t].driver = rows[t].driver /\ offers'[t] = offers[t]
        BY <1>0, <1>1, <3>2 DEF NewsIsTrue, NewsOf
      <3> QED BY <1>1, <3>1, <3>2
    <2> QED BY <2>1 DEF NewsIsTrue
  <1>2. ASSUME NEW t \in Trips, Request(t) PROVE NewsIsTrue'
    <2>1. /\ UNCHANGED <<topic, outbox, offers>> /\ rows[t] = NoRow
          /\ rows'[t].driver = None /\ \A u \in Trips \ {t} : rows'[u] = rows[u]
      BY <1>0, <1>2 DEF Request, TypeOK
    <2>2. NoRow.driver = None
      BY DEF NoRow
    <2> QED BY <1>1, <2>1, <2>2
  <1>3. ASSUME NEW t \in Trips, Deliver(t) PROVE NewsIsTrue'
    <2>1. /\ topic[t] \in Seq(NewsOf(t)) /\ outbox[t] \in Seq(NewsOf(t)) /\ outbox[t] # <<>>
          /\ topic'[t] = Append(topic[t], Head(outbox[t])) /\ outbox'[t] = Tail(outbox[t])
          /\ \A u \in Trips \ {t} : topic'[u] = topic[u] /\ outbox'[u] = outbox[u]
          /\ UNCHANGED <<rows, offers>>
      BY <1>0, <1>3 DEF Deliver, TypeOK, NewsIsTrue, store
    <2>2. topic'[t] \in Seq(NewsOf(t)) /\ outbox'[t] \in Seq(NewsOf(t))
      BY <2>1, HeadTailProperties, AppendProperties
    <2>3. \A u \in Trips : NewsOf(u)' = NewsOf(u)
      BY <2>1 DEF NewsOf
    <2> QED BY <1>0, <2>1, <2>2, <2>3 DEF NewsIsTrue
  <1>4. ASSUME UNCHANGED <<topic, outbox, rows, offers>> PROVE NewsIsTrue'
    BY <1>1, <1>4
  <1>5. ASSUME NEW t \in Trips, BecomeDue(t) \/ Expire(t) PROVE NewsIsTrue'
    BY <1>4, <1>5 DEF BecomeDue, Expire, kafka, store
  <1>6. ASSUME NEW d \in Drivers, ReportFree(d) \/ ReportBusy(d) PROVE NewsIsTrue'
    BY <1>4, <1>6 DEF ReportFree, ReportBusy, kafka, store
  <1>7. CASE Poll \/ StopPolling \/ CheckStored \/ SearchFails \/ SearchOffers \/ AnnounceOffers
             \/ HideDriver \/ KeepMatch \/ Commit \/ (\E t \in Trips : Advance(t)) \/ Keep \/ Rate
             \/ Forget \/ NextTick \/ UNCHANGED vars
    <2>1. UNCHANGED <<topic, outbox, rows, offers>>
      BY <1>7 DEF Poll, StopPolling, CheckStored, SearchFails, SearchOffers, AnnounceOffers,
           HideDriver, KeepMatch, Commit, Advance, Keep, Rate, Forget, NextTick, vars, kafka, store
    <2> QED BY <1>4, <2>1
  <1>8. CASE RecordOffers
    <2>1. /\ UNCHANGED <<topic, outbox, rows>> /\ cur \in Trips /\ Untold(cur)
          /\ \A t \in Trips \ {cur} : offers'[t] = offers[t]
      BY <1>0, <1>8, AnsweringTrip DEF RecordOffers, kafka, Calm, AnswerInHand, Answering, TypeOK
    <2> QED BY <1>1, <2>1
  <1>9. CASE Assign
    <2>1. /\ UNCHANGED <<topic, outbox, offers>> /\ cur \in Trips /\ Untold(cur)
          /\ \A t \in Trips \ {cur} : rows'[t] = rows[t]
      BY <1>0, <1>9, AnsweringTrip DEF Assign, kafka, Calm, AnswerInHand, Answering, TypeOK, Updated
    <2> QED BY <1>1, <2>1
  <1>10. CASE WriteNoDriver
    <2>1. cur \in Trips /\ rows[cur] \in Row
      BY <1>10, AnsweringTrip DEF WriteNoDriver, Answering
    <2>2. \A t \in Trips : rows'[t].driver = rows[t].driver
      BY <1>0, <1>10, <2>1, UpdateKeepsDriver DEF WriteNoDriver
    <2> QED BY <1>1, <1>10, <2>2 DEF WriteNoDriver, kafka
  <1>11. CASE Write
    <2>1. cur \in Trips /\ rows[cur] \in Row
      BY <1>0, <1>11, AnsweringIsNew DEF Write, Sound, Copies, InHand, MovingOn, Moving
    <2>2. \A t \in Trips : rows'[t].driver = rows[t].driver
      BY <1>0, <1>11, <2>1, UpdateKeepsDriver DEF Write
    <2> QED BY <1>1, <1>11, <2>2 DEF Write, kafka
  <1>12. CASE TellNoDriver
    <2>1. /\ UNCHANGED <<topic, rows, offers>> /\ cur \in Trips
          /\ Announce("no_driver_found", None, {}, "none")
      BY <1>12, AnsweringTrip DEF TellNoDriver, otherKafka, store, Answering
    <2>2. rows[cur].driver = None /\ Accepts(offers[cur]) = {}
      BY <1>12 DEF TellNoDriver, Calm, AnswerInHand, Answering
    <2> QED BY <1>0, <2>1, <2>2, AnnounceIsTrue DEF Statuses, Finished, Reasons
  <1>13. CASE TellMatch
    <2>1. /\ UNCHANGED <<topic, rows, offers>> /\ cur \in Trips
          /\ Announce("matched", Winner(chain), {}, "none") /\ Winner(chain) \in Drivers \cup {None}
      BY <1>0, <1>13, AnsweringTrip, WinnerType DEF TellMatch, otherKafka, store, Answering, TypeOK
    <2>2. rows[cur].driver = Winner(chain)
      BY <1>13 DEF TellMatch, Sound, Copies, MatchInHand, Matched
    <2> QED BY <1>0, <2>1, <2>2, AnnounceIsTrue DEF Statuses, Stages, Reasons
  <1>14. CASE Tell
    <2>1. /\ UNCHANGED <<topic, rows, offers>> /\ cur \in Trips /\ active[cur] \in ActiveTrip
          /\ Announce(active[cur].status, active[cur].driver, active[cur].stamps,
                      ReasonFor(before, active[cur].status))
          /\ pc = "tell"
      BY <1>0, <1>14 DEF Tell, otherKafka, store, Sound, InHand, MovingOn, TypeOK
    <2>2. rows[cur].driver = active[cur].driver /\ active[cur].status \in NextStatuses(before)
      BY <2>1 DEF Sound, Copies, MoveInHand, MovingOn
    <2>3. /\ active[cur].status \in Statuses /\ active[cur].driver \in Drivers
          /\ active[cur].stamps \in SUBSET Milestones
          /\ ReasonFor(before, active[cur].status) \in Reasons
      BY <2>1 DEF ActiveTrip, ReasonFor, Reasons
    <2>4. active[cur].status # "no_driver_found"
      BY <2>2 DEF NextStatuses
    <2> QED BY <1>0, <2>1, <2>2, <2>3, <2>4, AnnounceIsTrue
  <1> QED
    BY <1>2, <1>3, <1>5, <1>6, <1>7, <1>8, <1>9, <1>10, <1>11, <1>12, <1>13, <1>14
    DEF CalmNext, Step, Surroundings, Answer, Move

\* Each step of an answer leaves what the next one counts on.
LEMMA HandStep == Sound /\ Calm /\ [CalmNext]_vars => AnswerInHand'
  <1> SUFFICES ASSUME Sound, Calm, [CalmNext]_vars PROVE AnswerInHand'
    OBVIOUS
  <1>0. /\ TypeOK /\ AnswerInHand /\ Undisturbed /\ ChainsInOrder
        /\ pc \in Answering => cur \in Trips /\ rows[cur] \in Row
    BY AnsweringTrip DEF Calm, Sound
  <1>1. ASSUME UNCHANGED <<pc, cur, chain>>,
               pc \in Answering =>
                  /\ rows'[cur] = rows[cur] /\ offers'[cur] = offers[cur]
                  /\ offerLog'[cur] = offerLog[cur] /\ \A u \in Trips : Told(u)' = Told(u)
                  /\ Untold(cur) => topic'[cur] = <<>> /\ outbox'[cur] = <<>>
        PROVE  AnswerInHand'
    <2>1. pc \in Answering => Latest(Told(cur))' = Latest(Told(cur)) /\ (Untold(cur) => Untold(cur)')
      BY <1>0, <1>1 DEF Latest, Untold
    <2>2. CASE pc \in Answering
      BY <1>0, <1>1, <2>1, <2>2 DEF AnswerInHand, Unoffered, Winner, Accepts
    <2>3. CASE pc \notin Answering
      BY <1>1, <2>3 DEF AnswerInHand, Answering
    <2> QED BY <2>2, <2>3
  <1>2. ASSUME pc' \notin Answering PROVE AnswerInHand'
    BY <1>2 DEF AnswerInHand, Answering
  <1>3. ASSUME NEW t \in Trips, Request(t) PROVE AnswerInHand'
    <2>1. /\ UNCHANGED <<pc, cur, chain, offers, offerLog, topic, outbox>>
          /\ pc \in Answering => t # cur
          /\ \A u \in Trips \ {t} : rows'[u] = rows[u]
      BY <1>3, RequestIsNew DEF Request, memory, Sound, Copies
    <2> QED BY <1>0, <1>1, <2>1 DEF Told, Untold
  <1>4. ASSUME NEW t \in Trips, Deliver(t) PROVE AnswerInHand'
    <2>1. /\ UNCHANGED <<pc, cur, chain, rows, offers, offerLog>> /\ outbox[t] # <<>>
          /\ \A u \in Trips \ {t} : topic'[u] = topic[u] /\ outbox'[u] = outbox[u]
      BY <1>0, <1>4 DEF Deliver, TypeOK, store, memory
    <2>2. \A u \in Trips : Told(u)' = Told(u)
      BY <1>0, <1>4, DeliverKeepsTold
    <2> QED BY <1>0, <1>1, <2>1, <2>2 DEF Untold
  <1>5. ASSUME UNCHANGED <<pc, cur, chain, rows, offers, offerLog, topic, outbox>>
        PROVE  AnswerInHand'
    BY <1>1, <1>5 DEF Told, Untold
  <1>6. ASSUME NEW t \in Trips, BecomeDue(t) \/ Expire(t) PROVE AnswerInHand'
    BY <1>5, <1>6 DEF BecomeDue, Expire, kafka, store, memory
  <1>7. ASSUME NEW d \in Drivers, ReportFree(d) \/ ReportBusy(d) PROVE AnswerInHand'
    BY <1>5, <1>7 DEF ReportFree, ReportBusy, kafka, store, memory
  <1>8. CASE UNCHANGED vars
    BY <1>5, <1>8 DEF vars, kafka, store, memory
  <1>9. CASE StopPolling \/ Commit \/ (\E t \in Trips : Advance(t)) \/ Keep \/ Tell \/ Rate
             \/ Forget \/ NextTick
    <2>1. pc' \notin Answering
      BY <1>9 DEF StopPolling, Commit, Advance, Keep, Tell, Rate, Forget, NextTick, Answering
    <2> QED BY <1>2, <2>1
  <1>10. CASE Write
    <2>1. pc' \notin Answering
      BY <1>10 DEF Write, Answering
    <2> QED BY <1>2, <2>1
  <1>11. CASE Poll
    <2>1. /\ pc = "poll" /\ position < Len(requests) /\ pc' = "check"
          /\ cur' = requests[position + 1]
          /\ UNCHANGED <<rows, offers, offerLog, topic, outbox>>
      BY <1>11 DEF Poll, kafka, store
    <2>2. cur' \in Trips /\ Fresh(requests[position + 1]) /\ rows[cur'].status = "requested"
      BY <1>0, <2>1, NextIsFresh DEF Answering
    <2> QED BY <2>1, <2>2 DEF AnswerInHand, Answering, Fresh, Unanswered, Untold, Unoffered
  <1>12. CASE CheckStored
    <2>1. Accepts(offers[cur]) = {}
      BY <1>0, <1>12, EmptyInOrder DEF CheckStored, AnswerInHand, Unoffered
    <2> QED BY <1>0, <1>12, <2>1 DEF CheckStored, kafka, store, inHand, AnswerInHand, Answering,
                                     Unoffered, Untold
  <1>13. CASE SearchFails
    BY <1>0, <1>13, EmptyInOrder DEF SearchFails, kafka, store, inHand, AnswerInHand, Answering,
                                     Unoffered, Untold, Accepts
  <1>14. CASE SearchOffers
    BY <1>0, <1>14 DEF SearchOffers, kafka, store, AnswerInHand, Answering, Unoffered, Untold
  <1>15. CASE RecordOffers
    <2>1. /\ cur \in Trips /\ offers[cur] = <<>> /\ pc = "record" /\ chain \in Seq(Offer)
      BY <1>0, <1>15 DEF RecordOffers, AnswerInHand, Unoffered, Answering, TypeOK
    <2>2. chain' = chain /\ pc' = "tell_offers" /\ offers' = [offers EXCEPT ![cur] = chain]
      BY <1>15, <2>1, EmptyInOrder, KeepAll DEF RecordOffers
    <2>3. offers'[cur] = chain
      BY <1>0, <2>1, <2>2 DEF TypeOK
    <2>4. UNCHANGED <<cur, rows, offerLog, topic, outbox>>
      BY <1>15 DEF RecordOffers, kafka
    <2> QED BY <1>0, <2>1, <2>2, <2>3, <2>4 DEF AnswerInHand, Answering, Unoffered, Untold
  <1>16. CASE AnnounceOffers
    <2>1. /\ cur \in Trips /\ offers[cur] = chain /\ offerLog[cur] = <<>> /\ pc = "tell_offers"
          /\ chain \in Seq(Offer)
      BY <1>0, <1>16 DEF AnnounceOffers, AnswerInHand, Answering, TypeOK
    <2>2. /\ UNCHANGED <<cur, chain, rows, offers, topic, outbox>>
          /\ pc' = IF Winner(chain) = None THEN "tell_none" ELSE "assign"
          /\ offerLog'[cur] = <<>> \o chain
      BY <1>0, <1>16, <2>1 DEF AnnounceOffers, store, inHand, TypeOK
    <2>3. offerLog'[cur] = offers[cur]
      BY <2>1, <2>2, ConcatEmptySeq
    <2>4. Winner(chain) = None => Accepts(offers[cur]) = {}
      BY <1>0, <2>1, NobodyAccepted DEF ChainsInOrder
    <2>5. Untold(cur) /\ rows[cur].status = "requested" /\ rows[cur].driver = None
      BY <1>0, <2>1 DEF AnswerInHand, Answering
    <2> QED BY <2>2, <2>3, <2>4, <2>5 DEF AnswerInHand, Answering, Untold, Accepts
  <1>17. CASE TellNoDriver
    <2>1. /\ UNCHANGED <<cur, chain, rows, offers, offerLog, topic>> /\ pc = "tell_none"
          /\ pc' = "write_none" /\ Announce("no_driver_found", None, {}, "none")
      BY <1>17 DEF TellNoDriver, otherKafka, store, inHand
    <2>2. Latest(Told(cur))' = "no_driver_found"
      BY <1>0, <2>1, AnnounceTells DEF Statuses, Finished, Reasons, Answering
    <2> QED BY <1>0, <2>1, <2>2 DEF AnswerInHand, Answering, Accepts
  <1>18. CASE WriteNoDriver
    <2>1. /\ UNCHANGED <<cur, chain, offers, offerLog, topic, outbox>> /\ pc = "write_none"
          /\ pc' = "commit" /\ rows' = Updated(cur, UpdateStatus(rows[cur], "no_driver_found"))
      BY <1>18 DEF WriteNoDriver, kafka, inHand
    <2>2. rows'[cur].status = "no_driver_found" /\ rows'[cur].driver = rows[cur].driver
      BY <1>0, <2>1, UpdateKeepsDriver DEF Answering
    <2>3. Latest(Told(cur))' = Latest(Told(cur))
      BY <2>1 DEF Told, Latest
    <2> QED BY <1>0, <2>1, <2>2, <2>3 DEF AnswerInHand, Answering
  <1>19. CASE Assign
    <2>1. /\ UNCHANGED <<cur, chain, offers, offerLog, topic, outbox>> /\ pc = "assign" /\ pc' = "hide"
      BY <1>19 DEF Assign, kafka, inHand
    <2> QED BY <1>0, <2>1 DEF AnswerInHand, Answering, Untold
  <1>20. CASE HideDriver \/ KeepMatch
    <2>1. /\ UNCHANGED <<cur, chain, rows, offers, offerLog, topic, outbox>>
          /\ pc \in {"hide", "keep_match"} /\ pc' \in {"keep_match", "tell_match"}
      BY <1>20 DEF HideDriver, KeepMatch, kafka, store, inHand
    <2> QED BY <1>0, <2>1 DEF AnswerInHand, Answering, Untold
  <1>21. CASE TellMatch
    <2>1. /\ UNCHANGED <<cur, chain, rows, offers, offerLog, topic>> /\ pc = "tell_match"
          /\ pc' = "commit" /\ Announce("matched", Winner(chain), {}, "none")
          /\ Winner(chain) \in Drivers \cup {None} /\ Winner(chain) # None
      BY <1>0, <1>21, WinnerType DEF TellMatch, otherKafka, store, inHand, TypeOK, Sound, InHand, Matching
    <2>2. Latest(Told(cur))' = "matched"
      BY <1>0, <2>1, AnnounceTells DEF Statuses, Stages, Reasons, Answering
    <2>3. rows[cur].status = "matched"
      BY <2>1 DEF Sound, Copies, MatchInHand, Matched
    <2>4. Winner(chain)' # None
      BY <2>1 DEF Winner, Accepts
    <2> QED BY <1>0, <2>1, <2>2, <2>3, <2>4 DEF AnswerInHand, Answering
  <1> QED
    BY <1>3, <1>4, <1>6, <1>7, <1>8, <1>9, <1>10, <1>11, <1>12, <1>13, <1>14, <1>15, <1>16,
       <1>17, <1>18, <1>19, <1>20, <1>21
    DEF CalmNext, Step, Surroundings, Answer, Move

\* A trip is untouched, then in hand, then answered as a whole; a tick keeps it whole.
LEMMA TripsStep == Sound /\ Calm /\ [CalmNext]_vars => Undisturbed' /\ AnsweredAreWhole'
  <1> SUFFICES ASSUME Sound, Calm, [CalmNext]_vars PROVE Undisturbed' /\ AnsweredAreWhole'
    OBVIOUS
  <1>0. /\ TypeOK /\ AnswerInHand /\ Undisturbed /\ AnsweredAreWhole
        /\ pc \in Answering => cur \in Trips /\ cur \notin Moving /\ ~Answered(cur)
        /\ pc \in MovingOn => cur \in Trips /\ cur \in Moving /\ Answered(cur) /\ rows[cur] \in Row
    BY AnsweringTrip, AnsweringIsNew DEF Calm, Sound, Copies, InHand, Moving, AskedOnce
  \* A step that does nothing to a trip.
  <1>1. ASSUME NEW t \in Trips, rows'[t] = rows[t], offers'[t] = offers[t],
               offerLog'[t] = offerLog[t], topic'[t] = topic[t], outbox'[t] = outbox[t],
               t \in Moving => t \in Moving'
        PROVE  /\ Fresh(t) => Fresh(t)'
               /\ Whole(t) /\ ~(t = cur /\ pc = "write") => Whole(t)'
    BY <1>1 DEF Fresh, Unanswered, Untold, Unoffered, Whole, Told, Latest
  \* A step outside the answers, after which nothing is being written.
  <1>2. ASSUME UNCHANGED <<requests, committed, rows, offers, offerLog, topic, outbox>>,
               Moving \subseteq Moving', pc = "write" => pc' = "write" /\ cur' = cur,
               pc \in Answering => pc' \in Answering /\ cur' = cur
        PROVE  Undisturbed' /\ AnsweredAreWhole'
    <2>1. \A t \in Trips : Answered(t)' = Answered(t)
      BY <1>2 DEF Answered
    <2>2. Undisturbed'
      BY <1>0, <1>1, <1>2, <2>1 DEF Undisturbed
    <2>3. ASSUME NEW t \in Trips, Answered(t) PROVE Whole(t)'
      <3>1. Whole(t)
        BY <1>0, <2>3 DEF AnsweredAreWhole
      <3>2. rows'[t] = rows[t] /\ offers'[t] = offers[t] /\ offerLog'[t] = offerLog[t]
            /\ Latest(Told(t))' = Latest(Told(t))
        BY <1>2 DEF Told, Latest
      <3> QED BY <1>2, <3>1, <3>2 DEF Whole
    <2> QED BY <2>1, <2>2, <2>3 DEF AnsweredAreWhole
  <1>3. ASSUME NEW t \in Trips, Request(t) PROVE Undisturbed' /\ AnsweredAreWhole'
    <2>1. /\ UNCHANGED <<committed, offers, offerLog, topic, outbox, pc, cur, active>>
          /\ rows'[t].status = "requested" /\ rows'[t].driver = None
          /\ \A u \in Trips \ {t} : rows'[u] = rows[u]
          /\ requests \in Seq(Trips) /\ requests' = Append(requests, t) /\ rows[t] = NoRow
      BY <1>0, <1>3 DEF Request, memory, TypeOK
    <2>2. \A i \in 1..committed : requests'[i] = requests[i]
      <3>1. \A i \in 1..Len(requests) : requests'[i] = requests[i]
        BY <2>1, AppendProperties
      <3> QED BY <3>1, OffsetBounds DEF Sound
    <2>3. \A u \in Trips : Answered(u)' = Answered(u)
      BY <2>1, <2>2 DEF Answered
    <2>4. ~Answered(t) /\ ~(pc \in Answering /\ t = cur)
      <3>1. \A i \in 1..committed : rows[requests[i]].status \in Statuses
        BY OffsetBounds DEF Sound, NextInLine
      <3>2. rows[t].status \notin Statuses
        BY <2>1, NoRowStatus
      <3> QED BY <1>0, <1>3, <3>1, <3>2, RequestIsNew DEF Answered, Sound, Copies
    <2>5. Fresh(t)'
      BY <1>0, <2>1, <2>4 DEF Undisturbed, Fresh, Unanswered, Untold, Unoffered
    <2>6. ASSUME NEW u \in Trips \ {t}
          PROVE  (Fresh(u) => Fresh(u)') /\ (Whole(u) => Whole(u)')
      BY <2>1 DEF Fresh, Unanswered, Untold, Unoffered, Whole, Told, Latest, Moving
    <2> QED BY <1>0, <2>1, <2>3, <2>4, <2>5, <2>6 DEF Undisturbed, AnsweredAreWhole
  <1>4. ASSUME NEW t \in Trips, Deliver(t) PROVE Undisturbed' /\ AnsweredAreWhole'
    <2>1. /\ UNCHANGED <<requests, committed, rows, offers, offerLog, pc, cur, active>>
          /\ outbox[t] # <<>>
          /\ \A u \in Trips \ {t} : topic'[u] = topic[u] /\ outbox'[u] = outbox[u]
      BY <1>0, <1>4 DEF Deliver, TypeOK, store, memory
    <2>2. \A u \in Trips : Answered(u)' = Answered(u)
      BY <2>1 DEF Answered
    <2>3. \A u \in Trips : Whole(u) => Whole(u)'
      <3>1. \A u \in Trips : Told(u)' = Told(u)
        BY <1>0, <1>4, DeliverKeepsTold
      <3>2. \A u \in Trips : Latest(Told(u))' = Latest(Told(u))
        BY <3>1 DEF Latest
      <3> QED BY <2>1, <3>2 DEF Whole, Moving
    <2>4. \A u \in Trips : Fresh(u) => Fresh(u)'
      BY <2>1 DEF Fresh, Unanswered, Untold, Unoffered
    <2> QED BY <1>0, <2>1, <2>2, <2>3, <2>4 DEF Undisturbed, AnsweredAreWhole
  <1>5. ASSUME NEW t \in Trips, BecomeDue(t) \/ Expire(t) PROVE Undisturbed' /\ AnsweredAreWhole'
    BY <1>2, <1>5 DEF BecomeDue, Expire, kafka, store, memory, Moving
  <1>6. ASSUME NEW d \in Drivers, ReportFree(d) \/ ReportBusy(d)
        PROVE  Undisturbed' /\ AnsweredAreWhole'
    BY <1>2, <1>6 DEF ReportFree, ReportBusy, kafka, store, memory, Moving
  <1>7. CASE UNCHANGED vars
    BY <1>2, <1>7 DEF vars, kafka, store, memory, Moving
  <1>8. CASE StopPolling \/ Keep \/ Rate \/ NextTick \/ CheckStored \/ SearchFails \/ SearchOffers
             \/ HideDriver \/ KeepMatch
    <2>1. /\ UNCHANGED <<requests, committed, rows, offers, offerLog, topic, outbox, active, cur>>
          /\ pc # "write" /\ (pc \in Answering => pc' \in Answering)
      BY <1>8 DEF StopPolling, Keep, Rate, NextTick, CheckStored, SearchFails, SearchOffers,
           HideDriver, KeepMatch, kafka, store, inHand, Answering
    <2> QED BY <1>2, <2>1 DEF Moving
  <1>9. CASE Poll
    <2>1. /\ UNCHANGED <<requests, committed, rows, offers, offerLog, topic, outbox, active>>
          /\ pc = "poll"
      BY <1>9 DEF Poll, kafka, store
    <2> QED BY <1>2, <2>1 DEF Answering, Moving
  <1>10. ASSUME NEW t \in Trips, Advance(t) PROVE Undisturbed' /\ AnsweredAreWhole'
    <2>1. /\ UNCHANGED <<requests, committed, rows, offers, offerLog, topic, outbox>>
          /\ pc = "move"
      BY <1>10 DEF Advance, kafka, store
    <2>2. Moving \subseteq Moving'
      <3>1. PICK s \in NextStatuses(active[t].status) :
                active' = [active EXCEPT ![t].status = s, ![t].stamps = Stamp(@, s)]
        BY <1>10 DEF Advance
      <3>2. active[t].status \in Stages /\ s # "idle"
        BY <3>1, NextStatusesType DEF Statuses, Stages, Finished
      <3>3. active[t] \in ActiveTrip
        BY <1>0, <3>2 DEF TypeOK, Idle, Stages
      <3>4. active'[t].status = s /\ \A u \in Trips \ {t} : active'[u] = active[u]
        BY <1>0, <3>1, <3>3 DEF TypeOK, ActiveTrip
      <3> QED BY <3>2, <3>4 DEF Moving, Idle
    <2> QED BY <1>2, <2>1, <2>2 DEF Answering
  \* A step of an answer touches no other trip than the one in hand.
  <1>11. ASSUME pc \in Answering, pc' \in Answering, cur' = cur,
                UNCHANGED <<requests, committed, active>>,
                \A t \in Trips \ {cur} : /\ rows'[t] = rows[t] /\ offers'[t] = offers[t]
                                         /\ offerLog'[t] = offerLog[t]
                                         /\ topic'[t] = topic[t] /\ outbox'[t] = outbox[t]
         PROVE  Undisturbed' /\ AnsweredAreWhole'
    <2>1. \A t \in Trips : Answered(t)' = Answered(t)
      BY <1>11 DEF Answered
    <2>2. \A t \in Trips \ {cur} : (Fresh(t) => Fresh(t)') /\ (Whole(t) => Whole(t)')
      BY <1>1, <1>11 DEF Moving
    <2> QED BY <1>0, <1>11, <2>1, <2>2 DEF Undisturbed, AnsweredAreWhole
  <1>12. CASE RecordOffers \/ AnnounceOffers
    <2>1. /\ UNCHANGED <<requests, committed, active, cur, rows, topic, outbox>>
          /\ pc \in Answering /\ pc' \in Answering
          /\ \A t \in Trips \ {cur} : offers'[t] = offers[t] /\ offerLog'[t] = offerLog[t]
      BY <1>0, <1>12 DEF RecordOffers, AnnounceOffers, kafka, store, inHand, TypeOK, Answering
    <2> QED BY <1>11, <2>1
  <1>13. CASE TellNoDriver \/ TellMatch
    <2>1. /\ UNCHANGED <<requests, committed, active, cur, rows, offers, offerLog, topic>>
          /\ pc \in Answering /\ pc' \in Answering
          /\ \A t \in Trips \ {cur} : outbox'[t] = outbox[t]
      BY <1>0, <1>13 DEF TellNoDriver, TellMatch, Announce, otherKafka, store, inHand, TypeOK, Answering
    <2> QED BY <1>11, <2>1
  <1>14. CASE WriteNoDriver \/ Assign
    <2>1. /\ UNCHANGED <<requests, committed, active, cur, offers, offerLog, topic, outbox>>
          /\ pc \in Answering /\ pc' \in Answering
          /\ \A t \in Trips \ {cur} : rows'[t] = rows[t]
      BY <1>0, <1>14 DEF WriteNoDriver, Assign, Updated, kafka, inHand, TypeOK, Answering
    <2> QED BY <1>11, <2>1
  <1>15. CASE Commit
    <2>1. /\ UNCHANGED <<requests, rows, offers, offerLog, topic, outbox>> /\ pc = "commit" /\ pc' = "poll"
          /\ committed' = position
          /\ cur \in Trips
          /\ \A t \in Trips \ {cur} : active'[t] = active[t]
          /\ Winner(chain) # None => active'[cur].status = "matched"
      BY <1>0, <1>15 DEF Commit, store, TypeOK, Answering
    <2>2. position = committed + 1 /\ position \in 1..Len(requests) /\ cur = requests[position]
          /\ committed \in Nat
      BY <1>0, <2>1, AnsweringTrip DEF Answering, TypeOK
    <2>3. \A t \in Trips : Answered(t)' <=> Answered(t) \/ t = cur
      <3>1. \A i : i \in 1..committed' <=> i \in 1..committed \/ i = position
        BY <2>1, <2>2
      <3> QED BY <2>1, <2>2, <3>1 DEF Answered
    <2>4. \A t \in Trips \ {cur} : t \in Moving => t \in Moving'
      BY <2>1 DEF Moving
    <2>5. ASSUME NEW t \in Trips \ {cur} PROVE (Fresh(t) => Fresh(t)') /\ (Whole(t) => Whole(t)')
      BY <1>1, <2>1, <2>4
    <2>7. /\ rows[cur].status # "requested" /\ offerLog[cur] = offers[cur]
          /\ rows[cur].status = Latest(Told(cur))
          /\ rows[cur].status \in Stages => Winner(chain) # None
      <3>1. Winner(chain) = None => rows[cur].status = "no_driver_found"
        BY <1>0, <2>1 DEF AnswerInHand
      <3>2. Winner(chain) # None => rows[cur].status = "matched"
        BY <2>1 DEF Sound, Copies, MatchInHand, Matched
      <3>3. offerLog[cur] = offers[cur] /\ rows[cur].status = Latest(Told(cur))
        BY <1>0, <2>1 DEF AnswerInHand, Answering
      <3> QED BY <3>1, <3>2, <3>3 DEF Stages
    <2>8. ASSUME NEW t \in Trips, t = cur PROVE Whole(t)'
      <3>1. Latest(Told(t))' = Latest(Told(t))
        BY <2>1 DEF Told, Latest
      <3>2. Winner(chain) # None => t \in Moving'
        BY <2>1, <2>8 DEF Moving, Idle
      <3> QED BY <2>1, <2>7, <2>8, <3>1, <3>2 DEF Whole
    <2>9. Undisturbed'
      BY <1>0, <2>1, <2>3, <2>5 DEF Undisturbed
    <2> QED BY <1>0, <2>3, <2>5, <2>8, <2>9 DEF AnsweredAreWhole
  \* A step that moves a trip along touches no other.
  <1>16. ASSUME pc \in MovingOn, pc' \notin Answering, UNCHANGED <<requests, committed>>,
                Whole(cur) => \A t \in Trips : t = cur => Whole(t)',
                \A t \in Trips \ {cur} : /\ rows'[t] = rows[t] /\ offers'[t] = offers[t]
                                         /\ offerLog'[t] = offerLog[t]
                                         /\ topic'[t] = topic[t] /\ outbox'[t] = outbox[t]
                                         /\ t \in Moving => t \in Moving'
         PROVE  Undisturbed' /\ AnsweredAreWhole'
    <2>1. \A t \in Trips : Answered(t)' = Answered(t)
      BY <1>16 DEF Answered
    <2>2. \A t \in Trips \ {cur} : (Fresh(t) => Fresh(t)') /\ (Whole(t) => Whole(t)')
      BY <1>1, <1>16
    <2>3. pc \notin Answering
      BY <1>16 DEF MovingOn, Answering
    <2> QED BY <1>0, <1>16, <2>1, <2>2, <2>3 DEF Undisturbed, AnsweredAreWhole
  <1>17. CASE Tell
    <2>1. /\ UNCHANGED <<requests, committed, active, cur, rows, offers, offerLog, topic>>
          /\ pc = "tell" /\ pc' = "write" /\ \A t \in Trips \ {cur} : outbox'[t] = outbox[t]
      BY <1>0, <1>17 DEF Tell, Announce, otherKafka, store, inHand, TypeOK
    <2>2. Whole(cur) => \A t \in Trips : t = cur => Whole(t)'
      BY <2>1 DEF Whole, Moving
    <2> QED BY <1>16, <2>1, <2>2 DEF MovingOn, Answering, Moving
  <1>18. CASE Write
    <2>1. /\ UNCHANGED <<requests, committed, active, offers, offerLog, topic, outbox>>
          /\ pc = "write" /\ pc' \in {"rate", "forget", "move"}
          /\ rows' = Updated(cur, UpdateStatus(rows[cur], active[cur].status))
      BY <1>18 DEF Write, kafka
    <2>2. /\ rows'[cur].status = active[cur].status /\ \A t \in Trips \ {cur} : rows'[t] = rows[t]
          /\ cur \in Moving
      BY <1>0, <2>1, UpdateKeepsDriver DEF MovingOn
    <2>3. Latest(Told(cur)) = active[cur].status /\ active[cur].status # "requested"
      BY <1>0, <2>1, <2>2 DEF Sound, Copies, MoveInHand, TypeOK, Moving, ActiveTrip
    <2>4. ASSUME Whole(cur), NEW t \in Trips, t = cur PROVE Whole(t)'
      <3>1. Latest(Told(t))' = Latest(Told(t))
        BY <2>1 DEF Told, Latest
      <3> QED BY <2>1, <2>2, <2>3, <2>4, <3>1 DEF Whole, Moving
    <2> QED BY <1>16, <2>1, <2>2, <2>4 DEF MovingOn, Answering, Moving
  <1>19. CASE Forget
    <2>1. /\ UNCHANGED <<requests, committed, rows, offers, offerLog, topic, outbox>>
          /\ pc = "forget" /\ pc' = "move"
          /\ \A t \in Trips \ {cur} : active'[t] = active[t]
      BY <1>0, <1>19 DEF Forget, kafka, store, TypeOK
    <2>2. rows[cur].status \in Finished
      BY <2>1 DEF Sound, Copies, MoveInHand, InHand
    <2>3. ASSUME Whole(cur), NEW t \in Trips, t = cur PROVE Whole(t)'
      <3>1. Latest(Told(t))' = Latest(Told(t))
        BY <2>1 DEF Told, Latest
      <3> QED BY <2>1, <2>2, <2>3, <3>1 DEF Whole, Finished, Stages
    <2> QED BY <1>16, <2>1, <2>3 DEF MovingOn, Answering, Moving
  <1> QED
    BY <1>3, <1>4, <1>5, <1>6, <1>7, <1>8, <1>9, <1>10, <1>12, <1>13, <1>14, <1>15, <1>17,
       <1>18, <1>19
    DEF CalmNext, Step, Surroundings, Answer, Move

\* Before the first request every trip is untouched.
LEMMA CalmInit == Init => Calm
  <1> SUFFICES ASSUME Init PROVE Calm
    OBVIOUS
  <1>1. /\ pc = "poll" /\ committed = 0 /\ rows = [t \in Trips |-> NoRow]
        /\ offers = [t \in Trips |-> <<>>] /\ offerLog = [t \in Trips |-> <<>>]
        /\ topic = [t \in Trips |-> <<>>] /\ outbox = [t \in Trips |-> <<>>]
    BY DEF Init, InitOutside
  <1>2. NoRow.status = "no row" /\ NoRow.driver = None
    BY DEF NoRow
  <1>3. \A t \in Trips : Fresh(t) /\ ~Answered(t)
    <2>1. \A t \in Trips : rows[t] = NoRow /\ Untold(t) /\ Unoffered(t)
      BY <1>1 DEF Untold, Unoffered
    <2>2. 1..committed = {}
      BY <1>1
    <2> QED BY <1>2, <2>1, <2>2 DEF Fresh, Unanswered, Answered
  <1>4. AnswerInHand /\ ChainsInOrder
    BY <1>1, EmptyInOrder DEF AnswerInHand, Answering, ChainsInOrder
  <1>5. NewsIsTrue
    BY <1>1, EmptySeq DEF NewsIsTrue
  <1> QED BY <1>3, <1>4, <1>5 DEF Calm, Undisturbed, AnsweredAreWhole

\* The inductive step: every step but a crash.
LEMMA CalmStep == Sound /\ Calm /\ [CalmNext]_vars => Sound' /\ Calm'
  <1>1. [CalmNext]_vars => [Next]_vars
    BY DEF Next
  <1> QED BY <1>1, SoundStep, ChainsStep, NewsStep, HandStep, TripsStep DEF Calm

\* While dispatch stays alive, every trip is untouched, in hand or whole.
THEOREM CalmHolds == CalmSpec => [](Sound /\ Calm)
  BY SoundInit, CalmInit, CalmStep, PTL DEF CalmSpec

-----------------------------------------------------------------------------
(* What it gives. *)

\* The chain of a trip is published as a whole, or not yet.
Published(t) == offerLog[t] = offers[t] \/ offerLog[t] = <<>>

LEMMA PublishedAsAWhole == Sound /\ Calm => \A t \in Trips : Published(t)
  <1> SUFFICES ASSUME Sound, Calm, NEW t \in Trips PROVE Published(t)
    OBVIOUS
  <1>1. CASE Answered(t)
    BY <1>1 DEF Calm, AnsweredAreWhole, Whole, Published
  <1>2. CASE Fresh(t)
    BY <1>2 DEF Fresh, Unoffered, Published
  <1>3. CASE pc \in Answering /\ t = cur
    BY <1>3 DEF Calm, AnswerInHand, Unoffered, Published, Answering
  <1> QED BY <1>1, <1>2, <1>3 DEF Calm, Undisturbed

\* While dispatch stays alive, whenever it polls and nothing is in flight, the
\* row of every trip has the status of its last message.
THEOREM TheStoryIsOne == CalmSpec => []OneStory
  <1>1. Sound /\ Calm => OneStory
    <2> SUFFICES ASSUME Sound, Calm, pc = "poll", \A t \in Trips : outbox[t] = <<>>,
                        NEW t \in Trips, rows[t] # NoRow
                 PROVE  rows[t].status = Latest(topic[t])
      BY DEF OneStory
    <2>1. topic[t] \in Seq(Message) /\ rows[t] \in Row
      BY DEF Sound, TypeOK
    <2>2. Told(t) = topic[t]
      BY <2>1, ConcatEmptySeq DEF Told
    <2>3. CASE Answered(t)
      BY <2>2, <2>3 DEF Calm, AnsweredAreWhole, Whole
    <2>4. CASE Fresh(t)
      BY <2>1, <2>4, NoRowStatus DEF Fresh, Unanswered, Untold, Latest, Row
    <2> QED BY <2>3, <2>4 DEF Calm, Undisturbed, Answering
  <1> QED BY <1>1, CalmHolds, PTL

\* While dispatch stays alive, no committed request leaves its rider waiting
\* in requested.
THEOREM NobodyLeftWaiting == CalmSpec => []AnsweredMeansMoved
  <1>1. Sound /\ Calm => AnsweredMeansMoved
    <2> SUFFICES ASSUME Sound, Calm, NEW i \in 1..committed
                 PROVE  rows[requests[i]].status # "requested"
      BY DEF AnsweredMeansMoved
    <2>1. requests[i] \in Trips /\ Answered(requests[i])
      BY OffsetBounds DEF Sound, Answered
    <2> QED BY <2>1 DEF Calm, AnsweredAreWhole, Whole
  <1> QED BY <1>1, CalmHolds, PTL

\* While dispatch stays alive, every published offer is on record.
THEOREM OffersOnRecord == CalmSpec => []PublishedIsRecorded
  <1>1. Sound /\ Calm => PublishedIsRecorded
    <2> SUFFICES ASSUME Sound, Calm, NEW t \in Trips
                 PROVE  OffersIn(offerLog[t]) \subseteq OffersIn(offers[t])
      BY DEF PublishedIsRecorded
    <2>1. OffersIn(<<>>) = {}
      BY DEF OffersIn
    <2> QED BY <2>1, PublishedAsAWhole DEF Published
  <1> QED BY <1>1, CalmHolds, PTL

\* While dispatch stays alive, nobody accepted a trip reported as unmatched.
THEOREM UnmatchedIsTrue == CalmSpec => []UnmatchedTookNoOffer
  <1>1. Sound /\ Calm => UnmatchedTookNoOffer
    <2> SUFFICES ASSUME Sound, Calm, NEW t \in Trips, Latest(topic[t]) = "no_driver_found"
                 PROVE  Accepts(offerLog[t]) = {}
      BY DEF UnmatchedTookNoOffer
    <2>1. topic[t] \in Seq(NewsOf(t)) /\ topic[t] # <<>>
      BY DEF Calm, NewsIsTrue, Latest
    <2>2. topic[t][Len(topic[t])] \in NewsOf(t)
      BY <2>1, EmptySeq, LenProperties, ElementOfSeq
    <2>3. Accepts(offers[t]) = {}
      BY <2>1, <2>2 DEF NewsOf, Latest
    <2> QED BY <2>3, PublishedAsAWhole, EmptyInOrder DEF Published
  <1> QED BY <1>1, CalmHolds, PTL

\* While dispatch stays alive, the offers published about a trip are numbered
\* 1, 2, 3 ... without a gap.
THEOREM ChainsAreWhole == CalmSpec => []ChainHasNoGaps
  <1>1. Sound /\ Calm => ChainHasNoGaps
    <2> SUFFICES ASSUME Sound, Calm, NEW t \in Trips
                 PROVE  Sequences(offerLog[t]) = 1..Len(offerLog[t])
      BY DEF ChainHasNoGaps
    <2>1. offerLog[t] \in Seq(Offer) /\ InOrder(offerLog[t])
      BY PublishedAsAWhole, EmptyInOrder DEF Published, Calm, ChainsInOrder, Sound, TypeOK
    <2>2. DOMAIN offerLog[t] = 1..Len(offerLog[t])
      BY <2>1, LenProperties
    <2> QED BY <2>1, <2>2 DEF Sequences, InOrder
  <1> QED BY <1>1, CalmHolds, PTL

-----------------------------------------------------------------------------
(* trips.status keeps the promise of TripLifecycle. *)
Column == [t \in Trips |-> rows[t].status]

\* One cell of the column is written.
LEMMA ColumnWritten ==
    ASSUME TypeOK, NEW t \in Trips,
           \A u \in Trips \ {t} : rows'[u] = rows[u], DOMAIN rows' = Trips
    PROVE  Column' = [Column EXCEPT ![t] = rows'[t].status]
  BY DEF Column, TypeOK

\* Each step is a step of TripLifecycle or leaves the column alone.
LEMMA LifecycleStep == Sound /\ Calm /\ [CalmNext]_vars => Lifecycle!Next \/ UNCHANGED Column
  <1> SUFFICES ASSUME Sound, Calm, [CalmNext]_vars PROVE Lifecycle!Next \/ UNCHANGED Column
    OBVIOUS
  <1>0. TypeOK /\ AnswerInHand
    BY DEF Sound, Calm
  <1>1. ASSUME rows' = rows PROVE UNCHANGED Column
    BY <1>1 DEF Column
  <1>2. ASSUME NEW t \in Trips, NEW s, rows[t] \in Row,
               rows' = Updated(t, UpdateStatus(rows[t], s))
        PROVE  Column' = [Column EXCEPT ![t] = s]
    <2>1. rows'[t].status = s /\ (\A u \in Trips \ {t} : rows'[u] = rows[u]) /\ DOMAIN rows' = Trips
      BY <1>0, <1>2, UpdateKeepsDriver DEF Updated, TypeOK
    <2> QED BY <1>0, <2>1, ColumnWritten
  \* The answers and the progress of TripLifecycle.
  <1>3. ASSUME NEW t \in Trips, Column[t] = "requested", NEW s \in {"matched", "no_driver_found"},
                Column' = [Column EXCEPT ![t] = s]
         PROVE  Lifecycle!Next
    <2>1. Lifecycle!Answer(t)
      BY <1>3 DEF Lifecycle!Answer, Column
    <2> QED BY <2>1 DEF Lifecycle!Next
  <1>4. ASSUME NEW t \in Trips, Column[t] \in Stages, NEW s \in NextStatuses(Column[t]),
                Column' = [Column EXCEPT ![t] = s]
         PROVE  Lifecycle!Next
    <2>1. Lifecycle!Progress(t)
      BY <1>4 DEF Lifecycle!Progress, Column, Lifecycle!Stages, Stages,
         Lifecycle!NextStatuses, NextStatuses
    <2> QED BY <2>1 DEF Lifecycle!Next
  <1>5. ASSUME NEW t \in Trips, Request(t) PROVE Lifecycle!Next
    <2>1. /\ rows[t] = NoRow /\ rows'[t].status = "requested" /\ DOMAIN rows' = Trips
          /\ \A u \in Trips \ {t} : rows'[u] = rows[u]
      BY <1>0, <1>5 DEF Request, TypeOK
    <2>2. Column[t] = "no row" /\ Column' = [Column EXCEPT ![t] = "requested"]
      BY <1>0, <2>1, ColumnWritten, NoRowStatus DEF Column
    <2>3. Lifecycle!Ask(t)
      BY <2>2 DEF Lifecycle!Ask, Column
    <2> QED BY <2>3 DEF Lifecycle!Next
  <1>6. CASE WriteNoDriver
    <2>1. /\ cur \in Trips /\ rows[cur] \in Row /\ rows[cur].status = "requested"
          /\ rows' = Updated(cur, UpdateStatus(rows[cur], "no_driver_found"))
      BY <1>0, <1>6, AnsweringTrip DEF WriteNoDriver, Answering, AnswerInHand
    <2>2. Column' = [Column EXCEPT ![cur] = "no_driver_found"] /\ Column[cur] = "requested"
      BY <1>2, <2>1 DEF Column
    <2> QED BY <1>3, <2>1, <2>2
  <1>7. CASE Assign
    <2>1. /\ cur \in Trips /\ rows[cur] \in Row /\ rows[cur].status = "requested"
          /\ rows' = Updated(cur, [rows[cur] EXCEPT !.status = "matched", !.driver = Winner(chain)])
      BY <1>0, <1>7, AnsweringTrip DEF Assign, Answering, AnswerInHand
    <2>2. rows' = [rows EXCEPT ![cur] = [rows[cur] EXCEPT !.status = "matched", !.driver = Winner(chain)]]
      BY <2>1, NoRowStatus DEF Updated, Row
    <2>3. [rows[cur] EXCEPT !.status = "matched", !.driver = Winner(chain)].status = "matched"
      BY <2>1 DEF Row
    <2>4. Column' = [Column EXCEPT ![cur] = "matched"] /\ Column[cur] = "requested"
      <3> DEFINE r == [rows[cur] EXCEPT !.status = "matched", !.driver = Winner(chain)]
      <3> HIDE DEF r
      <3>1. r.status = "matched" /\ rows' = [rows EXCEPT ![cur] = r]
        BY <2>2, <2>3 DEF r
      <3> QED BY <1>0, <2>1, <3>1 DEF Column, TypeOK
    <2> QED BY <1>3, <2>1, <2>4
  <1>8. CASE Write
    <2>1. /\ cur \in Trips /\ cur \in Moving /\ rows[cur] \in Row
          /\ rows' = Updated(cur, UpdateStatus(rows[cur], active[cur].status))
          /\ active[cur].status \in NextStatuses(rows[cur].status)
      BY <1>0, <1>8, AnsweringIsNew DEF Write, Sound, Copies, InHand, MoveInHand, MovingOn, Moving
    <2>2. Column' = [Column EXCEPT ![cur] = active[cur].status] /\ Column[cur] = rows[cur].status
      BY <1>2, <2>1 DEF Column
    <2>3. rows[cur].status \in Stages
      BY <2>1 DEF NextStatuses, Stages
    <2> QED BY <1>4, <2>1, <2>2, <2>3
  <1>9. ASSUME NEW t \in Trips, BecomeDue(t) \/ Deliver(t) \/ Expire(t) \/ Advance(t)
        PROVE  UNCHANGED Column
    BY <1>1, <1>9 DEF BecomeDue, Deliver, Expire, Advance, store
  <1>10. ASSUME NEW d \in Drivers, ReportFree(d) \/ ReportBusy(d) PROVE UNCHANGED Column
    BY <1>1, <1>10 DEF ReportFree, ReportBusy, store
  <1>11. CASE Poll \/ StopPolling \/ CheckStored \/ SearchFails \/ SearchOffers \/ RecordOffers
             \/ AnnounceOffers \/ TellNoDriver \/ HideDriver \/ KeepMatch \/ TellMatch \/ Commit
             \/ Keep \/ Tell \/ Rate \/ Forget \/ NextTick \/ UNCHANGED vars
    <2>1. rows' = rows
      BY <1>11 DEF Poll, StopPolling, CheckStored, SearchFails, SearchOffers, RecordOffers,
         AnnounceOffers, TellNoDriver, HideDriver, KeepMatch, TellMatch, Commit, Keep, Tell, Rate,
         Forget, NextTick, vars, store
    <2> QED BY <1>1, <2>1
  <1> QED
    BY <1>5, <1>6, <1>7, <1>8, <1>9, <1>10, <1>11
    DEF CalmNext, Step, Surroundings, Answer, Move

\* While dispatch stays alive, trips.status implements TripLifecycle: every
\* trip is asked for once, answered once and moves only along the state
\* machine of trips.py.
THEOREM StatusKeepsLifecycle == CalmSpec => Lifecycle!Spec
  <1>1. Init => Lifecycle!Init
    BY NoRowStatus DEF Init, Lifecycle!Init
  <1>2. Sound /\ Calm /\ [CalmNext]_vars => [Lifecycle!Next]_([t \in Trips |-> rows[t].status])
    BY LifecycleStep DEF Column
  <1> QED BY <1>1, <1>2, CalmHolds, PTL DEF CalmSpec, Lifecycle!Spec

-----------------------------------------------------------------------------
(***************************************************************************)
(* One crash.  A request that is still to be answered, or whose chain is   *)
(* not out yet, has an acceptance published only if PostgreSQL has one     *)
(* too: then the replay does not search again.  That needs the chain of    *)
(* the first life to be on record as it was published (Calm), so it is the *)
(* second crash that may tell of two acceptances.                          *)
(***************************************************************************)
Searching == {"check", "search", "record", "tell_offers"}
Awaiting(t) == ~Answered(t) /\ ~(t = cur /\ pc \in Answering \ Searching)

ToldOnRecord ==
    \A t \in Trips : Awaiting(t) /\ Accepts(offerLog[t]) # {} => Accepts(offers[t]) # {}

NoneToldYet ==
    /\ pc \in Searching \ {"check"} => Accepts(offerLog[cur]) = {}
    /\ pc \in {"record", "tell_offers"} => Accepts(chain) \subseteq {Len(chain)}

Once == ToldOnRecord /\ NoneToldYet /\ OneAcceptTold

\* A part of what was published, and no more of it, survives a crash.
LEMMA AcceptsOfPart ==
    ASSUME NEW os \in Seq(Offer), NEW n \in 0..Len(os)
    PROVE  Accepts(SubSeq(os, 1, n)) \subseteq Accepts(os)
  <1>1. Len(os) \in Nat /\ \A i \in 1..n : os[i] \in Offer
    BY LenProperties, ElementOfSeq
  <1>2. /\ SubSeq(os, 1, n) \in Seq(Offer) /\ Len(SubSeq(os, 1, n)) = n
        /\ \A i \in 1..n : SubSeq(os, 1, n)[i] = os[i]
    BY <1>1, SubSeqProperties
  <1>3. DOMAIN SubSeq(os, 1, n) = 1..n /\ DOMAIN os = 1..Len(os)
    BY <1>2, LenProperties
  <1> QED BY <1>1, <1>2, <1>3 DEF Accepts

\* A chain goes out after offers that nobody has accepted.
LEMMA AcceptsOfBoth ==
    ASSUME NEW os \in Seq(Offer), NEW more \in Seq(Offer),
           Accepts(os) = {}, Accepts(more) \subseteq {Len(more)}
    PROVE  Accepts(os \o more) \subseteq {Len(os) + Len(more)}
  <1>1. /\ Len(os) \in Nat /\ Len(more) \in Nat /\ Len(os \o more) = Len(os) + Len(more)
        /\ os \o more \in Seq(Offer)
        /\ \A i \in 1..Len(os) : (os \o more)[i] = os[i]
        /\ \A i \in 1..Len(more) : (os \o more)[Len(os) + i] = more[i]
    BY LenProperties, ConcatProperties
  <1>2. /\ DOMAIN os = 1..Len(os) /\ DOMAIN more = 1..Len(more)
        /\ DOMAIN (os \o more) = 1..(Len(os) + Len(more))
    BY <1>1, LenProperties
  <1> SUFFICES ASSUME NEW i \in 1..(Len(os) + Len(more)), (os \o more)[i].status = "accepted"
               PROVE  i = Len(os) + Len(more)
    BY <1>2 DEF Accepts
  <1>3. i \notin 1..Len(os)
    BY <1>1, <1>2 DEF Accepts
  <1>4. i - Len(os) \in 1..Len(more) /\ Len(os) + (i - Len(os)) = i
    BY <1>1, <1>3
  <1>5. more[i - Len(os)].status = "accepted"
    BY <1>1, <1>4
  <1>6. i - Len(os) = Len(more)
    BY <1>2, <1>4, <1>5 DEF Accepts
  <1> QED BY <1>1, <1>4, <1>6

\* A request stays answered.
LEMMA AnsweredStays ==
    Sound /\ [Next]_vars => \A t \in Trips : Answered(t) => Answered(t)'
  <1> SUFFICES ASSUME Sound, [Next]_vars, NEW t \in Trips, Answered(t) PROVE Answered(t)'
    OBVIOUS
  <1>1. PICK i \in 1..committed : requests[i] = t
    BY DEF Answered
  <1>2. i \in 1..Len(requests) /\ committed \in Nat
    BY OffsetBounds DEF Sound
  <1>3. requests'[i] = requests[i]
    <2>1. CASE \E u \in Trips : Request(u)
      BY <1>2, <2>1, AppendProperties DEF Request, Sound, TypeOK
    <2>2. CASE requests' = requests
      BY <2>2
    <2> QED
      BY <2>1, <2>2 DEF Next, CalmNext, Step, Surroundings, Answer, Move, Poll, StopPolling,
        CheckStored, SearchFails, SearchOffers, RecordOffers, AnnounceOffers, TellNoDriver,
        WriteNoDriver, Assign, HideDriver, KeepMatch, TellMatch, Commit, Advance, Keep, Tell,
        Write, Rate, Forget, NextTick, BecomeDue, Deliver, Expire, ReportFree, ReportBusy, Crash,
        vars, kafka, otherKafka
  <1>4. i \in 1..committed'
    <2>1. CASE Commit
      BY <1>1, <1>2, <2>1, AnsweringTrip DEF Commit, Answering
    <2>2. CASE committed' = committed
      BY <2>2
    <2> QED
      BY <2>1, <2>2 DEF Next, CalmNext, Step, Surroundings, Answer, Move, Poll, StopPolling,
        CheckStored, SearchFails, SearchOffers, RecordOffers, AnnounceOffers, TellNoDriver,
        WriteNoDriver, Assign, HideDriver, KeepMatch, TellMatch, Advance, Keep, Tell,
        Write, Rate, Forget, NextTick, Request, BecomeDue, Deliver, Expire, ReportFree, ReportBusy,
        Crash, vars, kafka, otherKafka
  <1> QED BY <1>1, <1>3, <1>4 DEF Answered

\* The first crash may cut what was published, never what is on record.
LEMMA OnceAfterCrash == Sound /\ Calm /\ Once /\ Crash => Once'
  <1> SUFFICES ASSUME Sound, Calm, Once, Crash PROVE Once'
    OBVIOUS
  <1>1. PICK kept \in [Trips -> UNION {0..Len(offerLog[t]) : t \in Trips}] :
          /\ \A t \in Trips : kept[t] \in offerSafe[t]..Len(offerLog[t])
          /\ offerLog' = [t \in Trips |-> SubSeq(offerLog[t], 1, kept[t])]
    BY DEF Crash
  <1>2. ASSUME NEW t \in Trips PROVE Accepts(offerLog'[t]) \subseteq Accepts(offerLog[t])
    <2>1. offerLog[t] \in Seq(Offer) /\ Len(offerLog[t]) \in Nat /\ offerSafe[t] \in Nat
      BY LenProperties DEF Sound, TypeOK
    <2>2. kept[t] \in 0..Len(offerLog[t])
      <3>1. kept[t] \in offerSafe[t]..Len(offerLog[t])
        BY <1>1
      <3> QED BY <2>1, <3>1
    <2> QED BY <1>1, <2>1, <2>2, AcceptsOfPart
  <1>3. OneAcceptTold'
    BY <1>2 DEF Once, OneAcceptTold
  <1>4. NoneToldYet'
    BY DEF Crash, Restart, NoneToldYet, Searching
  <1>5. ASSUME NEW t \in Trips, Accepts(offerLog'[t]) # {} PROVE Accepts(offers'[t]) # {}
    <2>1. Accepts(offerLog[t]) # {}
      BY <1>2, <1>5
    <2>2. Accepts(offers[t]) # {}
      BY <2>1, PublishedAsAWhole, EmptyInOrder DEF Published
    <2> QED BY <2>2 DEF Crash, store
  <1> QED BY <1>3, <1>4, <1>5 DEF Once, ToldOnRecord

\* A chain goes out only after a search, and a search only without an acceptance.
LEMMA OnceStep == Sound /\ Once /\ [CalmNext]_vars => Once'
  <1> SUFFICES ASSUME Sound, Once, [CalmNext]_vars PROVE Once'
    OBVIOUS
  <1> USE DEF Once, ToldOnRecord, NoneToldYet, OneAcceptTold
  <1>0. /\ TypeOK
        /\ \A t \in Trips : Answered(t) => Answered(t)'
        /\ pc \in Answering => cur \in Trips /\ ~Answered(cur)
    BY AnsweredStays, AnsweringTrip DEF Next, Sound
  \* A step that publishes nothing.
  <1>1. ASSUME offerLog' = offerLog,
               \A t \in Trips : Accepts(offers[t]) # {} => Accepts(offers'[t]) # {},
               \A t \in Trips : Awaiting(t)' => Awaiting(t),
               NoneToldYet'
        PROVE  Once'
    BY <1>1 DEF Accepts
  <1>2. ASSUME UNCHANGED <<offerLog, offers, chain, cur, pc>> PROVE Once'
    <2>1. \A t \in Trips : Awaiting(t)' => Awaiting(t)
      BY <1>0, <1>2 DEF Awaiting
    <2> QED BY <1>1, <1>2, <2>1 DEF Accepts
  <1>3. ASSUME UNCHANGED <<offerLog, offers>>, pc \notin Answering, pc' \notin Answering \ {"check"}
        PROVE  Once'
    <2>1. \A t \in Trips : Awaiting(t)' => Awaiting(t)
      BY <1>0, <1>3 DEF Awaiting
    <2>2. NoneToldYet'
      BY <1>3 DEF Answering, Searching
    <2> QED BY <1>1, <1>3, <2>1, <2>2 DEF Accepts
  <1>4. ASSUME UNCHANGED <<offerLog, cur>>, pc \in Answering, pc' \in Answering,
               pc \notin Searching => pc' \notin Searching,
               \A t \in Trips : Accepts(offers[t]) # {} => Accepts(offers'[t]) # {},
               NoneToldYet'
        PROVE  Once'
    <2>1. \A t \in Trips : Awaiting(t)' => Awaiting(t)
      BY <1>0, <1>4 DEF Awaiting
    <2> QED BY <1>1, <1>4, <2>1
  <1>5. CASE CheckStored
    <2>1. /\ UNCHANGED <<offerLog, cur, offers, chain>> /\ pc = "check"
          /\ pc' \in {"search", "commit"}
          /\ pc' = "search" => Accepts(offers[cur]) = {}
      BY <1>5 DEF CheckStored, kafka, store, inHand
    <2>2. Awaiting(cur) /\ cur \in Trips
      BY <1>0, <2>1 DEF Awaiting, Answering, Searching
    <2>3. pc' = "search" => Accepts(offerLog[cur]) = {}
      BY <2>1, <2>2
    <2>4. NoneToldYet'
      BY <2>1, <2>3 DEF Searching, Accepts
    <2> QED BY <1>4, <2>1, <2>4 DEF Answering, Searching, Accepts
  <1>6. CASE SearchOffers
    <2>1. /\ UNCHANGED <<offerLog, cur, offers>> /\ pc = "search" /\ pc' = "record"
          /\ \E os \in Chains(geo) : chain' = os
      BY <1>6 DEF SearchOffers, kafka, store
    <2>2. InOrder(chain')
      BY <2>1, ChainsAreInOrder
    <2>3. NoneToldYet'
      BY <2>1, <2>2 DEF Searching, Accepts, InOrder
    <2> QED BY <1>4, <2>1, <2>3 DEF Answering, Searching, Accepts
  <1>7. CASE RecordOffers
    <2>1. /\ UNCHANGED <<offerLog, cur>> /\ pc = "record" /\ pc' \in {"tell_offers", "commit"}
          /\ pc' = "tell_offers" => chain' = chain
          /\ offers' = offers \/ offers' = [offers EXCEPT ![cur] = @ \o Kept(@, chain)]
      BY <1>7 DEF RecordOffers, kafka
    <2>2. NoneToldYet'
      BY <2>1 DEF Searching, Accepts
    <2>3. ASSUME NEW t \in Trips, Accepts(offers[t]) # {} PROVE Accepts(offers'[t]) # {}
      <3>1. chain \in Seq(Offer) /\ offers[t] \in Seq(Offer)
        BY <1>0 DEF TypeOK
      <3>2. offers'[t] \in {offers[t], offers[t] \o Kept(offers[t], chain)}
        BY <1>0, <2>1 DEF TypeOK
      <3> QED BY <2>3, <3>1, <3>2, KeptType
    <2> QED BY <1>4, <2>1, <2>2, <2>3 DEF Answering, Searching
  <1>8. CASE AnnounceOffers
    <2>1. /\ UNCHANGED <<requests, committed, cur, offers, chain>> /\ pc = "tell_offers"
          /\ pc' \in {"tell_none", "assign"}
          /\ offerLog' = [offerLog EXCEPT ![cur] = @ \o chain]
      BY <1>8 DEF AnnounceOffers, store, inHand
    <2>2. /\ cur \in Trips /\ offerLog[cur] \in Seq(Offer) /\ chain \in Seq(Offer)
          /\ Accepts(offerLog[cur]) = {} /\ Accepts(chain) \subseteq {Len(chain)}
      BY <1>0, <2>1 DEF TypeOK, Answering, Searching
    <2>3. Accepts(offerLog[cur] \o chain) \subseteq {Len(offerLog[cur]) + Len(chain)}
      BY <2>2, AcceptsOfBoth
    <2>4. /\ offerLog'[cur] = offerLog[cur] \o chain
          /\ \A t \in Trips \ {cur} : offerLog'[t] = offerLog[t]
      BY <1>0, <2>1, <2>2 DEF TypeOK
    <2>5. OneAcceptTold'
      <3> SUFFICES ASSUME NEW t \in Trips PROVE \A i, j \in Accepts(offerLog'[t]) : i = j
        BY DEF Accepts
      <3>1. CASE t = cur
        <4>1. offerLog'[t] = offerLog[cur] \o chain
          BY <2>4, <3>1
        <4>2. Accepts(offerLog'[t]) \subseteq {Len(offerLog[cur]) + Len(chain)}
          BY <2>3, <4>1
        <4> QED BY <4>2
      <3>2. CASE t # cur
        BY <2>4, <3>2
      <3> QED BY <3>1, <3>2
    <2>6. ASSUME NEW t \in Trips, Awaiting(t)' PROVE t # cur /\ Awaiting(t)
      BY <1>0, <2>1, <2>6 DEF Awaiting, Answering, Searching
    <2>7. ToldOnRecord'
      <3> SUFFICES ASSUME NEW t \in Trips, Awaiting(t)', Accepts(offerLog'[t]) # {}
                   PROVE  Accepts(offers'[t]) # {}
        BY DEF Accepts
      <3> QED BY <2>1, <2>4, <2>6
    <2>8. NoneToldYet'
      BY <2>1 DEF Searching
    <2> QED BY <2>5, <2>7, <2>8
  <1>9. CASE Commit
    <2>1. /\ UNCHANGED <<offerLog, offers>> /\ pc = "commit" /\ pc' = "poll"
          /\ committed' = position /\ requests' = requests
      BY <1>9 DEF Commit, store
    <2>2. position = committed + 1 /\ position \in 1..Len(requests) /\ cur = requests[position]
      BY <2>1, AnsweringTrip DEF Answering
    <2>3. \A t \in Trips : t = cur => Answered(t)'
      BY <2>1, <2>2, OffsetBounds DEF Answered, Sound
    <2>4. \A t \in Trips : Awaiting(t)' => Awaiting(t)
      BY <1>0, <2>1, <2>3 DEF Awaiting
    <2>5. NoneToldYet'
      BY <2>1 DEF Searching
    <2> QED BY <1>1, <2>1, <2>4, <2>5 DEF Accepts
  <1>10. CASE SearchFails \/ TellNoDriver \/ WriteNoDriver \/ Assign \/ HideDriver \/ KeepMatch
              \/ TellMatch
    <2>1. /\ UNCHANGED <<offerLog, offers, cur, chain>> /\ pc \in Answering
          /\ pc' \in Answering \ Searching
      BY <1>10 DEF SearchFails, TellNoDriver, WriteNoDriver, Assign, HideDriver, KeepMatch,
         TellMatch, kafka, otherKafka, store, inHand, Answering, Searching
    <2>2. NoneToldYet'
      BY <2>1 DEF Searching
    <2> QED BY <1>4, <2>1, <2>2 DEF Accepts
  <1>11. CASE Poll \/ StopPolling \/ (\E t \in Trips : Advance(t)) \/ Keep \/ Tell \/ Write \/ Rate
              \/ Forget \/ NextTick
    <2>1. /\ UNCHANGED <<offerLog, offers>> /\ pc \notin Answering
          /\ pc' \notin Answering \ {"check"}
      BY <1>11 DEF Poll, StopPolling, Advance, Keep, Tell, Write, Rate, Forget, NextTick, kafka,
         otherKafka, store, Answering
    <2> QED BY <1>3, <2>1
  <1>12. ASSUME NEW t \in Trips, Request(t) \/ BecomeDue(t) \/ Deliver(t) \/ Expire(t) PROVE Once'
    BY <1>2, <1>12 DEF Request, BecomeDue, Deliver, Expire, kafka, store, memory
  <1>13. ASSUME NEW d \in Drivers, ReportFree(d) \/ ReportBusy(d) PROVE Once'
    BY <1>2, <1>13 DEF ReportFree, ReportBusy, kafka, store, memory
  <1>14. CASE UNCHANGED vars
    BY <1>2, <1>14 DEF vars, kafka, store, memory
  <1> QED
    BY <1>5, <1>6, <1>7, <1>8, <1>9, <1>10, <1>11, <1>12, <1>13, <1>14
    DEF CalmNext, Step, Surroundings, Answer, Move

\* Quality bar Q6 holds as long as dispatch does not die twice: at most one
\* acceptance per trip is published, the replay of a request included.
THEOREM OneCrashOneAccept ==
    ASSUME MaxCrashes <= 1
    PROVE  Spec => []OneAcceptTold
  <1> DEFINE CalmAtFirst == crashes = 0 => Calm
  <1>1. Init => Sound /\ CalmAtFirst /\ Once
    <2> SUFFICES ASSUME Init PROVE Once
      BY SoundInit, CalmInit
    <2>1. pc = "poll" /\ \A t \in Trips : offerLog[t] = <<>>
      BY DEF Init, InitOutside
    <2> QED BY <2>1, EmptyInOrder DEF Once, ToldOnRecord, NoneToldYet, OneAcceptTold, Searching
  <1>2. Sound /\ CalmAtFirst /\ Once /\ [Next]_vars => (Sound /\ CalmAtFirst /\ Once)'
    <2> SUFFICES ASSUME Sound, CalmAtFirst, Once, [Next]_vars PROVE CalmAtFirst' /\ Once'
      BY SoundStep
    <2>1. CASE Crash
      <3>1. crashes \in Nat /\ crashes < MaxCrashes /\ crashes' = crashes + 1
        BY <2>1, DispatchAssumption DEF Crash, Sound, TypeOK
      <3>2. crashes = 0 /\ crashes' # 0
        BY <3>1, DispatchAssumption
      <3> QED BY <2>1, <3>2, OnceAfterCrash
    <2>2. CASE [CalmNext]_vars
      <3>1. crashes' = crashes
        BY <2>2 DEF CalmNext, Step, Surroundings, Answer, Move, Poll, StopPolling,
          CheckStored, SearchFails, SearchOffers, RecordOffers, AnnounceOffers, TellNoDriver,
          WriteNoDriver, Assign, HideDriver, KeepMatch, TellMatch, Commit, Advance, Keep, Tell,
          Write, Rate, Forget, NextTick, Request, BecomeDue, Deliver, Expire, ReportFree,
          ReportBusy, vars, inHand
      <3> QED BY <2>2, <3>1, CalmStep, OnceStep
    <2> QED BY <2>1, <2>2 DEF Next
  <1>3. Once => OneAcceptTold
    BY DEF Once
  <1> HIDE DEF CalmAtFirst
  <1> QED BY <1>1, <1>2, <1>3, PTL DEF Spec
=============================================================================
