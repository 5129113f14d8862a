---------------------------- MODULE ArchiveProofs ----------------------------
(***************************************************************************)
(* Theorems about the archiver beside dispatch (ArchiveSpec), for any      *)
(* trips, seeded or not, drivers, batch sizes and crashes.  The argument:  *)
(* the row of a trip that dispatch still has to do with is there and has   *)
(* not ended, and what has ended was told; so what is old is over.         *)
(***************************************************************************)
EXTENDS Archive, DispatchProofs

-----------------------------------------------------------------------------
(* The inductive invariant.  The request in hand is the one behind the     *)
(* committed offset, whatever became of the rows ...                       *)
InLine ==
    /\ position <= Len(requests)
    /\ position = IF pc \in Answering THEN committed + 1 ELSE committed
    /\ pc \in Answering => cur = requests[position]
    /\ pc \in {"poll", "move"} => cur = None
    /\ AskedOnce

\* ... and until a process dies, the trips dispatch still has to do with have
\* their rows, and these have not ended ...
HasOpenRow(t) == rows[t] # NoRow /\ ~rows[t].ended

StillAnswering == pc \in Answering \ {"commit"} \/ (pc = "commit" /\ Winner(chain) # None)

RowsAreOpen ==
    /\ \A i \in position + 1 .. Len(requests) : HasOpenRow(requests[i])
    /\ StillAnswering => HasOpenRow(cur)
    /\ \A t \in Moving : HasOpenRow(t) \/ (t = cur /\ pc \in {"rate", "forget"} /\ rows[t] # NoRow)

\* ... how a trip ended was told before it was written ...
EndIsTold(t) ==
    rows[t].ended => /\ rows[t].status \in Finished
                     /\ t \in Seeded \/ Latest(Told(t)) = rows[t].status

EndsAreTold ==
    /\ pc = "write_none" => Latest(Told(cur)) = "no_driver_found"
    /\ pc = "write" => Latest(Told(cur)) = active[cur].status
    /\ \A t \in Trips : EndIsTold(t)

\* ... and what is old has ended, was delivered, and is in nobody's hands.
OldAreOver ==
    /\ old \subseteq Trips /\ batch \subseteq old
    /\ \A t \in old : rows[t].ended /\ outbox[t] = <<>> /\ DoneWith(t)

Orderly == RowsAreOpen /\ EndsAreTold /\ OldAreOver

ArchiveInductive == TypeOK /\ InHand /\ InLine /\ ChainInHand /\ (crashes = 0 => Orderly)

-----------------------------------------------------------------------------
(* What holds whatever dies. *)

\* A row that is gone, or was never there, has not ended.
LEMMA NoRowIsNoEnd == NoRow \notin Row /\ NoRow.ended = FALSE
  BY NoRowStatus DEF NoRow, Row

LEMMA QueueBounds ==
    ASSUME TypeOK, InLine
    PROVE  /\ Len(requests) \in Nat /\ position \in Nat /\ committed \in Nat
           /\ committed <= Len(requests)
           /\ \A i \in 1..Len(requests) : requests[i] \in Trips
           /\ pc \in Answering => position \in 1..Len(requests)
  <1>1. Len(requests) \in Nat /\ committed \in Nat /\ position \in Nat
    BY LenProperties DEF TypeOK
  <1>2. position = committed \/ position = committed + 1
    BY DEF InLine
  <1>3. \A i \in 1..Len(requests) : requests[i] \in Trips
    BY LenProperties, ElementOfSeq DEF TypeOK
  <1> QED BY <1>1, <1>2, <1>3 DEF InLine

\* A step of the archiver's system is one of dispatch's, or one of these.
LEMMA ArchiveSteps ==
    ASSUME [ArchiveNext]_archiveVars
    PROVE  \/ [Next]_vars
           \/ InsertRefused /\ UNCHANGED archiver
           \/ DeleteTrips
           \/ ArchiverDies
  BY DEF ArchiveNext, archiveVars, DispatchStep, Next, CalmNext, Age, Archiver, StartTick,
     SelectBatch, SelectFrom, DeleteRatings, DeleteOffers, DeleteRefused

LEMMA ArchiveTypeStep ==
    ASSUME TypeOK, InHand, ChainInHand, [ArchiveNext]_archiveVars
    PROVE  TypeOK' /\ InHand' /\ ChainInHand'
<1>1. CASE [Next]_vars
  BY <1>1, TypeStep, ChainStep
<1>2. CASE InsertRefused
  <2>1. topic' \in [Trips -> Seq(Message)] /\ outbox' \in [Trips -> Seq(Message)]
    <3>1. \A t \in Trips : topic[t] \o outbox[t] \in Seq(Message)
      BY ConcatProperties DEF TypeOK
    <3>2. <<>> \in Seq(Message)
      OBVIOUS
    <3> QED BY <1>2, <3>1, <3>2 DEF InsertRefused
  <2>2. offerSafe' \in [Trips -> Nat]
    <3>1. \A t \in Trips : Len(offerLog[t]) \in Nat
      BY LenProperties DEF TypeOK
    <3> QED BY <1>2, <3>1 DEF InsertRefused
  <2>3. chain' = <<>> /\ <<>> \in Seq(Offer) /\ Winner(<<>>) = None
    BY <1>2, NoWinner DEF InsertRefused, Restart
  <2>4. \A t \in Trips : active'[t] = Idle
    BY <1>2 DEF InsertRefused, Restart
  <2>5. TypeOK'
    BY <1>2, <2>1, <2>2, <2>3, <2>4, DispatchAssumption DEF InsertRefused, Restart, store, redis, TypeOK, Steps,
       Statuses, Moving
  <2>6. InHand'
    BY <1>2, <2>4 DEF InsertRefused, Restart, InHand, Answering, Matching, MovingOn
  <2>7. ChainInHand'
    BY <2>3 DEF ChainInHand
  <2> QED BY <2>5, <2>6, <2>7
<1>3. CASE DeleteTrips
  <2>1. UNCHANGED <<kafka, redis, memory, crashes>> /\ rated' \subseteq rated
    BY <1>3 DEF DeleteTrips
  <2>2. rows' \in [Trips -> Row \cup {NoRow}]
    BY <1>3 DEF DeleteTrips, TypeOK
  <2>3. offers' \in [Trips -> Seq(Offer)]
    <3>1. <<>> \in Seq(Offer)
      OBVIOUS
    <3> QED BY <1>3, <3>1 DEF DeleteTrips, TypeOK
  <2> QED BY <2>1, <2>2, <2>3 DEF TypeOK, InHand, ChainInHand, Moving, kafka, redis, memory
<1>4. CASE ArchiverDies
  <2>1. UNCHANGED <<kafka, store, redis, memory>> /\ crashes' \in 0..MaxCrashes
    BY <1>4, DispatchAssumption DEF ArchiverDies, TypeOK
  <2> QED BY <2>1 DEF TypeOK, InHand, ChainInHand, Moving, kafka, store, redis, memory
<1> QED BY <1>1, <1>2, <1>3, <1>4, ArchiveSteps

\* A request more, behind the others.
LEMMA RequestLengthens ==
    ASSUME TypeOK, NEW t \in Trips, Request(t)
    PROVE  /\ Len(requests) \in Nat /\ Len(requests') = Len(requests) + 1
           /\ \A i \in 1..Len(requests) : requests'[i] = requests[i] /\ requests[i] # t
           /\ requests'[Len(requests) + 1] = t
           /\ \A i \in 1..Len(requests') : i \in 1..Len(requests) \/ i = Len(requests) + 1
<1>1. requests \in Seq(Trips) /\ requests' = Append(requests, t)
  BY DEF Request, TypeOK
<1>2. DOMAIN requests = 1..Len(requests) /\ Len(requests) \in Nat
  BY <1>1, LenProperties
<1>3. \A i \in 1..Len(requests) : requests[i] # t
  BY <1>2 DEF Request
<1>4. /\ Len(requests') = Len(requests) + 1
      /\ \A i \in 1..Len(requests) : requests'[i] = requests[i]
      /\ requests'[Len(requests) + 1] = t
  BY <1>1, <1>2, AppendProperties
<1> QED BY <1>2, <1>3, <1>4

\* The consumer's place in the queue is kept, rows or no rows.
LEMMA InLineStep ==
    ASSUME TypeOK, InHand, InLine, [ArchiveNext]_archiveVars
    PROVE  InLine'
<1> USE DEF Moving
<1>1. ASSUME NEW t \in Trips, Request(t) PROVE InLine'
  <2>1. UNCHANGED <<committed, active, position, pc, cur>>
    BY <1>1 DEF Request, memory
  <2>2. \A i, j \in 1..Len(requests') : requests'[i] = requests'[j] => i = j
    BY <1>1, RequestLengthens DEF InLine, AskedOnce
  <2>3. \A u \in Trips : Answered(u) => Answered(u)'
    <3>1. \A i \in 1..committed : i \in 1..Len(requests)
      BY QueueBounds
    <3> QED BY <1>1, <2>1, <3>1, RequestLengthens DEF Answered
  <2>4. AskedOnce'
    BY <2>1, <2>2, <2>3 DEF InLine, AskedOnce
  <2>5. pc \in Answering => requests'[position] = requests[position]
    BY <1>1, QueueBounds, RequestLengthens
  <2> QED BY <1>1, <2>1, <2>4, <2>5, QueueBounds, RequestLengthens DEF InLine
<1>2. ASSUME UNCHANGED <<requests, committed, active, position, cur>>,
             pc' \in Answering <=> pc \in Answering,
             pc' \in {"poll", "move"} => pc \in {"poll", "move"}
      PROVE  InLine'
  BY <1>2 DEF InLine, AskedOnce, Answered
<1>3. CASE Poll
  <2>1. /\ UNCHANGED <<requests, committed, active>> /\ pc' = "check" /\ pc = "poll"
        /\ position' = position + 1 /\ position < Len(requests) /\ cur' = requests[position + 1]
    BY <1>3 DEF Poll, kafka
  <2> QED BY <2>1, QueueBounds DEF InLine, AskedOnce, Answered, Answering
<1>4. CASE Commit
  <2>1. /\ committed' = position /\ position = committed + 1 /\ cur = requests[position]
        /\ requests' = requests /\ \A u \in Trips \ {cur} : active'[u] = active[u]
        /\ position' = position /\ pc' = "poll" /\ cur' = None
    BY <1>4 DEF Commit, InLine, Answering, TypeOK
  <2>2. \A u \in Trips : u = cur \/ Answered(u) => Answered(u)'
    BY <2>1, QueueBounds DEF Answered
  <2>3. AskedOnce'
    BY <2>1, <2>2 DEF InLine, AskedOnce
  <2> QED BY <2>1, <2>3 DEF InLine, Answering
<1>5. ASSUME NEW t \in Trips, Advance(t) PROVE InLine'
  <2>1. /\ UNCHANGED <<requests, committed, position>> /\ active[t].status \in Stages
        /\ \A u \in Trips \ {t} : active'[u] = active[u]
        /\ pc = "move" /\ pc' \in {"tell", "keep"}
    BY <1>5, NextStatusesType DEF Advance, kafka, TypeOK
  <2>2. active[t] # Idle
    BY <2>1 DEF Idle, Stages
  <2> QED BY <2>1, <2>2 DEF InLine, AskedOnce, Answered, Answering
<1>6. CASE Forget
  <2>1. /\ UNCHANGED <<requests, committed, position>> /\ pc = "forget" /\ pc' = "move"
        /\ cur' = None /\ \A u \in Trips : active'[u] # Idle => active[u] # Idle
    BY <1>6 DEF Forget, kafka, TypeOK
  <2> QED BY <2>1 DEF InLine, AskedOnce, Answered, Answering
<1>7. CASE Crash \/ InsertRefused
  <2>1. /\ UNCHANGED <<requests, committed>> /\ position' = committed /\ pc' = "poll"
        /\ cur' = None /\ \A u \in Trips : active'[u] = Idle
    BY <1>7 DEF Crash, InsertRefused, Restart
  <2> QED BY <2>1, QueueBounds DEF InLine, AskedOnce, Answered, Answering
<1>8. CASE Write
  <2>1. /\ UNCHANGED <<requests, committed, active, position>> /\ pc = "write"
        /\ pc' \in {"rate", "forget", "move"}
        /\ pc' = "move" => cur' = None
    <3>1. active[cur] \in ActiveTrip
      BY <1>8 DEF Write, TypeOK, InHand, MovingOn
    <3> QED BY <1>8, <3>1 DEF Write, kafka, Finished
  <2> QED BY <2>1 DEF InLine, AskedOnce, Answered, Answering
<1>9. ASSUME NEW t \in Trips, BecomeDue(t) \/ Deliver(t) \/ Expire(t) PROVE InLine'
  BY <1>2, <1>9 DEF BecomeDue, Deliver, Expire, kafka, memory
<1>10. ASSUME NEW d \in Drivers, ReportFree(d) \/ ReportBusy(d) PROVE InLine'
  BY <1>2, <1>10 DEF ReportFree, ReportBusy, kafka, memory
<1>11. CASE StopPolling \/ CheckStored \/ SearchFails \/ SearchOffers \/ RecordOffers
            \/ AnnounceOffers \/ TellNoDriver \/ WriteNoDriver \/ Assign \/ HideDriver
            \/ KeepMatch \/ TellMatch \/ Keep \/ Tell \/ Rate \/ NextTick
  <2>1. /\ UNCHANGED <<requests, committed, active, position, cur>>
        /\ pc' \in Answering <=> pc \in Answering
        /\ pc' \in {"poll", "move"} => pc \in {"poll", "move"}
    BY <1>11 DEF StopPolling, CheckStored, SearchFails, SearchOffers, RecordOffers,
         AnnounceOffers, TellNoDriver, WriteNoDriver, Assign, HideDriver, KeepMatch,
         TellMatch, Keep, Tell, Rate, NextTick, kafka, otherKafka, memory, inHand, Answering
  <2> QED BY <1>2, <2>1
<1>12. CASE UNCHANGED vars \/ DeleteTrips \/ ArchiverDies
  BY <1>2, <1>12 DEF DeleteTrips, ArchiverDies, vars, kafka, memory
<1> QED
  BY <1>1, <1>3, <1>4, <1>5, <1>6, <1>7, <1>8, <1>9, <1>10, <1>11, <1>12, ArchiveSteps
  DEF Next, CalmNext, Step, Surroundings, Answer, Move

-----------------------------------------------------------------------------
(* What holds until somebody dies.  Under each lemma the rest stays as it  *)
(* was: what is old, and what the archiver has selected.                   *)

\* A row that has not ended is a row of dispatch's, and is not old.
LEMMA OpenIsNotOld ==
    ASSUME TypeOK, OldAreOver, NEW t \in Trips, HasOpenRow(t)
    PROVE  rows[t] \in Row /\ t \notin old
  BY DEF TypeOK, OldAreOver, HasOpenRow

\* Steps that write no row and tell nothing, of a trip that stays in hand.
LEMMA NothingTold ==
    ASSUME Orderly, UNCHANGED <<requests, position, cur, active, rows, topic, outbox, old, batch>>,
           StillAnswering' => StillAnswering,
           pc \in {"rate", "forget"} => pc' \in {"rate", "forget"},
           pc' \notin {"write", "write_none"}
    PROVE  Orderly'
<1>1. RowsAreOpen'
  BY DEF Orderly, RowsAreOpen, HasOpenRow, Moving
<1>2. EndsAreTold'
  BY DEF Orderly, EndsAreTold, EndIsTold, Told
<1>3. OldAreOver'
  BY DEF Orderly, OldAreOver, DoneWith, Moving
<1> QED BY <1>1, <1>2, <1>3 DEF Orderly

\* Steps that hand a message to the producer, of a trip whose row is open.
LEMMA SomethingTold ==
    ASSUME TypeOK, Orderly, UNCHANGED <<requests, position, cur, active, rows, topic, chain, old, batch>>,
           cur \in Trips, HasOpenRow(cur),
           NEW status \in Statuses, NEW driver \in Drivers \cup {None},
           NEW stamps \in SUBSET Milestones, NEW reason \in Reasons,
           Announce(status, driver, stamps, reason),
           pc \notin {"rate", "forget"},
           pc' = "write_none" => status = "no_driver_found",
           pc' = "write" => status = active[cur].status
    PROVE  Orderly'
<1>1. \A t \in Trips : IF t = cur THEN Latest(Told(t)') = status ELSE Told(t)' = Told(t)
  BY AnnounceTells
<1>2. RowsAreOpen'
  BY DEF Orderly, RowsAreOpen, HasOpenRow, Moving, StillAnswering
<1>3. EndsAreTold'
  <2>1. \A t \in Trips : EndIsTold(t)'
    BY <1>1 DEF Orderly, EndsAreTold, EndIsTold, HasOpenRow
  <2>2. (pc' = "write_none" => Latest(Told(cur)') = "no_driver_found")
        /\ (pc' = "write" => Latest(Told(cur)') = active[cur].status)
    BY <1>1
  <2> QED BY <2>1, <2>2 DEF EndsAreTold
<1>4. OldAreOver'
  <2>1. cur \notin old /\ old \subseteq Trips
    BY OpenIsNotOld DEF Orderly, OldAreOver
  <2>2. \A t \in Trips \ {cur} : outbox'[t] = outbox[t]
    BY DEF Announce, TypeOK
  <2> QED BY <2>1, <2>2 DEF Orderly, OldAreOver, DoneWith, Moving
<1> QED BY <1>2, <1>3, <1>4 DEF Orderly

\* Steps that write the row of the trip in hand.
LEMMA RowWritten ==
    ASSUME TypeOK, InHand, InLine, Orderly,
           UNCHANGED <<requests, position, active, topic, outbox, chain, old, batch>>,
           cur \in Trips, HasOpenRow(cur), NEW row \in Row, rows' = Updated(cur, row),
           row.ended => /\ row.status \in Finished /\ Latest(Told(cur)) = row.status
                        /\ pc = "write_none" \/ pc' \in {"rate", "forget"},
           StillAnswering' => ~row.ended /\ cur' = cur,
           pc \in {"write", "write_none", "assign"},
           pc' \notin {"write", "write_none"},
           cur' \in {cur, None}, pc' \in {"rate", "forget"} => cur' = cur
    PROVE  Orderly'
<1>1. /\ rows'[cur] = row /\ rows[cur] # NoRow
      /\ \A t \in Trips \ {cur} : rows'[t] = rows[t]
  BY UpdatedType DEF TypeOK, HasOpenRow
<1>2. row # NoRow
  BY NoRowIsNoEnd
<1>3. pc \in Answering => cur \notin Moving
  <2>1. ASSUME pc \in Answering, Answered(cur) PROVE FALSE
    <3>1. PICK i \in 1..committed : requests[i] = cur
      BY <2>1 DEF Answered
    <3>2. i \in 1..Len(requests) /\ position \in 1..Len(requests) /\ requests[position] = cur
          /\ i # position
      BY <2>1, <3>1, QueueBounds DEF InLine
    <3> QED BY <3>1, <3>2 DEF InLine, AskedOnce
  <2> QED BY <2>1 DEF InLine, AskedOnce
<1>4. \A i \in position + 1 .. Len(requests) : requests[i] # cur /\ requests[i] \in Trips
  <2> SUFFICES ASSUME NEW i \in position + 1 .. Len(requests)
               PROVE  requests[i] # cur /\ requests[i] \in Trips
    OBVIOUS
  <2>1. i \in 1..Len(requests) /\ requests[i] \in Trips
    BY QueueBounds
  <2>2. CASE pc \in Answering
    <3>1. position \in 1..Len(requests) /\ requests[position] = cur /\ i # position
      BY <2>2, QueueBounds DEF InLine
    <3> QED BY <2>1, <3>1 DEF InLine, AskedOnce
  <2>3. CASE pc \notin Answering
    <3>1. cur \in Moving
      BY <2>3 DEF InHand, MovingOn, Moving, Answering
    <3>2. PICK j \in 1..committed : requests[j] = cur
      BY <3>1 DEF InLine, AskedOnce, Answered
    <3>3. j \in 1..Len(requests) /\ j # i
      BY <3>2, QueueBounds, <2>3 DEF InLine
    <3> QED BY <2>1, <3>2, <3>3 DEF InLine, AskedOnce
  <2> QED BY <2>2, <2>3
<1>5. RowsAreOpen'
  <2>1. \A i \in position + 1 .. Len(requests) : HasOpenRow(requests[i])'
    BY <1>1, <1>4 DEF Orderly, RowsAreOpen, HasOpenRow
  <2>2. StillAnswering' => HasOpenRow(cur)'
    BY <1>1, <1>2 DEF HasOpenRow
  <2>3. ASSUME NEW t \in Moving
        PROVE  HasOpenRow(t)' \/ (t = cur' /\ pc' \in {"rate", "forget"} /\ rows'[t] # NoRow)
    <3>1. CASE t # cur
      <4>1. HasOpenRow(t) /\ t \in Trips
        BY <3>1 DEF Orderly, RowsAreOpen, Moving
      <4> QED BY <1>1, <3>1, <4>1 DEF HasOpenRow
    <3>2. CASE t = cur /\ row.ended
      BY <1>1, <1>2, <1>3, <3>2 DEF Answering
    <3>3. CASE t = cur /\ ~row.ended
      BY <1>1, <1>2, <3>3 DEF HasOpenRow
    <3> QED BY <3>1, <3>2, <3>3
  <2> QED BY <2>1, <2>2, <2>3 DEF RowsAreOpen, Moving
<1>6. EndsAreTold'
  <2>1. \A t \in Trips : Told(t)' = Told(t)
    BY DEF Told
  <2>2. ASSUME NEW t \in Trips, t # cur PROVE EndIsTold(t)'
    <3>1. rows'[t] = rows[t] /\ Told(t)' = Told(t) /\ EndIsTold(t)
      BY <1>1, <2>1, <2>2 DEF Orderly, EndsAreTold
    <3> QED BY <3>1 DEF EndIsTold
  <2>3. ASSUME NEW t \in Trips, t = cur PROVE EndIsTold(t)'
    <3>1. rows'[t] = row /\ Told(t)' = Told(t)
      BY <1>1, <2>1, <2>3
    <3>2. Latest(Told(t)) = Latest(Told(cur))
      BY <2>3
    <3> QED BY <3>1, <3>2 DEF EndIsTold
  <2> QED BY <2>2, <2>3 DEF EndsAreTold
<1>7. OldAreOver'
  <2>1. cur \notin old /\ old \subseteq Trips /\ None \notin Trips
    BY OpenIsNotOld, DispatchAssumption DEF Orderly, OldAreOver
  <2>2. \A t \in old : t \notin {cur, None} /\ rows'[t] = rows[t]
    BY <1>1, <2>1
  <2> QED BY <2>1, <2>2 DEF Orderly, OldAreOver, DoneWith, Moving
<1> QED BY <1>5, <1>6, <1>7 DEF Orderly

\* A rider's new request is about a trip without a row.
LEMMA RequestOrderly ==
    ASSUME TypeOK, InHand, InLine, Orderly, UNCHANGED <<old, batch>>, NEW t \in Trips, Request(t)
    PROVE  Orderly'
<1> DEFINE OpenNow(u) == rows'[u] # NoRow /\ ~rows'[u].ended
<1>1. /\ UNCHANGED <<topic, outbox, position, pc, cur, chain, active>> /\ rows[t] = NoRow
      /\ rows'[t] # NoRow /\ ~rows'[t].ended
      /\ \A u \in Trips \ {t} : rows'[u] = rows[u]
  BY NoRowIsNoEnd DEF Request, memory, TypeOK, NoRow
<1>2. ~HasOpenRow(t) /\ t \notin Moving
  BY <1>1 DEF Orderly, RowsAreOpen, HasOpenRow
<1>3. OpenNow(t)
  BY <1>1
<1>4. \A u \in Trips : HasOpenRow(u) => OpenNow(u)
  BY <1>1, <1>2 DEF HasOpenRow
<1>5. /\ \A i \in 1..Len(requests) : requests[i] \in Trips
      /\ Len(requests) \in Nat /\ position \in Nat
  BY QueueBounds
<1>6. RowsAreOpen'
  <2>1. ASSUME NEW i \in position + 1 .. Len(requests') PROVE OpenNow(requests'[i])
    <3>1. CASE i \in 1..Len(requests)
      <4>1. requests'[i] = requests[i] /\ requests[i] \in Trips /\ i \in position + 1 .. Len(requests)
        BY <1>5, <3>1, RequestLengthens
      <4>2. HasOpenRow(requests[i])
        BY <4>1 DEF Orderly, RowsAreOpen
      <4>3. OpenNow(requests[i])
        BY <1>4, <4>1, <4>2
      <4> QED BY <4>1, <4>3
    <3>2. CASE i = Len(requests) + 1
      <4>1. requests'[i] = t
        BY <3>2, RequestLengthens
      <4> QED BY <1>3, <4>1
    <3>3. i \in 1..Len(requests')
      BY <1>5, RequestLengthens
    <3> QED BY <3>1, <3>2, <3>3, RequestLengthens
  <2>2. StillAnswering' => OpenNow(cur)
    <3>1. StillAnswering' => StillAnswering /\ cur \in Trips
      BY <1>1 DEF StillAnswering, InHand, Answering
    <3>2. StillAnswering => HasOpenRow(cur)
      BY DEF Orderly, RowsAreOpen
    <3> QED BY <1>4, <3>1, <3>2
  <2>3. ASSUME NEW u \in Moving
        PROVE  OpenNow(u) \/ (u = cur /\ pc \in {"rate", "forget"} /\ rows'[u] # NoRow)
    <3>1. u \in Trips \ {t}
      BY <1>2 DEF Moving
    <3>2. HasOpenRow(u) \/ (u = cur /\ pc \in {"rate", "forget"} /\ rows[u] # NoRow)
      BY DEF Orderly, RowsAreOpen
    <3> QED BY <1>1, <1>4, <3>1, <3>2
  <2>4. Moving' = Moving
    BY <1>1 DEF Moving
  <2> QED BY <1>1, <2>1, <2>2, <2>3, <2>4 DEF RowsAreOpen, HasOpenRow
<1>7. EndsAreTold'
  <2>1. \A u \in Trips : Told(u)' = Told(u)
    BY <1>1 DEF Told
  <2>2. ASSUME NEW u \in Trips PROVE EndIsTold(u)'
    <3>1. CASE u = t
      BY <1>1, <3>1 DEF EndIsTold
    <3>2. CASE u # t
      BY <1>1, <2>1, <3>2 DEF Orderly, EndsAreTold, EndIsTold
    <3> QED BY <3>1, <3>2
  <2> QED BY <1>1, <2>2 DEF Orderly, EndsAreTold, Told
<1>8. OldAreOver'
  <2>1. t \notin old
    BY <1>1, NoRowIsNoEnd DEF Orderly, OldAreOver
  <2>2. ASSUME NEW u \in old PROVE rows'[u].ended /\ outbox'[u] = <<>> /\ DoneWith(u)'
    <3>1. u \in Trips \ {t} /\ rows[u].ended /\ outbox[u] = <<>> /\ DoneWith(u)
      BY <2>1 DEF Orderly, OldAreOver
    <3>2. \A i \in position + 1 .. Len(requests') : requests'[i] # u
      <4> SUFFICES ASSUME NEW i \in position + 1 .. Len(requests') PROVE requests'[i] # u
        OBVIOUS
      <4>1. i \in 1..Len(requests')
        BY <1>5, RequestLengthens
      <4>2. CASE i \in 1..Len(requests)
        <5>1. i \in position + 1 .. Len(requests) /\ requests'[i] = requests[i]
          BY <1>5, <4>2, RequestLengthens
        <5> QED BY <3>1, <5>1 DEF DoneWith
      <4>3. CASE i = Len(requests) + 1
        BY <3>1, <4>3, RequestLengthens
      <4> QED BY <4>1, <4>2, <4>3, RequestLengthens
    <3> QED BY <1>1, <3>1, <3>2 DEF DoneWith, Moving
  <2> QED BY <2>2 DEF Orderly, OldAreOver
<1> QED BY <1>6, <1>7, <1>8 DEF Orderly

\* The producer has nothing of an old trip to deliver.
LEMMA DeliverOrderly ==
    ASSUME TypeOK, InHand, Orderly, UNCHANGED <<old, batch>>, NEW t \in Trips, Deliver(t)
    PROVE  Orderly'
<1>1. /\ UNCHANGED <<requests, position, pc, cur, chain, active, rows>> /\ outbox[t] # <<>>
      /\ \A u \in Trips \ {t} : outbox'[u] = outbox[u]
  BY DEF Deliver, store, memory, TypeOK
<1>2. \A u \in Trips : Told(u)' = Told(u)
  BY DeliverKeepsTold
<1>3. RowsAreOpen'
  BY <1>1 DEF Orderly, RowsAreOpen, HasOpenRow, Moving, StillAnswering
<1>4. \A u \in Trips : EndIsTold(u)'
  BY <1>1, <1>2 DEF Orderly, EndsAreTold, EndIsTold
<1>5. OldAreOver'
  BY <1>1 DEF Orderly, OldAreOver, DoneWith, Moving
<1>6. EndsAreTold'
  <2>1. pc \in {"write", "write_none"} => cur \in Trips
    BY DEF InHand, Answering, MovingOn
  <2>2. cur \in Trips => Told(cur)' = Told(cur)
    BY <1>1, <1>2 DEF Told
  <2> QED BY <1>1, <1>4, <2>1, <2>2 DEF Orderly, EndsAreTold
<1> QED BY <1>3, <1>5, <1>6 DEF Orderly

\* The next request is taken: its row is open.
LEMMA PollOrderly ==
    ASSUME TypeOK, InLine, Orderly, UNCHANGED <<old, batch>>, Poll
    PROVE  Orderly'
<1>1. /\ UNCHANGED <<requests, topic, outbox, rows, chain, active>> /\ pc = "poll" /\ pc' = "check"
      /\ position' = position + 1 /\ position < Len(requests) /\ cur' = requests[position + 1]
  BY DEF Poll, kafka, store
<1>2. Len(requests) \in Nat /\ position \in Nat /\ position + 1 \in position + 1 .. Len(requests)
  BY <1>1, QueueBounds
<1>3. RowsAreOpen'
  <2>1. rows[cur'] # NoRow /\ ~rows[cur'].ended
    BY <1>1, <1>2 DEF Orderly, RowsAreOpen, HasOpenRow
  <2>2. \A i \in position' + 1 .. Len(requests) : i \in position + 1 .. Len(requests)
    BY <1>1, <1>2
  <2> QED BY <1>1, <2>1, <2>2 DEF Orderly, RowsAreOpen, HasOpenRow, Moving
<1>4. EndsAreTold'
  BY <1>1 DEF Orderly, EndsAreTold, EndIsTold, Told
<1>5. OldAreOver'
  <2>1. \A i \in position' + 1 .. Len(requests) : i \in position + 1 .. Len(requests)
    BY <1>1, <1>2
  <2>2. \A t \in old : t # cur'
    BY <1>1, <1>2 DEF Orderly, OldAreOver, DoneWith
  <2> QED BY <1>1, <2>1, <2>2 DEF Orderly, OldAreOver, DoneWith, Moving
<1> QED BY <1>3, <1>4, <1>5 DEF Orderly

\* A match that is committed is remembered: its row is open.
LEMMA CommitOrderly ==
    ASSUME TypeOK, InHand, InLine, Orderly, UNCHANGED <<old, batch>>, Commit
    PROVE  Orderly'
<1>1. /\ UNCHANGED <<requests, topic, outbox, rows, position>> /\ pc = "commit" /\ pc' = "poll"
      /\ cur' = None /\ cur \in Trips /\ None \notin Trips
      /\ \A t \in Trips \ {cur} : active'[t] = active[t]
      /\ Winner(chain) = None => active' = active
  BY DispatchAssumption DEF Commit, store, InHand, Answering, TypeOK
<1>2. HasOpenRow(cur) \/ active' = active
  BY <1>1 DEF Orderly, RowsAreOpen, StillAnswering
<1>3. RowsAreOpen'
  <2>1. \A t \in Moving : HasOpenRow(t)
    BY <1>1 DEF Orderly, RowsAreOpen
  <2>2. \A t \in Moving' : HasOpenRow(t)
    BY <1>1, <1>2, <2>1 DEF Moving
  <2> QED BY <1>1, <2>2 DEF Orderly, RowsAreOpen, HasOpenRow, StillAnswering, Answering
<1>4. EndsAreTold'
  BY <1>1 DEF Orderly, EndsAreTold, EndIsTold, Told
<1>5. OldAreOver'
  <2>1. \A t \in old : t \in Trips \ {cur}
    BY DEF Orderly, OldAreOver, DoneWith
  <2> QED BY <1>1, <2>1 DEF Orderly, OldAreOver, DoneWith, Moving
<1> QED BY <1>3, <1>4, <1>5 DEF Orderly

\* A trip that is moved along has its row open, and is not old.
LEMMA AdvanceOrderly ==
    ASSUME TypeOK, InHand, InLine, Orderly, UNCHANGED <<old, batch>>, NEW t \in Trips, Advance(t)
    PROVE  Orderly'
<1>1. /\ UNCHANGED <<requests, topic, outbox, rows, position, chain>> /\ pc = "move"
      /\ cur' = t /\ \A u \in Trips \ {t} : active'[u] = active[u]
      /\ pc' \in {"tell", "keep"} /\ t \in Moving
  BY DEF Advance, kafka, store, TypeOK
<1>2. \A u \in Moving : HasOpenRow(u)
  BY <1>1 DEF Orderly, RowsAreOpen
<1>3. Moving' \subseteq Moving
  BY <1>1 DEF Moving
<1>4. RowsAreOpen'
  BY <1>1, <1>2, <1>3 DEF Orderly, RowsAreOpen, HasOpenRow, StillAnswering, Answering
<1>5. EndsAreTold'
  BY <1>1 DEF Orderly, EndsAreTold, EndIsTold, Told
<1>6. OldAreOver'
  <2>1. \A u \in old : u # t
    BY <1>1 DEF Orderly, OldAreOver, DoneWith
  <2> QED BY <1>1, <1>3, <2>1 DEF Orderly, OldAreOver, DoneWith
<1> QED BY <1>4, <1>5, <1>6 DEF Orderly

\* A trip that is over leaves the memory.
LEMMA ForgetOrderly ==
    ASSUME TypeOK, InHand, InLine, Orderly, UNCHANGED <<old, batch>>, Forget
    PROVE  Orderly'
<1>1. /\ UNCHANGED <<requests, topic, outbox, rows, position, chain>> /\ pc = "forget"
      /\ pc' = "move" /\ cur' = None /\ cur \in Trips /\ None \notin Trips
      /\ active'[cur] = Idle /\ \A u \in Trips \ {cur} : active'[u] = active[u]
  BY DispatchAssumption DEF Forget, kafka, store, TypeOK, InHand, MovingOn
<1>2. Moving' \subseteq Moving /\ cur \notin Moving'
  BY <1>1 DEF Moving
<1>3. RowsAreOpen'
  BY <1>1, <1>2 DEF Orderly, RowsAreOpen, HasOpenRow, StillAnswering, Answering
<1>4. EndsAreTold'
  BY <1>1 DEF Orderly, EndsAreTold, EndIsTold, Told
<1>5. OldAreOver'
  BY <1>1, <1>2 DEF Orderly, OldAreOver, DoneWith
<1> QED BY <1>3, <1>4, <1>5 DEF Orderly

\* Every step of dispatch, and of what surrounds it.
LEMMA CalmOrderly ==
    ASSUME TypeOK, InHand, InLine, ChainInHand, Orderly, UNCHANGED <<old, batch>>, CalmNext
    PROVE  Orderly'
<1>1. pc \in Answering => cur \in Trips
  BY DEF InHand
<1>2. pc \in Answering \ {"commit"} => HasOpenRow(cur)
  BY DEF Orderly, RowsAreOpen, StillAnswering
<1>3. pc \in {"tell", "write"} => /\ cur \in Trips /\ HasOpenRow(cur)
                                 /\ active[cur] \in ActiveTrip
  BY DEF Orderly, RowsAreOpen, InHand, Moving, MovingOn, TypeOK
<1>4. ASSUME NEW t \in Trips, BecomeDue(t) \/ Expire(t) PROVE Orderly'
  <2>1. /\ UNCHANGED <<requests, position, pc, cur, chain, active, rows, topic, outbox>>
    BY <1>4 DEF BecomeDue, Expire, kafka, store, memory
  <2>2. Orderly'
    BY <2>1 DEF Orderly, RowsAreOpen, HasOpenRow, Moving, StillAnswering, EndsAreTold, EndIsTold,
       Told, OldAreOver, DoneWith
  <2> QED BY <2>2
<1>5. ASSUME NEW d \in Drivers, ReportFree(d) \/ ReportBusy(d) PROVE Orderly'
  <2>1. /\ UNCHANGED <<requests, position, pc, cur, chain, active, rows, topic, outbox>>
    BY <1>5 DEF ReportFree, ReportBusy, kafka, store, memory
  <2> QED BY <2>1 DEF Orderly, RowsAreOpen, HasOpenRow, Moving, StillAnswering, EndsAreTold,
          EndIsTold, Told, OldAreOver, DoneWith
<1>6. CASE StopPolling \/ CheckStored \/ SearchFails \/ SearchOffers \/ RecordOffers
           \/ AnnounceOffers \/ HideDriver \/ KeepMatch \/ Keep \/ Rate \/ NextTick
  <2>1. UNCHANGED <<requests, position, cur, active, rows, topic, outbox>>
    BY <1>6 DEF StopPolling, CheckStored, SearchFails, SearchOffers, RecordOffers,
       AnnounceOffers, HideDriver, KeepMatch, Keep, Rate, NextTick, kafka, store, inHand
  <2>2. pc \in {"rate", "forget"} => pc' \in {"rate", "forget"}
    BY <1>6 DEF StopPolling, CheckStored, SearchFails, SearchOffers, RecordOffers,
       AnnounceOffers, HideDriver, KeepMatch, Keep, Rate, NextTick
  <2>3. pc' \notin {"write", "write_none"}
    BY <1>6 DEF StopPolling, CheckStored, SearchFails, SearchOffers, RecordOffers,
       AnnounceOffers, HideDriver, KeepMatch, Keep, Rate, NextTick
  <2>4. StillAnswering' => StillAnswering
    BY <1>6 DEF StopPolling, CheckStored, SearchFails, SearchOffers, RecordOffers,
       AnnounceOffers, HideDriver, KeepMatch, Keep, Rate, NextTick, StillAnswering, Answering
  <2> QED BY <2>1, <2>2, <2>3, <2>4, NothingTold
<1>7. CASE TellNoDriver
  <2>1. /\ UNCHANGED <<requests, position, cur, active, rows, topic, chain>>
        /\ pc = "tell_none" /\ pc' = "write_none"
        /\ Announce("no_driver_found", None, {}, "none")
    BY <1>7 DEF TellNoDriver, otherKafka, store, inHand
  <2>2. cur \in Trips /\ HasOpenRow(cur)
    BY <1>1, <1>2, <2>1 DEF Answering
  <2>3. "no_driver_found" \in Statuses /\ "none" \in Reasons
    BY DEF Statuses, Finished, Reasons
  <2> QED BY <2>1, <2>2, <2>3, SomethingTold
<1>8. CASE TellMatch
  <2>1. /\ UNCHANGED <<requests, position, cur, active, rows, topic, chain>>
        /\ pc = "tell_match" /\ pc' = "commit"
        /\ Announce("matched", Winner(chain), {}, "none")
    BY <1>8 DEF TellMatch, otherKafka, store, inHand
  <2>2. cur \in Trips /\ HasOpenRow(cur)
    BY <1>1, <1>2, <2>1 DEF Answering
  <2>3. "matched" \in Statuses /\ "none" \in Reasons /\ Winner(chain) \in Drivers \cup {None}
    BY WinnerType DEF Statuses, Stages, Reasons, TypeOK
  <2> QED BY <2>1, <2>2, <2>3, SomethingTold
<1>9. CASE Tell
  <2>1. /\ UNCHANGED <<requests, position, cur, active, rows, topic, chain>>
        /\ pc = "tell" /\ pc' = "write"
        /\ Announce(active[cur].status, active[cur].driver, active[cur].stamps,
                    ReasonFor(before, active[cur].status))
    BY <1>9 DEF Tell, otherKafka, store, inHand
  <2>2. /\ active[cur].status \in Statuses /\ active[cur].driver \in Drivers \cup {None}
        /\ active[cur].stamps \in SUBSET Milestones
        /\ ReasonFor(before, active[cur].status) \in Reasons
    BY <1>3, <2>1 DEF ActiveTrip, ReasonFor, Reasons
  <2> QED BY <1>3, <2>1, <2>2, SomethingTold
<1>10. CASE WriteNoDriver
  <2> DEFINE row == UpdateStatus(rows[cur], "no_driver_found")
  <2>1. /\ UNCHANGED <<requests, position, cur, active, topic, outbox, chain>>
        /\ pc = "write_none" /\ pc' = "commit" /\ rows' = Updated(cur, row)
    BY <1>10 DEF WriteNoDriver, kafka, inHand
  <2>2. cur \in Trips /\ HasOpenRow(cur)
    BY <1>1, <1>2, <2>1 DEF Answering
  <2>3. rows[cur] \in Row /\ "no_driver_found" \in Statuses
    BY <2>2, OpenIsNotOld DEF Orderly, Statuses, Finished
  <2>4. row \in Row /\ row.status = "no_driver_found" /\ "no_driver_found" \in Finished
    BY <2>3, RowType DEF UpdateStatus, Finished, Row
  <2>5. Latest(Told(cur)) = "no_driver_found"
    BY <2>1 DEF Orderly, EndsAreTold
  <2>6. ~StillAnswering'
    BY <2>1 DEF ChainInHand, StillAnswering, Matching
  <2> HIDE DEF row
  <2> QED BY <2>1, <2>2, <2>4, <2>5, <2>6, RowWritten
<1>11. CASE Assign
  <2> DEFINE row == [rows[cur] EXCEPT !.status = "matched", !.driver = Winner(chain)]
  <2>1. /\ UNCHANGED <<requests, position, cur, active, topic, outbox, chain>>
        /\ pc = "assign" /\ pc' = "hide" /\ rows' = Updated(cur, row)
    BY <1>11 DEF Assign, kafka, inHand
  <2>2. cur \in Trips /\ HasOpenRow(cur)
    BY <1>1, <1>2, <2>1 DEF Answering
  <2>3. rows[cur] \in Row /\ "matched" \in Statuses /\ Winner(chain) \in Drivers \cup {None}
    BY <2>2, OpenIsNotOld, WinnerType DEF Orderly, Statuses, Stages, TypeOK
  <2>4. row \in Row /\ ~row.ended
    BY <2>2, <2>3, RowType DEF HasOpenRow, Row
  <2> HIDE DEF row
  <2> QED BY <2>1, <2>2, <2>4, RowWritten
<1>12. CASE Write
  <2> DEFINE row == UpdateStatus(rows[cur], active[cur].status)
  <2>1. /\ UNCHANGED <<requests, position, active, topic, outbox, chain>> /\ pc = "write"
        /\ rows' = Updated(cur, row)
    BY <1>12 DEF Write, kafka
  <2>2. cur \in Trips /\ HasOpenRow(cur) /\ active[cur].status \in Statuses
    BY <1>3, <2>1 DEF ActiveTrip
  <2>3. rows[cur] \in Row
    BY <2>2, OpenIsNotOld DEF Orderly
  <2>4. /\ row \in Row /\ row.status = active[cur].status
        /\ row.ended => active[cur].status \in Finished
    BY <2>2, <2>3, RowType DEF UpdateStatus, Row, HasOpenRow
  <2>5. Latest(Told(cur)) = active[cur].status
    BY <2>1 DEF Orderly, EndsAreTold
  <2>6. /\ pc' \in {"rate", "forget", "move"} /\ cur' \in {cur, None}
        /\ active[cur].status \in Finished => pc' \in {"rate", "forget"}
        /\ pc' \in {"rate", "forget"} => cur' = cur
    BY <1>12, <2>2 DEF Write, Finished
  <2>7. ~StillAnswering'
    BY <2>6 DEF StillAnswering, Answering
  <2> HIDE DEF row
  <2> QED BY <2>1, <2>2, <2>4, <2>5, <2>6, <2>7, RowWritten
<1> QED
  BY <1>4, <1>5, <1>6, <1>7, <1>8, <1>9, <1>10, <1>11, <1>12, RequestOrderly, DeliverOrderly,
     PollOrderly, CommitOrderly, AdvanceOrderly, ForgetOrderly
  DEF CalmNext, Step, Surroundings, Answer, Move

-----------------------------------------------------------------------------
(* The archiver. *)

\* What dispatch has in hand is not old; nor is a child refused.
LEMMA HandIsNotOld ==
    ASSUME TypeOK, InHand, Orderly
    PROVE  /\ EndedAnew \cap old = {}
           /\ ~InsertRefused
<1>1. \A t \in old : t # cur
  BY DEF Orderly, OldAreOver, DoneWith
<1>2. Inserting => rows[cur] # NoRow
  <2>1. pc = "record" => HasOpenRow(cur)
    BY DEF Orderly, RowsAreOpen, StillAnswering, Answering
  <2>2. pc = "rate" => cur \in Moving
    BY DEF InHand, MovingOn, Moving
  <2> QED BY <2>1, <2>2 DEF Inserting, HasOpenRow, Orderly, RowsAreOpen
<1> QED BY <1>1, <1>2 DEF EndedAnew, InsertRefused

\* A trip gets old only when dispatch is done with it: a process that has not
\* read anything yet finds no ended row before it.
LEMMA AgeOrderly ==
    ASSUME TypeOK, InLine, Orderly, NEW t \in Trips, Age(t)
    PROVE  Orderly'
<1>1. /\ rows[t].ended /\ outbox[t] = <<>> /\ old' = old \cup {t} /\ UNCHANGED batch
      /\ UNCHANGED <<requests, position, pc, cur, chain, active, rows, topic, outbox>>
  BY DEF Age, archiver, vars, kafka, store, memory
<1>2. DoneWith(t)
  <2>1. CASE MayHaveBeenStopped
    <3>1. Moving = {} /\ cur = None /\ None \notin Trips
      BY <2>1, DispatchAssumption DEF MayHaveBeenStopped, InLine
    <3>2. \A i \in position + 1 .. Len(requests) : requests[i] # t
      BY <1>1 DEF Orderly, RowsAreOpen, HasOpenRow
    <3> QED BY <3>1, <3>2 DEF DoneWith
  <2> QED BY <2>1 DEF Age
<1>3. RowsAreOpen' /\ EndsAreTold'
  BY <1>1 DEF Orderly, RowsAreOpen, HasOpenRow, Moving, StillAnswering, EndsAreTold, EndIsTold, Told
<1>4. OldAreOver'
  BY <1>1, <1>2 DEF Orderly, OldAreOver, DoneWith, Moving
<1> QED BY <1>3, <1>4 DEF Orderly

\* The rows that go are of trips that are over.
LEMMA DeleteOrderly ==
    ASSUME TypeOK, InHand, InLine, Orderly, DeleteTrips
    PROVE  Orderly'
<1>1. /\ old' = old \ batch /\ batch' = {}
      /\ UNCHANGED <<requests, position, pc, cur, chain, active, topic, outbox>>
      /\ \A t \in Trips : rows'[t] = IF t \in batch THEN NoRow ELSE rows[t]
  BY DEF DeleteTrips, EndTransaction, kafka, memory
<1>2. \A t \in batch : rows[t].ended /\ DoneWith(t)
  BY DEF Orderly, OldAreOver
<1>3. \A i \in position + 1 .. Len(requests) : requests[i] \in Trips \ batch
  <2>1. \A i \in position + 1 .. Len(requests) : i \in 1..Len(requests)
    BY QueueBounds
  <2> QED BY <1>2, <2>1, QueueBounds DEF DoneWith
<1>4. cur \notin batch /\ \A t \in Moving : t \notin batch
  BY <1>2 DEF DoneWith
<1>5. RowsAreOpen'
  <2>1. StillAnswering => cur \in Trips
    BY DEF StillAnswering, InHand, Answering
  <2>2. \A i \in position + 1 .. Len(requests) :
           rows'[requests[i]] # NoRow /\ ~rows'[requests[i]].ended
    BY <1>1, <1>3 DEF Orderly, RowsAreOpen, HasOpenRow
  <2>3. StillAnswering => rows'[cur] # NoRow /\ ~rows'[cur].ended
    BY <1>1, <1>4, <2>1 DEF Orderly, RowsAreOpen, HasOpenRow
  <2>4. \A t \in Moving : rows'[t] = rows[t]
    BY <1>1, <1>4 DEF Moving
  <2> QED BY <1>1, <2>2, <2>3, <2>4 DEF Orderly, RowsAreOpen, HasOpenRow, StillAnswering, Moving
<1>6. EndsAreTold'
  <2>1. ASSUME NEW t \in Trips PROVE EndIsTold(t)'
    <3>1. EndIsTold(t) /\ Told(t)' = Told(t)
      BY <1>1 DEF Orderly, EndsAreTold, Told
    <3> QED BY <1>1, <3>1, NoRowIsNoEnd DEF EndIsTold
  <2> QED BY <1>1, <2>1 DEF Orderly, EndsAreTold, Told
<1>7. OldAreOver'
  <2>1. \A t \in old' : t \in Trips /\ t \in old /\ rows'[t] = rows[t]
    BY <1>1 DEF Orderly, OldAreOver
  <2> QED BY <1>1, <2>1 DEF Orderly, OldAreOver, DoneWith, Moving
<1> QED BY <1>5, <1>6, <1>7 DEF Orderly

LEMMA OrderlyStep ==
    ASSUME TypeOK, InHand, InLine, ChainInHand, Orderly, [ArchiveNext]_archiveVars, crashes' = crashes
    PROVE  Orderly'
<1>1. crashes \in Nat /\ crashes + 1 # crashes
  BY DispatchAssumption DEF TypeOK
<1>2. CASE DispatchStep /\ UNCHANGED archiver
  <2>1. Step /\ UNCHANGED <<old, batch>>
    BY <1>2, HandIsNotOld DEF DispatchStep, archiver
  <2> QED BY <2>1, CalmOrderly DEF CalmNext
<1>3. CASE Surroundings /\ NewIdsOnly /\ UNCHANGED <<old, archiver>>
  BY <1>3, CalmOrderly DEF CalmNext, archiver
<1>4. CASE Crash \/ ArchiverDies
  BY <1>1, <1>4 DEF Crash, ArchiverDies
<1>5. ASSUME NEW t \in Trips, Age(t) PROVE Orderly'
  BY <1>5, AgeOrderly
<1>6. CASE DeleteTrips
  BY <1>6, DeleteOrderly
<1>7. CASE StartTick \/ SelectBatch \/ DeleteRatings \/ DeleteOffers \/ DeleteRefused
           \/ UNCHANGED archiveVars
  <2>1. UNCHANGED vars /\ old' = old
    BY <1>7 DEF StartTick, SelectBatch, SelectFrom, DeleteRatings, DeleteOffers, DeleteRefused,
       archiveVars
  <2>2. batch' \subseteq old
    BY <1>7 DEF StartTick, SelectBatch, SelectFrom, DeleteRatings, DeleteOffers, DeleteRefused,
       EndTransaction, archiveVars, archiver, Orderly, OldAreOver
  <2>3. UNCHANGED <<requests, position, pc, cur, chain, active, rows, topic, outbox>>
    BY <2>1 DEF vars, kafka, store, memory
  <2>4. RowsAreOpen' /\ EndsAreTold'
    BY <2>3 DEF Orderly, RowsAreOpen, HasOpenRow, Moving, StillAnswering, EndsAreTold, EndIsTold, Told
  <2>5. OldAreOver'
    BY <2>1, <2>2, <2>3 DEF Orderly, OldAreOver, DoneWith, Moving
  <2> QED BY <2>4, <2>5 DEF Orderly
<1> QED BY <1>2, <1>3, <1>4, <1>5, <1>6, <1>7 DEF ArchiveNext, Archiver

-----------------------------------------------------------------------------
(* The theorems. *)

LEMMA ArchiveInitInductive == ArchiveInit => ArchiveInductive
<1> SUFFICES ASSUME ArchiveInit PROVE ArchiveInductive
  OBVIOUS
<1> USE DispatchAssumption, ArchiveAssumption
<1>1. PICK d \in Drivers :
         /\ rows = [t \in Trips |-> IF t \in Seeded
                      THEN [status |-> "completed", driver |-> d, ended |-> TRUE] ELSE NoRow]
         /\ offers = [t \in Trips |-> IF t \in Seeded
                        THEN <<[sequence |-> 1, driver |-> d, status |-> "accepted"]>> ELSE <<>>]
  BY DEF ArchiveInit
<1>2. InitOutside /\ rated = Seeded /\ old = Seeded /\ batch = {}
  BY DEF ArchiveInit
<1>3. /\ rows \in [Trips -> Row \cup {NoRow}]
      /\ \A t \in Trips : rows[t].ended <=> t \in Seeded
      /\ \A t \in Seeded : rows[t].status = "completed"
  BY <1>1 DEF Row, NoRow, Statuses, Finished
<1>4. offers \in [Trips -> Seq(Offer)]
  <2>1. [sequence |-> 1, driver |-> d, status |-> "accepted"] \in Offer
    BY DEF Offer
  <2>2. \A o \in Offer : <<o>> \in Seq(Offer)
    OBVIOUS
  <2>3. <<>> \in Seq(Offer)
    OBVIOUS
  <2> QED BY <1>1, <2>1, <2>2, <2>3
<1>5. TypeOK
  BY <1>2, <1>3, <1>4 DEF InitOutside, TypeOK, LiveState, ActiveTrip, Message, Steps, Statuses, Moving
<1>6. InHand
  BY <1>2 DEF InitOutside, InHand, Answering, MovingOn, Matching
<1>7. Moving = {} /\ Len(requests) = 0 /\ position = 0
  BY <1>2 DEF InitOutside, Moving
<1>8. InLine
  BY <1>2, <1>7 DEF InitOutside, InLine, AskedOnce, Answering
<1>9. ChainInHand
  BY <1>2, NoWinner DEF InitOutside, ChainInHand
<1>10. Orderly
  <2>1. RowsAreOpen
    BY <1>2, <1>7 DEF InitOutside, RowsAreOpen, StillAnswering, Answering
  <2>2. EndsAreTold
    BY <1>2, <1>3 DEF InitOutside, EndsAreTold, EndIsTold, Finished
  <2>3. OldAreOver
    BY <1>2, <1>3, <1>7 DEF InitOutside, OldAreOver, DoneWith
  <2> QED BY <2>1, <2>2, <2>3 DEF Orderly
<1> QED BY <1>5, <1>6, <1>8, <1>9, <1>10 DEF ArchiveInductive

\* Dispatch keeps its place in the queue while rows disappear under it; and as
\* long as nobody dies, what is old is over.
THEOREM ArchiveHolds == ArchiveSpec => []ArchiveInductive
<1>1. ArchiveInductive /\ [ArchiveNext]_archiveVars => ArchiveInductive'
  <2> SUFFICES ASSUME ArchiveInductive, [ArchiveNext]_archiveVars PROVE ArchiveInductive'
    OBVIOUS
  <2>1. TypeOK' /\ InHand' /\ ChainInHand'
    BY ArchiveTypeStep DEF ArchiveInductive
  <2>2. InLine'
    BY InLineStep DEF ArchiveInductive
  <2>3. ASSUME crashes' = 0 PROVE crashes = 0
    <3>1. crashes \in Nat
      BY DispatchAssumption DEF ArchiveInductive, TypeOK
    <3>2. crashes' = crashes \/ crashes' = crashes + 1
      BY DEF ArchiveNext, archiveVars, DispatchStep, InsertRefused, Surroundings, Step, Answer,
         Move, Age, Archiver, StartTick, SelectBatch, SelectFrom, DeleteRatings, DeleteOffers,
         DeleteTrips, DeleteRefused, ArchiverDies, Crash, vars, inHand, Poll, StopPolling,
         CheckStored, SearchFails, SearchOffers, RecordOffers, AnnounceOffers, TellNoDriver,
         WriteNoDriver, Assign, HideDriver, KeepMatch, TellMatch, Commit, Advance, Keep, Tell,
         Write, Rate, Forget, NextTick, Request, BecomeDue, Deliver, Expire, ReportFree, ReportBusy
    <3> QED BY <2>3, <3>1, <3>2
  <2>4. crashes' = 0 => Orderly'
    BY <2>3, OrderlyStep DEF ArchiveInductive
  <2> QED BY <2>1, <2>2, <2>4 DEF ArchiveInductive
<1> QED BY <1>1, ArchiveInitInductive, PTL DEF ArchiveSpec

\* No step of dispatch takes a row away.
LEMMA OnlyDeletesTake ==
    ASSUME TypeOK, InHand, [ArchiveNext]_archiveVars, NEW t \in Trips,
           rows[t] # NoRow, rows'[t] = NoRow
    PROVE  DeleteTrips /\ t \in batch
<1>1. CASE DeleteTrips
  BY <1>1 DEF DeleteTrips
<1>2. CASE InsertRefused \/ ArchiverDies
  BY <1>2 DEF InsertRefused, ArchiverDies, store
<1>3. ASSUME NEW row \in Row, rows' = Updated(cur, row), cur \in Trips PROVE FALSE
  BY <1>3, UpdatedType, NoRowIsNoEnd DEF TypeOK
<1>4. CASE WriteNoDriver
  <2>1. cur \in Trips /\ rows' = Updated(cur, UpdateStatus(rows[cur], "no_driver_found"))
    BY <1>4 DEF WriteNoDriver, InHand, Answering
  <2>2. UpdateStatus(rows[cur], "no_driver_found") \in Row
    BY <2>1, RowType DEF TypeOK, Statuses, Finished
  <2> QED BY <1>3, <2>1, <2>2
<1>5. CASE Assign
  <2>1. cur \in Trips
        /\ rows' = Updated(cur, [rows[cur] EXCEPT !.status = "matched", !.driver = Winner(chain)])
    BY <1>5 DEF Assign, InHand, Answering
  <2>2. [rows[cur] EXCEPT !.status = "matched", !.driver = Winner(chain)] \in Row
    BY <2>1, RowType, WinnerType DEF TypeOK, Statuses, Stages
  <2> QED BY <1>3, <2>1, <2>2
<1>6. CASE Write
  <2>1. /\ cur \in Trips /\ active[cur] \in ActiveTrip
        /\ rows' = Updated(cur, UpdateStatus(rows[cur], active[cur].status))
    BY <1>6 DEF Write, InHand, MovingOn, TypeOK
  <2>2. UpdateStatus(rows[cur], active[cur].status) \in Row
    BY <2>1, RowType DEF TypeOK, ActiveTrip
  <2> QED BY <1>3, <2>1, <2>2
<1>7. ASSUME NEW u \in Trips, Request(u) PROVE FALSE
  BY <1>7 DEF Request, TypeOK
<1>8. CASE [Next]_vars /\ ~WriteNoDriver /\ ~Assign /\ ~Write /\ ~(\E u \in Trips : Request(u))
  BY <1>8 DEF vars, store, Next, CalmNext, Step, Surroundings, Answer, Move, Crash, Poll,
     StopPolling, CheckStored, SearchFails, SearchOffers, RecordOffers, AnnounceOffers,
     TellNoDriver, HideDriver, KeepMatch, TellMatch, Commit, Advance, Keep, Tell, Rate, Forget,
     NextTick, BecomeDue, Deliver, Expire, ReportFree, ReportBusy
<1> QED BY <1>1, <1>2, <1>4, <1>5, <1>6, <1>7, <1>8, ArchiveSteps

\* As long as no process has died, a trip that is pruned is over, dispatch is
\* done with it, and the last thing the topic says of it is how it ended.
THEOREM ArchivedBeforePruned == ArchiveSpec => OnlyArchivedTripsGo
<1>1. ArchiveInductive /\ [ArchiveNext]_archiveVars
         => [\A t \in Trips :
               rows[t] # NoRow /\ rows'[t] = NoRow /\ crashes = 0
                   => /\ rows[t].status \in Finished
                      /\ DoneWith(t)
                      /\ t \in Seeded \/ Latest(topic[t]) = rows[t].status]_archiveVars
  <2> SUFFICES ASSUME ArchiveInductive, [ArchiveNext]_archiveVars, NEW t \in Trips,
                      rows[t] # NoRow, rows'[t] = NoRow, crashes = 0
               PROVE  /\ rows[t].status \in Finished
                      /\ DoneWith(t)
                      /\ t \in Seeded \/ Latest(topic[t]) = rows[t].status
    OBVIOUS
  <2>1. t \in batch
    BY OnlyDeletesTake DEF ArchiveInductive
  <2>2. rows[t].ended /\ outbox[t] = <<>> /\ DoneWith(t) /\ EndIsTold(t)
    BY <2>1 DEF ArchiveInductive, Orderly, OldAreOver, EndsAreTold
  <2>3. Told(t) = topic[t]
    BY <2>2, ConcatEmptySeq DEF Told, ArchiveInductive, TypeOK
  <2> QED BY <2>2, <2>3 DEF EndIsTold
<1> QED BY <1>1, ArchiveHolds, PTL DEF ArchiveSpec, OnlyArchivedTripsGo
=============================================================================
