-------------------------- MODULE CityDemandProofs --------------------------
(***************************************************************************)
(* Theorems about CityDemand, for any zones, trips, pickups, messages and  *)
(* faults, and any finite fleet: what the scores count is what the last    *)
(* messages said, and what the traffic table and its history hold.         *)
(***************************************************************************)
EXTENDS CityDemand, SequenceTheorems, FiniteSetTheorems, TLAPS

-----------------------------------------------------------------------------
(* The inductive invariant: what is in the topics and how far it was read, *)
News == [zone : Zones, status : Statuses \cup Moods]

Streams ==
    /\ \A k \in Keys : saved[k] <= Len(news[k]) /\ read[k] <= Len(news[k])
    /\ \A t \in Trips : \A i, j \in 1..Len(news[t]) : news[t][i].zone = news[t][j].zone
    /\ \A t \in Trips : \A i \in 1..Len(news[t]) : news[t][i].status \in Waiting \cup NotWaiting

\* the zone in hand is not one that is still to be written.
ZoneInHand == \A z \in Zones : pc = z => z \notin left

-----------------------------------------------------------------------------
(* Types. *)

\* No zone has the name of another step of the tick.
LEMMA ZonesAreNoSteps ==
    \A z \in Zones : z \notin {"read", "publish", "commit", "traffic", "update"}
  BY CityAssumption

LEMMA KeysApart == \A t \in Trips : t \notin Drivers /\ t \in Keys
  BY CityAssumption DEF Keys

\* Only what is around the process sends, and what was sent stays.
LEMMA Sending ==
    ASSUME TypeOK, (\E t \in Trips : TellTrip(t)) \/ (\E d \in Drivers : Report(d))
    PROVE  /\ UNCHANGED <<saved, written, read, picture, speeds, pc, left, clocks, faults>>
           /\ \E k \in Keys, m \in News :
                 /\ news' = [news EXCEPT ![k] = Append(news[k], m)]
                 /\ k \in Trips => m.status \in Waiting \cup NotWaiting
                 /\ k \in Trips /\ news[k] # <<>> => m.zone = news[k][1].zone
  <1>1. ASSUME NEW t \in Trips, TellTrip(t)
        PROVE  \E m \in News :
                 /\ news' = [news EXCEPT ![t] = Append(news[t], m)]
                 /\ m.status \in Waiting \cup NotWaiting
                 /\ news[t] # <<>> => m.zone = news[t][1].zone
    <2>1. PICK s \in NextNews(t), z \in Pickups :
            /\ news[t] # <<>> => z = news[t][1].zone
            /\ news' = [news EXCEPT ![t] = Append(@, [zone |-> z, status |-> s])]
      BY <1>1 DEF TellTrip
    <2>2. s \in (Waiting \cup NotWaiting) \cap Statuses
      BY DEF NextNews, NextStatuses, Waiting, NotWaiting, Statuses, Stages, Finished
    <2>3. [zone |-> z, status |-> s] \in News
      BY <2>2, CityAssumption DEF News
    <2> QED BY <2>1, <2>2, <2>3
  <1>2. ASSUME NEW d \in Drivers, Report(d)
        PROVE  \E m \in News : news' = [news EXCEPT ![d] = Append(news[d], m)]
    <2>1. PICK z \in Zones, m \in Moods :
            news' = [news EXCEPT ![d] = Append(@, [zone |-> z, status |-> m])]
      BY <1>2 DEF Report
    <2>2. [zone |-> z, status |-> m] \in News
      BY DEF News
    <2> QED BY <2>1, <2>2
  <1>3. UNCHANGED <<saved, written, read, picture, speeds, pc, left, clocks, faults>>
    BY DEF TellTrip, Report
  <1>4. CASE \E t \in Trips : TellTrip(t)
    BY <1>1, <1>3, <1>4, KeysApart
  <1>5. CASE \E d \in Drivers : Report(d)
    <2>1. PICK d \in Drivers : Report(d)
      BY <1>5
    <2>2. d \in Keys /\ d \notin Trips
      BY CityAssumption DEF Keys
    <2> QED BY <1>2, <1>3, <2>1, <2>2
  <1> QED BY <1>4, <1>5

\* What a sent message changes in its stream.
LEMMA Sent ==
    ASSUME TypeOK, NEW k \in Keys, NEW m \in News, news' = [news EXCEPT ![k] = Append(news[k], m)]
    PROVE  /\ news' \in [Keys -> Seq(News)]
           /\ \A j \in Keys \ {k} : news'[j] = news[j]
           /\ Len(news'[k]) = Len(news[k]) + 1 /\ news'[k][Len(news[k]) + 1] = m
           /\ \A i \in 1..Len(news[k]) : news'[k][i] = news[k][i]
           /\ \A j \in Keys : Len(news[j]) \in Nat
  <1>1. news \in [Keys -> Seq(News)] /\ news[k] \in Seq(News)
    BY DEF TypeOK, News
  <1>2. /\ Append(news[k], m) \in Seq(News) /\ Len(Append(news[k], m)) = Len(news[k]) + 1
        /\ \A i \in 1..Len(news[k]) : Append(news[k], m)[i] = news[k][i]
        /\ Append(news[k], m)[Len(news[k]) + 1] = m
    BY <1>1, AppendProperties
  <1>3. \A j \in Keys : Len(news[j]) \in Nat
    BY <1>1, LenProperties
  <1> QED BY <1>1, <1>2, <1>3

\* The message the consumer reads next.
LEMMA NextMessage ==
    ASSUME TypeOK, NEW k \in Keys, Read(k) \/ SkipNews(k)
    PROVE  /\ read[k] \in Nat /\ Len(news[k]) \in Nat /\ read[k] + 1 \in 1..Len(news[k])
           /\ news[k][read[k] + 1] \in News
           /\ read'[k] = read[k] + 1 /\ \A j \in Keys \ {k} : read'[j] = read[j]
           /\ read' \in [Keys -> Nat]
  <1>1. news[k] \in Seq(News) /\ read \in [Keys -> Nat] /\ read[k] \in Nat
    BY DEF TypeOK, News
  <1>2. Len(news[k]) \in Nat /\ DOMAIN news[k] = 1..Len(news[k])
    BY <1>1, LenProperties
  <1>3. read[k] + 1 \in 1..Len(news[k]) /\ read' = [read EXCEPT ![k] = read[k] + 1]
    BY <1>1, <1>2 DEF Read, SkipNews
  <1>4. news[k][read[k] + 1] \in News
    BY <1>1, <1>3, ElementOfSeq
  <1> QED BY <1>1, <1>2, <1>3, <1>4

\* What the proofs about counts need of TypeOK.
LEMMA KindsOfCounts ==
    ASSUME TypeOK
    PROVE  /\ stored \in [Zones -> Nat] /\ announced \in [Zones -> Nat] /\ speeds \in [Zones -> Nat]
           /\ left \subseteq {z \in Zones : speeds[z] > 0}
           /\ \A z \in Zones : stored[z] \in Nat /\ announced[z] \in Nat /\ speeds[z] \in Nat
  BY DEF TypeOK

LEMMA TypeInit == Init => TypeOK /\ ZoneInHand
  <1> SUFFICES ASSUME Init PROVE TypeOK /\ ZoneInHand
    OBVIOUS
  <1>1. news \in [Keys -> Seq(News)]
    BY EmptySeq DEF Init
  <1>2. /\ saved \in [Keys -> Nat] /\ read \in [Keys -> Nat]
        /\ stored \in [Zones -> Nat] /\ announced \in [Zones -> Nat] /\ speeds \in [Zones -> Nat]
    BY DEF Init
  <1>3. /\ shown \in [Zones -> SUBSET Trips] /\ riders \in [Zones -> SUBSET Trips]
        /\ waiting \in [Trips -> Zones \cup {None}] /\ free \in [Zones -> SUBSET Drivers]
    BY DEF Init
  <1>4. pc = "read" /\ left = {} /\ faults \in 0..MaxFaults
    BY CityAssumption DEF Init
  <1>5. scoreDue \in BOOLEAN /\ trafficDue \in BOOLEAN /\ rested \in BOOLEAN
    BY Zenon DEF Init
  <1>6. TypeOK
    <2>1. skipped = {}
      BY DEF Init
    <2> QED BY <1>1, <1>2, <1>3, <1>4, <1>5, <2>1 DEF TypeOK, News
  <1> QED BY <1>4, <1>6 DEF ZoneInHand

\* A zone's speeds are forgotten once it is written, and only while reading
\* are there more.
LEMMA TypeStep == TypeOK /\ ZoneInHand /\ [Next]_vars => TypeOK' /\ ZoneInHand'
  <1> SUFFICES ASSUME TypeOK, ZoneInHand, [Next]_vars PROVE TypeOK' /\ ZoneInHand'
    OBVIOUS
  <1> USE ZonesAreNoSteps
  <1>1. CASE (\E t \in Trips : TellTrip(t)) \/ (\E d \in Drivers : Report(d))
    <2>1. /\ UNCHANGED <<saved, written, read, picture, speeds, pc, left, clocks, faults>>
          /\ news' \in [Keys -> Seq(News)]
      BY <1>1, Sending, Sent
    <2> QED BY <2>1 DEF TypeOK, News, ZoneInHand, written, picture, clocks
  <1>s. ASSUME NEW k \in Keys, SkipNews(k) PROVE TypeOK' /\ ZoneInHand'
    <2>1. /\ skipped' = skipped \cup {<<k, read[k] + 1>>}
          /\ UNCHANGED <<streams, written, riders, waiting, free, speeds, pc, left, clocks, faults>>
      BY <1>s DEF SkipNews
    <2>r. read' \in [Keys -> Nat] /\ read[k] \in Nat /\ read[k] + 1 \in Nat \ {0}
      <3>1. read' \in [Keys -> Nat] /\ read[k] \in Nat
        BY <1>s, NextMessage
      <3> QED BY <3>1
    <2>2. skipped' \subseteq Keys \X (Nat \ {0})
      BY <2>1, <2>r DEF TypeOK
    <2> QED BY <2>1, <2>r, <2>2 DEF TypeOK, ZoneInHand, streams, written, clocks
  <1>2. ASSUME NEW k \in Keys, Read(k) PROVE TypeOK' /\ ZoneInHand'
    <2> DEFINE m == news[k][read[k] + 1]
    <2>1. /\ m \in News /\ read' \in [Keys -> Nat] /\ pc = "read"
          /\ UNCHANGED <<streams, written, pc, left, clocks, faults>>
          /\ IF k \in Drivers THEN NoteDriver(k, m) ELSE NoteTrip(k, m)
      BY <1>2, NextMessage DEF Read
    <2>2. /\ m.zone \in Zones /\ k \notin Drivers => k \in Trips
          /\ skipped' \subseteq Keys \X (Nat \ {0})
      BY <1>2, <2>1 DEF News, Keys, Read, TypeOK
    <2> HIDE DEF m
    <2>3. CASE k \in Drivers
      <3>1. /\ free' \in [Zones -> SUBSET Drivers] /\ UNCHANGED <<riders, waiting>>
        <4>1. /\ free' = [free EXCEPT ![m.zone] = IF m.status = "idle" THEN free[m.zone] \cup {k}
                                                 ELSE free[m.zone] \ {k}]
              /\ UNCHANGED <<riders, waiting>>
          BY <2>1, <2>3 DEF NoteDriver
        <4>2. free \in [Zones -> SUBSET Drivers] /\ m.zone \in Zones
          BY <2>1 DEF TypeOK, News
        <4>3. /\ free[m.zone] \cup {k} \in SUBSET Drivers
              /\ free[m.zone] \ {k} \in SUBSET Drivers
          BY <2>3, <4>2
        <4> QED BY <4>1, <4>2, <4>3
      <3>2. PICK n \in {0, 1} : speeds' = [speeds EXCEPT ![m.zone] = @ + n]
        BY <2>1, <2>3 DEF NoteDriver
      <3>3. speeds' \in [Zones -> Nat] /\ \A z \in Zones : speeds[z] > 0 => speeds'[z] > 0
        BY <2>1, <3>2 DEF News, TypeOK
      <3> QED BY <2>1, <2>2, <3>1, <3>3 DEF TypeOK, ZoneInHand, streams, written, clocks
    <2>4. CASE k \notin Drivers
      <3>1. UNCHANGED <<free, speeds>> /\ k \in Trips /\ m.zone \in Zones
        BY <2>1, <2>4 DEF NoteTrip, News, Keys
      <3>2. riders' \in [Zones -> SUBSET Trips] /\ waiting' \in [Trips -> Zones \cup {None}]
        <4>1. riders \in [Zones -> SUBSET Trips] /\ waiting \in [Trips -> Zones \cup {None}]
          BY DEF TypeOK
        <4>2. NoteTrip(k, m)
          BY <2>1, <2>4
        <4>3. CASE m.status \in Waiting
          <5>1. /\ riders' = [riders EXCEPT ![m.zone] = riders[m.zone] \cup {k}]
                /\ waiting' = [waiting EXCEPT ![k] = m.zone]
            BY <4>2, <4>3 DEF NoteTrip
          <5>2. riders[m.zone] \cup {k} \in SUBSET Trips
            BY <3>1, <4>1
          <5> QED BY <3>1, <4>1, <5>1, <5>2
        <4>4. CASE m.status \in NotWaiting /\ m.status \notin Waiting
          <5> DEFINE previous == IF waiting[k] = None THEN m.zone ELSE waiting[k]
          <5>1. /\ riders' = [riders EXCEPT ![previous] = riders[previous] \ {k}]
                /\ waiting' = [waiting EXCEPT ![k] = None]
            BY <4>2, <4>4 DEF NoteTrip
          <5>2. previous \in Zones
            BY <3>1, <4>1
          <5> HIDE DEF previous
          <5>3. riders[previous] \ {k} \in SUBSET Trips
            BY <4>1, <5>2
          <5> QED BY <3>1, <4>1, <5>1, <5>2, <5>3
        <4>5. CASE m.status \notin Waiting /\ m.status \notin NotWaiting
          BY <4>1, <4>2, <4>5 DEF NoteTrip
        <4> QED BY <4>3, <4>4, <4>5
      <3> QED BY <2>1, <2>2, <3>1, <3>2 DEF TypeOK, ZoneInHand, streams, written, clocks
    <2> QED BY <2>3, <2>4
  <1>3. CASE StopReading \/ Commit \/ ScoreComesDue \/ TrafficComesDue \/ LookAtTraffic
    BY <1>3 DEF StopReading, Commit, ScoreComesDue, TrafficComesDue, LookAtTraffic,
       TypeOK, ZoneInHand, streams, written, picture, clocks
  <1>4. CASE Publish \/ TrafficDone \/ TickFails
    BY <1>4 DEF Publish, TrafficDone, TickFails,
       TypeOK, ZoneInHand, streams, written, picture, clocks
  <1>5. ASSUME NEW z \in Zones, StoreZone(z) PROVE TypeOK' /\ ZoneInHand'
    <2>1. stored' \in [Zones -> Nat] /\ left' \subseteq {y \in Zones : speeds'[y] > 0}
      BY <1>5, KindsOfCounts DEF StoreZone
    <2>2. ZoneInHand'
      BY <1>5 DEF StoreZone, ZoneInHand
    <2> QED BY <1>5, <2>1, <2>2 DEF StoreZone, TypeOK, streams, picture, clocks
  <1>6. ASSUME NEW z \in Zones, AnnounceZone(z) PROVE TypeOK' /\ ZoneInHand'
    <2>1. announced' \in [Zones -> Nat] /\ speeds' \in [Zones -> Nat]
      BY <1>6, KindsOfCounts DEF AnnounceZone
    <2>2. left' \subseteq {y \in Zones : speeds'[y] > 0}
      BY <1>6, KindsOfCounts DEF AnnounceZone, ZoneInHand
    <2>3. ZoneInHand'
      BY <1>6 DEF AnnounceZone, ZoneInHand
    <2> QED BY <1>6, <2>1, <2>2, <2>3 DEF AnnounceZone, TypeOK, streams, picture, clocks
  <1>7. ASSUME NEW z \in Zones, ZoneTimesOut(z) PROVE TypeOK' /\ ZoneInHand'
    BY <1>7 DEF ZoneTimesOut, TypeOK, ZoneInHand, streams, picture, clocks, written
  <1>8. ASSUME NEW z \in Zones, ZoneLosesAnswer(z) PROVE TypeOK' /\ ZoneInHand'
    <2>1. faults' \in 0..MaxFaults
      BY <1>8, CityAssumption DEF ZoneLosesAnswer, TypeOK
    <2>2. /\ stored' \in [Zones -> Nat] /\ speeds' \in [Zones -> Nat]
          /\ left' \subseteq {y \in Zones : speeds'[y] > 0}
      BY <1>8, KindsOfCounts DEF ZoneLosesAnswer
    <2>3. ZoneInHand' /\ pc' \in {"read", "update"}
      BY <1>8 DEF ZoneLosesAnswer, ZoneInHand
    <2> QED BY <1>8, <2>1, <2>2, <2>3 DEF ZoneLosesAnswer, TypeOK, streams, picture, clocks
  <1>a. ASSUME NEW z \in Zones, AnnounceFails(z) \/ AnnouncementLost(z) PROVE TypeOK' /\ ZoneInHand'
    <2>1. faults' \in 0..MaxFaults
      BY <1>a, CityAssumption DEF AnnounceFails, AnnouncementLost, TypeOK
    <2>2. speeds' \in [Zones -> Nat] /\ left' \subseteq {y \in Zones : speeds'[y] > 0}
      <3>1. CASE AnnounceFails(z)
        BY <3>1, KindsOfCounts DEF AnnounceFails
      <3>2. CASE AnnouncementLost(z)
        BY <3>2, KindsOfCounts DEF AnnouncementLost, ZoneInHand
      <3> QED BY <1>a, <3>1, <3>2
    <2>3. ZoneInHand' /\ pc' \in {"read", "update"}
      BY <1>a DEF AnnounceFails, AnnouncementLost, ZoneInHand
    <2> QED BY <1>a, <2>1, <2>2, <2>3
        DEF AnnounceFails, AnnouncementLost, TypeOK, streams, written, picture, clocks
  <1>9. CASE Crash
    <2>1. faults' \in 0..MaxFaults
      BY <1>9, CityAssumption DEF Crash, TypeOK
    <2> QED BY <1>9, <2>1 DEF Crash, TypeOK, ZoneInHand, streams, written
  <1>10. CASE UNCHANGED vars
    BY <1>10 DEF vars, TypeOK, ZoneInHand, streams, written, picture, clocks
  <1> QED
    BY <1>s, <1>1, <1>2, <1>3, <1>4, <1>5, <1>6, <1>7, <1>8, <1>a, <1>9, <1>10
    DEF Next, Step, Surroundings

-----------------------------------------------------------------------------
(* What is in the topics, and how far it was read. *)

\* The steps that neither send, read nor commit.
LEMMA StreamsKept ==
    ASSUME Streams, UNCHANGED <<news, saved, read>> PROVE Streams'
  BY DEF Streams

\* A trip's messages name one zone, its pickup's.
LEMMA StreamsStep == TypeOK /\ Streams /\ [Next]_vars => Streams'
  <1> SUFFICES ASSUME TypeOK, Streams, [Next]_vars PROVE Streams'
    OBVIOUS
  <1>1. CASE (\E t \in Trips : TellTrip(t)) \/ (\E d \in Drivers : Report(d))
    <2>1. PICK k \in Keys, m \in News :
            /\ news' = [news EXCEPT ![k] = Append(news[k], m)]
            /\ k \in Trips => m.status \in Waiting \cup NotWaiting
            /\ k \in Trips /\ news[k] # <<>> => m.zone = news[k][1].zone
      BY <1>1, Sending
    <2>2. saved' = saved /\ read' = read /\ saved \in [Keys -> Nat] /\ read \in [Keys -> Nat]
      BY <1>1, Sending DEF TypeOK
    <2>3. /\ \A j \in Keys \ {k} : news'[j] = news[j]
          /\ Len(news'[k]) = Len(news[k]) + 1 /\ news'[k][Len(news[k]) + 1] = m
          /\ \A i \in 1..Len(news[k]) : news'[k][i] = news[k][i]
          /\ \A j \in Keys : Len(news[j]) \in Nat
      BY <2>1, Sent
    <2>4. ASSUME NEW j \in Keys PROVE saved'[j] <= Len(news'[j]) /\ read'[j] <= Len(news'[j])
      <3>1. saved[j] <= Len(news[j]) /\ read[j] <= Len(news[j]) /\ saved[j] \in Nat /\ read[j] \in Nat
        BY <2>2 DEF Streams
      <3>2. Len(news'[j]) = Len(news[j]) \/ Len(news'[j]) = Len(news[j]) + 1
        BY <2>3
      <3> QED BY <2>2, <2>3, <3>1, <3>2
    <2>5. ASSUME NEW t \in Trips, NEW i \in 1..Len(news'[t])
          PROVE  /\ news'[t][i].status \in Waiting \cup NotWaiting
                 /\ news'[t][i].zone = news'[t][1].zone
      <3>1. t \in Keys /\ Len(news[t]) \in Nat /\ news[t] \in Seq(News)
        BY <2>3, KeysApart DEF TypeOK, News
      <3>2. CASE t # k
        BY <2>3, <3>1, <3>2 DEF Streams
      <3>3. CASE t = k /\ i <= Len(news[k])
        <4>1. i \in 1..Len(news[k]) /\ 1 \in 1..Len(news[k])
          BY <3>1, <3>3
        <4>2. news'[t][i] = news[t][i] /\ news'[t][1] = news[t][1]
          BY <2>3, <3>3, <4>1
        <4> QED BY <3>3, <4>1, <4>2 DEF Streams
      <3>4. CASE t = k /\ i > Len(news[k])
        <4>1. i = Len(news[k]) + 1 /\ news'[t][i] = m
          BY <2>3, <3>1, <3>4
        <4>2. m.status \in Waiting \cup NotWaiting
          BY <2>1, <3>4
        <4>3. CASE Len(news[k]) = 0
          BY <4>1, <4>2, <4>3
        <4>4. CASE Len(news[k]) > 0
          <5>1. news[k] # <<>> /\ 1 \in 1..Len(news[k])
            BY <3>1, <3>4, <4>4
          <5>2. news'[k][1] = news[k][1] /\ m.zone = news[k][1].zone
            BY <2>1, <2>3, <3>4, <5>1
          <5> QED BY <3>4, <4>1, <4>2, <5>2
        <4> QED BY <3>1, <3>4, <4>3, <4>4
      <3> QED BY <3>1, <3>2, <3>3, <3>4
    <2> QED BY <2>4, <2>5 DEF Streams
  <1>2. ASSUME NEW k \in Keys, Read(k) \/ SkipNews(k) PROVE Streams'
    <2>1. UNCHANGED <<news, saved>>
      BY <1>2 DEF Read, SkipNews, streams
    <2>2. \A j \in Keys : read'[j] <= Len(news[j])
      BY <1>2, NextMessage DEF Streams
    <2> QED BY <2>1, <2>2 DEF Streams
  <1>3. CASE Commit \/ Crash
    BY <1>3 DEF Commit, Crash, Streams, streams, written
  <1>4. CASE ScoreComesDue \/ TrafficComesDue
    BY <1>4, StreamsKept DEF ScoreComesDue, TrafficComesDue, streams
  <1>5. CASE StopReading \/ Publish \/ LookAtTraffic \/ TrafficDone \/ TickFails
    BY <1>5, StreamsKept DEF StopReading, Publish, LookAtTraffic, TrafficDone, TickFails, streams
  <1>6. CASE \E z \in Zones : \/ StoreZone(z) \/ ZoneTimesOut(z) \/ ZoneLosesAnswer(z)
                            \/ AnnounceZone(z) \/ AnnounceFails(z) \/ AnnouncementLost(z)
    BY <1>6, StreamsKept
    DEF StoreZone, ZoneTimesOut, ZoneLosesAnswer, AnnounceZone, AnnounceFails, AnnouncementLost, streams
  <1>7. CASE UNCHANGED vars
    BY <1>7, StreamsKept DEF vars, streams
  <1> QED BY <1>1, <1>2, <1>3, <1>4, <1>5, <1>6, <1>7 DEF Next, Step, Surroundings

-----------------------------------------------------------------------------
(* The picture of the demand. *)

\* What was read stays what it was, whatever is sent.
LEMMA ReadStays ==
    ASSUME TypeOK, Streams, (\E t \in Trips : TellTrip(t)) \/ (\E d \in Drivers : Report(d))
    PROVE  /\ UNCHANGED <<riders, waiting, free, skipped, read, faults>>
           /\ \A k \in Keys : \A i \in 1..read[k] : news'[k][i] = news[k][i]
  <1>1. PICK k \in Keys, m \in News : news' = [news EXCEPT ![k] = Append(news[k], m)]
    BY Sending
  <1>2. UNCHANGED <<riders, waiting, free, skipped, read, faults>>
    BY Sending DEF picture
  <1>3. /\ \A j \in Keys \ {k} : news'[j] = news[j]
        /\ \A i \in 1..Len(news[k]) : news'[k][i] = news[k][i]
        /\ Len(news[k]) \in Nat
    BY <1>1, Sent
  <1>4. read[k] <= Len(news[k]) /\ read[k] \in Nat
    BY DEF Streams, TypeOK
  <1>5. \A i \in 1..read[k] : i \in 1..Len(news[k])
    BY <1>3, <1>4
  <1> QED BY <1>2, <1>3, <1>5

\* The steps that touch neither the picture nor what was read.
Looking ==
    UNCHANGED <<news, read, riders, waiting, free, skipped>> /\ (faults' = 0 => faults = 0)

LEMMA OthersLook ==
    ASSUME TypeOK, [Next]_vars
    PROVE  \/ (\E t \in Trips : TellTrip(t)) \/ (\E d \in Drivers : Report(d))
           \/ (\E k \in Keys : Read(k)) \/ (\E k \in Keys : SkipNews(k))
           \/ Crash
           \/ Looking
  <1>1. CASE ScoreComesDue \/ TrafficComesDue \/ StopReading \/ Publish \/ Commit
    BY <1>1 DEF ScoreComesDue, TrafficComesDue, StopReading, Publish, Commit, Looking,
       streams, picture
  <1>2. CASE LookAtTraffic \/ TrafficDone \/ TickFails \/ UNCHANGED vars
    BY <1>2 DEF LookAtTraffic, TrafficDone, TickFails, vars, Looking, streams, picture
  <1>3. CASE \E z \in Zones : StoreZone(z) \/ AnnounceZone(z) \/ ZoneTimesOut(z)
    BY <1>3 DEF StoreZone, AnnounceZone, ZoneTimesOut, Looking, streams, picture
  <1>4. ASSUME NEW z \in Zones, ZoneLosesAnswer(z) \/ AnnounceFails(z) \/ AnnouncementLost(z)
        PROVE  Looking
    <2>1. faults \in Nat
      BY CityAssumption DEF TypeOK
    <2> QED BY <1>4, <2>1
        DEF ZoneLosesAnswer, AnnounceFails, AnnouncementLost, Looking, streams, picture
  <1> QED BY <1>1, <1>2, <1>3, <1>4 DEF Next, Step, Surroundings

\* What was heard last of each key, after a message was noted or skipped.
LEMMA HeardAfterRead ==
    ASSUME TypeOK, NEW k \in Keys, Read(k)
    PROVE  /\ \A i : HeardLast(k, i)' <=> i = read[k] + 1
           /\ \A j \in Keys \ {k} : \A i : HeardLast(j, i)' <=> HeardLast(j, i)
  <1> DEFINE n == read[k] + 1
  <1>1. /\ read[k] \in Nat /\ read'[k] = n /\ \A j \in Keys \ {k} : read'[j] = read[j]
        /\ skipped' = skipped \ {<<k, n>>}
    BY NextMessage DEF Read
  <1>2. n \in 1..n /\ \A j \in 1..n : ~(j > n) /\ \A i \in 1..n : i = n \/ n > i
    BY <1>1
  <1>3. \A i : HeardLast(k, i)' <=> /\ i \in 1..n /\ <<k, i>> \notin skipped'
                                    /\ \A j \in 1..n : j > i => <<k, j>> \in skipped'
    BY <1>1 DEF HeardLast
  <1>4. <<k, n>> \notin skipped'
    BY <1>1
  <1> HIDE DEF n
  <1>5. \A i : HeardLast(k, i)' <=> i = n
    BY <1>2, <1>3, <1>4
  <1>6. \A j \in Keys \ {k} : \A i : <<j, i>> \in skipped' <=> <<j, i>> \in skipped
    BY <1>1
  <1> QED BY <1>1, <1>5, <1>6 DEF HeardLast, n

LEMMA HeardAfterSkip ==
    ASSUME TypeOK, NEW k \in Keys, SkipNews(k)
    PROVE  \A j \in Keys : \A i : HeardLast(j, i)' <=> HeardLast(j, i)
  <1> DEFINE n == read[k] + 1
  <1>1. /\ read[k] \in Nat /\ read'[k] = n /\ \A j \in Keys \ {k} : read'[j] = read[j]
        /\ skipped' = skipped \cup {<<k, n>>}
    BY NextMessage DEF SkipNews
  <1>2. /\ \A i \in 1..n : i \in 1..read[k] \/ i = n
        /\ \A i \in 1..read[k] : i \in 1..n /\ i # n
    BY <1>1
  <1>3. \A i : i \in 1..read'[k] /\ <<k, i>> \notin skipped'
                 <=> i \in 1..read[k] /\ <<k, i>> \notin skipped
    BY <1>1, <1>2
  <1>4. \A i \in 1..read[k] :
          (\A j \in 1..n : j > i => <<k, j>> \in skipped')
             <=> (\A j \in 1..read[k] : j > i => <<k, j>> \in skipped)
    BY <1>1, <1>2
  <1>5. \A i : HeardLast(k, i)' <=> HeardLast(k, i)
    BY <1>1, <1>3, <1>4 DEF HeardLast
  <1>6. \A j \in Keys \ {k} : \A i : <<j, i>> \in skipped' <=> <<j, i>> \in skipped
    BY <1>1
  <1> QED BY <1>1, <1>5, <1>6 DEF HeardLast

\* The steps that change nothing of what was heard and of who is counted.
LEMMA WaitersKept ==
    ASSUME WaitersAreCounted, UNCHANGED <<riders, waiting>>, faults' = 0 => faults = 0,
           \A t \in Trips : \A i : HeardLast(t, i)' <=> HeardLast(t, i),
           \A t \in Trips : \A i \in 1..read[t] : i \in 1..read'[t] /\ news'[t][i] = news[t][i]
    PROVE  WaitersAreCounted'
  <1>1. ASSUME NEW t \in Trips, NEW z \in Zones, t \in riders'[z]
        PROVE  /\ waiting'[t] = z
               /\ \E i \in 1..read'[t] : /\ HeardLast(t, i)'
                                        /\ news'[t][i].zone = z /\ news'[t][i].status \in Waiting
    BY <1>1 DEF WaitersAreCounted
  <1>2. ASSUME NEW t \in Trips, NEW i, HeardLast(t, i)', news'[t][i].status \in Waiting, faults' = 0
        PROVE  t \in riders'[news'[t][i].zone]
    <2>1. HeardLast(t, i) /\ i \in 1..read[t]
      BY <1>2 DEF HeardLast
    <2> QED BY <1>2, <2>1 DEF WaitersAreCounted
  <1> QED BY <1>1, <1>2 DEF WaitersAreCounted

\* A trip never changes its zone, and the message that ends its waiting finds
\* it where the one before put it.
LEMMA WaitersStep ==
    TypeOK /\ Streams /\ WaitersAreCounted /\ [Next]_vars => WaitersAreCounted'
  <1> SUFFICES ASSUME TypeOK, Streams, WaitersAreCounted, [Next]_vars PROVE WaitersAreCounted'
    OBVIOUS
  <1>t. /\ read \in [Keys -> Nat] /\ riders \in [Zones -> SUBSET Trips]
        /\ waiting \in [Trips -> Zones \cup {None}] /\ None \notin Zones
        /\ \A t \in Trips : t \in Keys
    BY CityAssumption, KeysApart DEF TypeOK
  <1>1. CASE (\E t \in Trips : TellTrip(t)) \/ (\E d \in Drivers : Report(d))
    <2>1. /\ UNCHANGED <<riders, waiting, skipped, read, faults>>
          /\ \A k \in Keys : \A i \in 1..read[k] : news'[k][i] = news[k][i]
      BY <1>1, ReadStays
    <2>2. \A t \in Trips : \A i : HeardLast(t, i)' <=> HeardLast(t, i)
      BY <2>1 DEF HeardLast
    <2> QED BY <1>t, <2>1, <2>2, WaitersKept
  <1>s. ASSUME NEW k \in Keys, SkipNews(k) PROVE WaitersAreCounted'
    <2>1. /\ read[k] \in Nat /\ read'[k] = read[k] + 1 /\ \A j \in Keys \ {k} : read'[j] = read[j]
          /\ UNCHANGED <<news, riders, waiting, faults>>
      BY <1>s, NextMessage DEF SkipNews, streams
    <2>2. \A t \in Trips : \A i \in 1..read[t] : i \in 1..read'[t]
      BY <1>t, <2>1
    <2> QED BY <1>s, <1>t, <2>1, <2>2, HeardAfterSkip, WaitersKept
  <1>2. ASSUME NEW k \in Keys, Read(k) PROVE WaitersAreCounted'
    <2> DEFINE n == read[k] + 1
               m == news[k][n]
    <2>1. /\ m \in News /\ read[k] \in Nat /\ Len(news[k]) \in Nat /\ n \in 1..Len(news[k])
          /\ read'[k] = n /\ \A j \in Keys \ {k} : read'[j] = read[j]
          /\ news' = news /\ faults' = faults
          /\ IF k \in Drivers THEN NoteDriver(k, m) ELSE NoteTrip(k, m)
      BY <1>2, NextMessage DEF Read, streams
    <2>h. /\ \A i : HeardLast(k, i)' <=> i = n
          /\ \A j \in Keys \ {k} : \A i : HeardLast(j, i)' <=> HeardLast(j, i)
      BY <1>2, HeardAfterRead
    <2>2. CASE k \in Drivers
      <3>1. k \notin Trips /\ UNCHANGED <<riders, waiting>>
        BY <2>1, <2>2, CityAssumption DEF NoteDriver
      <3>2. \A t \in Trips : t \in Keys \ {k} /\ read'[t] = read[t]
        BY <1>t, <2>1, <3>1
      <3> QED BY <2>1, <2>h, <3>1, <3>2, WaitersKept
    <2>3. CASE k \notin Drivers
      <3>1. k \in Trips /\ m.zone \in Zones /\ m.status \in Waiting \cup NotWaiting
            /\ \A i \in 1..Len(news[k]) : news[k][i].zone = m.zone
        BY <2>1, <2>3 DEF Keys, News, Streams
      <3>2. NoteTrip(k, m) /\ news'[k][n] = m /\ n \in 1..read'[k]
        BY <2>1, <2>3
      <3>3. \A z \in Zones : k \in riders[z] => waiting[k] = z /\ z = m.zone
        <4>1. ASSUME NEW z \in Zones, k \in riders[z] PROVE waiting[k] = z /\ z = m.zone
          <5>1. PICK i \in 1..read[k] : waiting[k] = z /\ news[k][i].zone = z
            BY <3>1, <4>1 DEF WaitersAreCounted
          <5>2. i \in 1..Len(news[k])
            BY <2>1, <5>1
          <5> QED BY <3>1, <5>1, <5>2
        <4> QED BY <4>1
      <3> HIDE DEF m, n
      \* The other trips.
      <3>4. ASSUME NEW t \in Trips, t # k
            PROVE  /\ read'[t] = read[t] /\ \A i : HeardLast(t, i)' <=> HeardLast(t, i)
                   /\ news'[t] = news[t]
        BY <1>t, <2>1, <2>h, <3>4
      <3>5. ASSUME NEW t \in Trips, t # k, NEW z \in Zones, t \in riders[z], waiting'[t] = waiting[t]
            PROVE  /\ waiting'[t] = z
                   /\ \E i \in 1..read'[t] : /\ HeardLast(t, i)'
                                            /\ news'[t][i].zone = z /\ news'[t][i].status \in Waiting
        BY <3>4, <3>5 DEF WaitersAreCounted
      <3>6. ASSUME NEW t \in Trips, t # k, NEW i, HeardLast(t, i)', news'[t][i].status \in Waiting,
                   faults' = 0
            PROVE  t \in riders[news'[t][i].zone]
        <4>1. HeardLast(t, i) /\ i \in 1..read[t] /\ news'[t][i] = news[t][i] /\ faults = 0
          BY <2>1, <3>4, <3>6 DEF HeardLast
        <4> QED BY <3>6, <4>1 DEF WaitersAreCounted
      <3>7. CASE m.status \in Waiting
        <4>1. /\ riders' = [riders EXCEPT ![m.zone] = riders[m.zone] \cup {k}]
              /\ waiting' = [waiting EXCEPT ![k] = m.zone]
          BY <3>2, <3>7 DEF NoteTrip
        <4>2. /\ \A z \in Zones : k \in riders'[z] <=> z = m.zone
              /\ \A t \in Trips \ {k} : \A z : t \in riders'[z] <=> t \in riders[z]
              /\ waiting'[k] = m.zone /\ \A t \in Trips \ {k} : waiting'[t] = waiting[t]
          BY <1>t, <3>1, <3>3, <4>1
        <4>3. ASSUME NEW t \in Trips, NEW z \in Zones, t \in riders'[z]
              PROVE  /\ waiting'[t] = z
                     /\ \E i \in 1..read'[t] : /\ HeardLast(t, i)'
                                              /\ news'[t][i].zone = z /\ news'[t][i].status \in Waiting
          <5>1. CASE t = k
            BY <2>h, <3>2, <3>7, <4>2, <4>3, <5>1
          <5>2. CASE t # k
            BY <3>5, <4>2, <4>3, <5>2
          <5> QED BY <5>1, <5>2
        <4>4. ASSUME NEW t \in Trips, NEW i, HeardLast(t, i)', news'[t][i].status \in Waiting, faults' = 0
              PROVE  t \in riders'[news'[t][i].zone]
          <5>1. CASE t = k
            BY <2>h, <3>1, <3>2, <4>2, <4>4, <5>1
          <5>2. CASE t # k
            BY <3>6, <4>2, <4>4, <5>2
          <5> QED BY <5>1, <5>2
        <4> QED BY <4>3, <4>4 DEF WaitersAreCounted
      <3>8. CASE m.status \in NotWaiting /\ m.status \notin Waiting
        <4> DEFINE previous == IF waiting[k] = None THEN m.zone ELSE waiting[k]
        <4>1. /\ riders' = [riders EXCEPT ![previous] = riders[previous] \ {k}]
              /\ waiting' = [waiting EXCEPT ![k] = None]
          BY <3>2, <3>8 DEF NoteTrip
        <4>2. previous \in Zones /\ \A z \in Zones : k \in riders[z] => z = previous
          BY <1>t, <3>1, <3>3
        <4> HIDE DEF previous
        <4>3. /\ \A z \in Zones : k \notin riders'[z]
              /\ \A t \in Trips \ {k} : \A z : t \in riders'[z] <=> t \in riders[z]
              /\ \A t \in Trips \ {k} : waiting'[t] = waiting[t]
          BY <1>t, <4>1, <4>2
        <4>4. ASSUME NEW t \in Trips, NEW z \in Zones, t \in riders'[z]
              PROVE  /\ waiting'[t] = z
                     /\ \E i \in 1..read'[t] : /\ HeardLast(t, i)'
                                              /\ news'[t][i].zone = z /\ news'[t][i].status \in Waiting
          <5>1. t # k /\ t \in riders[z]
            BY <4>3, <4>4
          <5> QED BY <3>5, <4>3, <5>1
        <4>5. ASSUME NEW t \in Trips, NEW i, HeardLast(t, i)', news'[t][i].status \in Waiting, faults' = 0
              PROVE  t \in riders'[news'[t][i].zone]
          <5>1. t # k
            BY <2>h, <3>2, <3>8, <4>5
          <5> QED BY <3>6, <4>3, <4>5, <5>1
        <4> QED BY <4>4, <4>5 DEF WaitersAreCounted
      <3> QED BY <3>1, <3>7, <3>8
    <2> QED BY <2>2, <2>3
  <1>3. CASE Crash
    <2>1. faults' # 0 /\ \A z \in Zones : riders'[z] = {}
      <3>1. faults \in Nat
        BY CityAssumption DEF TypeOK
      <3> QED BY <1>3, <3>1 DEF Crash
    <2> QED BY <2>1 DEF WaitersAreCounted
  <1>4. CASE Looking
    <2>1. \A t \in Trips : \A i : HeardLast(t, i)' <=> HeardLast(t, i)
      BY <1>4 DEF Looking, HeardLast
    <2> QED BY <1>4, <2>1, WaitersKept DEF Looking
  <1> QED BY <1>1, <1>s, <1>2, <1>3, <1>4, OthersLook

\* A report says something of its own zone only.
LEMMA FreeStep ==
    TypeOK /\ Streams /\ FreeWereIdleThere /\ [Next]_vars => FreeWereIdleThere'
  <1> SUFFICES ASSUME TypeOK, Streams, FreeWereIdleThere, [Next]_vars PROVE FreeWereIdleThere'
    OBVIOUS
  <1>t. /\ read \in [Keys -> Nat] /\ free \in [Zones -> SUBSET Drivers]
        /\ \A d \in Drivers : d \in Keys
    BY DEF TypeOK, Keys
  <1>1. CASE (\E t \in Trips : TellTrip(t)) \/ (\E d \in Drivers : Report(d))
    <2>1. /\ UNCHANGED <<free, read, skipped>>
          /\ \A k \in Keys : \A i \in 1..read[k] : news'[k][i] = news[k][i]
      BY <1>1, ReadStays
    <2>2. ASSUME NEW z \in Zones, NEW d \in free'[z]
          PROVE  \E i \in 1..read'[d] :
                    /\ news'[d][i] = [zone |-> z, status |-> "idle"]
                    /\ \A j \in i..read'[d] :
                          news'[d][j].zone = z /\ <<d, j>> \notin skipped' => news'[d][j].status = "idle"
      <3>1. d \in free[z] /\ d \in Keys /\ read[d] \in Nat /\ read'[d] = read[d]
        BY <1>t, <2>1
      <3>2. PICK i \in 1..read[d] :
              /\ news[d][i] = [zone |-> z, status |-> "idle"]
              /\ \A j \in i..read[d] :
                    news[d][j].zone = z /\ <<d, j>> \notin skipped => news[d][j].status = "idle"
        BY <3>1 DEF FreeWereIdleThere
      <3>3. \A j \in i..read[d] : news'[d][j] = news[d][j]
        BY <2>1, <3>1
      <3>4. i \in i..read[d]
        BY <3>1
      <3> QED BY <2>1, <3>1, <3>2, <3>3, <3>4
    <2> QED BY <2>2 DEF FreeWereIdleThere
  <1>2. ASSUME NEW k \in Keys, Read(k) PROVE FreeWereIdleThere'
    <2> DEFINE m == news[k][read[k] + 1]
    <2>1. /\ m \in News /\ read[k] \in Nat
          /\ read'[k] = read[k] + 1 /\ \A j \in Keys \ {k} : read'[j] = read[j]
          /\ news' = news /\ skipped' = skipped \ {<<k, read[k] + 1>>}
          /\ IF k \in Drivers THEN NoteDriver(k, m) ELSE NoteTrip(k, m)
      BY <1>2, NextMessage DEF Read, streams
    <2>2. CASE k \notin Drivers
      <3>1. /\ free' = free /\ \A d \in Drivers : read'[d] = read[d]
            /\ \A d \in Drivers : \A j : <<d, j>> \in skipped' <=> <<d, j>> \in skipped
        BY <1>t, <2>1, <2>2 DEF NoteTrip
      <3> QED BY <1>t, <2>1, <3>1 DEF FreeWereIdleThere
    <2>3. CASE k \in Drivers
      <3>1. NoteDriver(k, m) /\ m.zone \in Zones /\ m = [zone |-> m.zone, status |-> m.status]
            /\ news[k][read'[k]] = m
        BY <2>1, <2>3 DEF News
      <3> HIDE DEF m
      <3>2. free' = [free EXCEPT ![m.zone] = IF m.status = "idle" THEN free[m.zone] \cup {k}
                                             ELSE free[m.zone] \ {k}]
        BY <3>1 DEF NoteDriver
      <3>3. ASSUME NEW z \in Zones, NEW d \in free'[z]
            PROVE  \E i \in 1..read'[d] :
                      /\ news[d][i] = [zone |-> z, status |-> "idle"]
                      /\ \A j \in i..read'[d] :
                            news[d][j].zone = z /\ <<d, j>> \notin skipped' => news[d][j].status = "idle"
        <4>1. CASE d # k
          <5>1. /\ d \in free[z] /\ d \in Keys /\ read'[d] = read[d]
                /\ \A j : <<d, j>> \in skipped' <=> <<d, j>> \in skipped
            <6>1. d \in free[z]
              BY <1>t, <3>1, <3>2, <3>3, <4>1
            <6> QED BY <1>t, <2>1, <4>1, <6>1
          <5> QED BY <5>1 DEF FreeWereIdleThere
        <4>2. CASE d = k /\ z = m.zone
          <5>1. m.status = "idle"
            BY <1>t, <3>1, <3>2, <3>3, <4>2
          <5>2. read'[k] \in 1..read'[k] /\ \A j \in read'[k]..read'[k] : j = read'[k]
            BY <2>1
          <5>3. news[k][read'[k]] = [zone |-> z, status |-> "idle"]
            BY <3>1, <4>2, <5>1
          <5>4. \A j \in read'[k]..read'[k] : news[k][j].status = "idle"
            BY <3>1, <5>1, <5>2
          <5> QED BY <4>2, <5>2, <5>3, <5>4
        <4>3. CASE d = k /\ z # m.zone
          <5>1. k \in free[z]
            BY <1>t, <3>1, <3>2, <3>3, <4>3
          <5>2. PICK i \in 1..read[k] :
                  /\ news[k][i] = [zone |-> z, status |-> "idle"]
                  /\ \A j \in i..read[k] :
                        news[k][j].zone = z /\ <<k, j>> \notin skipped => news[k][j].status = "idle"
            BY <5>1 DEF FreeWereIdleThere
          <5>3. i \in 1..read'[k] /\ \A j \in i..read'[k] : j \in i..read[k] \/ j = read'[k]
            BY <2>1, <5>2
          <5>4. ASSUME NEW j \in i..read'[k], news[k][j].zone = z, <<k, j>> \notin skipped'
                PROVE news[k][j].status = "idle"
            <6>1. j # read'[k]
              BY <3>1, <4>3, <5>4
            <6>2. <<k, j>> \notin skipped
              BY <2>1, <5>4, <6>1
            <6> QED BY <5>2, <5>3, <5>4, <6>1, <6>2
          <5> QED BY <4>3, <5>2, <5>3, <5>4
        <4> QED BY <4>1, <4>2, <4>3
      <3> QED BY <2>1, <3>3 DEF FreeWereIdleThere
    <2> QED BY <2>2, <2>3
  <1>s. ASSUME NEW k \in Keys, SkipNews(k) PROVE FreeWereIdleThere'
    <2>1. /\ read[k] \in Nat /\ read'[k] = read[k] + 1 /\ \A j \in Keys \ {k} : read'[j] = read[j]
          /\ UNCHANGED <<news, free>> /\ skipped' = skipped \cup {<<k, read[k] + 1>>}
      BY <1>s, NextMessage DEF SkipNews, streams
    <2>2. ASSUME NEW z \in Zones, NEW d \in free'[z]
          PROVE  \E i \in 1..read'[d] :
                    /\ news[d][i] = [zone |-> z, status |-> "idle"]
                    /\ \A j \in i..read'[d] :
                          news[d][j].zone = z /\ <<d, j>> \notin skipped' => news[d][j].status = "idle"
      <3>1. d \in free[z] /\ d \in Drivers /\ d \in Keys /\ read[d] \in Nat
        BY <1>t, <2>1
      <3>2. PICK i \in 1..read[d] :
              /\ news[d][i] = [zone |-> z, status |-> "idle"]
              /\ \A j \in i..read[d] :
                    news[d][j].zone = z /\ <<d, j>> \notin skipped => news[d][j].status = "idle"
        BY <3>1 DEF FreeWereIdleThere
      <3>3. CASE d # k
        BY <2>1, <3>1, <3>2, <3>3
      <3>4. CASE d = k
        <4>1. i \in 1..read'[d] /\ \A j \in i..read'[d] : j \in i..read[d] \/ j = read[k] + 1
          BY <2>1, <3>1, <3>2, <3>4
        <4>2. \A j : <<d, j>> \notin skipped' => j # read[k] + 1 /\ <<d, j>> \notin skipped
          BY <2>1, <3>4
        <4> QED BY <3>2, <4>1, <4>2
      <3> QED BY <3>3, <3>4
    <2> QED BY <2>1, <2>2 DEF FreeWereIdleThere
  <1>3. CASE Crash
    <2>1. \A z \in Zones : free'[z] = {}
      BY <1>3 DEF Crash
    <2> QED BY <2>1 DEF FreeWereIdleThere
  <1>4. CASE Looking
    BY <1>4 DEF Looking, FreeWereIdleThere
  <1> QED BY <1>1, <1>2, <1>s, <1>3, <1>4, OthersLook

-----------------------------------------------------------------------------
(* The traffic: the table, its history and the speeds in hand. *)

\* The history is behind the table by the zone in hand, and, once something
\* went wrong, by what it lost.
Behind ==
    \A z \in Zones :
        LET inHand == IF pc = z THEN speeds[z] ELSE 0
        IN  /\ announced[z] + inHand <= stored[z]
            /\ faults = 0 => announced[z] + inHand = stored[z]

LEMMA BehindIsHistory == TypeOK /\ Behind => HistoryMatchesTable
  <1> SUFFICES ASSUME TypeOK, Behind, NEW z \in Zones
               PROVE  announced[z] <= stored[z] /\ (faults = 0 /\ pc # z => announced[z] = stored[z])
    BY DEF HistoryMatchesTable
  <1>1. stored[z] \in Nat /\ announced[z] \in Nat /\ speeds[z] \in Nat
    BY KindsOfCounts
  <1> QED BY <1>1 DEF Behind

\* The steps that store and announce nothing, with no zone in hand.
LEMMA NothingWritten ==
    ASSUME TypeOK, Behind, UNCHANGED <<stored, announced>>,
           \A z \in Zones : pc # z /\ pc' # z, faults' = 0 => faults = 0
    PROVE  Behind'
  BY KindsOfCounts DEF Behind

LEMMA BehindStep == TypeOK /\ Behind /\ [Next]_vars => Behind'
  <1> SUFFICES ASSUME TypeOK, Behind, [Next]_vars PROVE Behind'
    OBVIOUS
  <1> USE ZonesAreNoSteps, KindsOfCounts
  <1>1. CASE (\E t \in Trips : TellTrip(t)) \/ (\E d \in Drivers : Report(d))
    BY <1>1, Sending DEF Behind, written
  <1>2. ASSUME NEW k \in Keys, Read(k) \/ SkipNews(k) PROVE Behind'
    BY <1>2, NothingWritten DEF Read, SkipNews, written
  <1>3. CASE StopReading \/ Publish \/ Commit \/ LookAtTraffic \/ TrafficDone \/ TickFails
    <2>1. /\ UNCHANGED <<stored, announced, faults>>
          /\ pc \in {"read", "publish", "commit", "traffic", "update"}
          /\ pc' \in {"read", "publish", "commit", "traffic", "update"}
      BY <1>3 DEF StopReading, Publish, Commit, LookAtTraffic, TrafficDone, TickFails, written
    <2> QED BY <2>1, NothingWritten
  <1>4. CASE ScoreComesDue \/ TrafficComesDue \/ UNCHANGED vars
    BY <1>4 DEF ScoreComesDue, TrafficComesDue, vars, Behind, written
  <1>5. ASSUME NEW y \in Zones, StoreZone(y) PROVE Behind'
    <2>1. /\ UNCHANGED <<announced, speeds, faults>> /\ pc = "update" /\ pc' = y
          /\ stored' = [stored EXCEPT ![y] = stored[y] + speeds[y]]
      BY <1>5 DEF StoreZone
    <2>2. ASSUME NEW z \in Zones
          PROVE  LET inHand == IF pc' = z THEN speeds'[z] ELSE 0
                 IN  /\ announced'[z] + inHand <= stored'[z]
                     /\ faults' = 0 => announced'[z] + inHand = stored'[z]
      BY <2>1 DEF Behind
    <2> QED BY <2>2 DEF Behind
  <1>6. ASSUME NEW y \in Zones, AnnounceZone(y) PROVE Behind'
    <2>1. /\ UNCHANGED <<stored, faults>> /\ pc = y /\ pc' = "update"
          /\ announced' = [announced EXCEPT ![y] = announced[y] + speeds[y]]
      BY <1>6 DEF AnnounceZone
    <2>2. ASSUME NEW z \in Zones
          PROVE  /\ announced'[z] <= stored'[z]
                 /\ faults' = 0 => announced'[z] = stored'[z]
      BY <2>1 DEF Behind
    <2>3. \A z \in Zones : pc' # z /\ announced'[z] + 0 = announced'[z]
      BY <2>1
    <2> QED BY <2>2, <2>3 DEF Behind
  <1>7. ASSUME NEW y \in Zones, ZoneTimesOut(y) PROVE Behind'
    BY <1>7, NothingWritten DEF ZoneTimesOut, written
  <1>8. ASSUME NEW y \in Zones, ZoneLosesAnswer(y) PROVE Behind'
    <2>1. /\ UNCHANGED announced /\ pc = "update" /\ pc' \in {"read", "update"}
          /\ stored' = [stored EXCEPT ![y] = stored[y] + speeds[y]] /\ faults' = faults + 1
          /\ faults \in Nat
      BY <1>8, CityAssumption DEF ZoneLosesAnswer, TypeOK
    <2>2. ASSUME NEW z \in Zones PROVE announced'[z] <= stored'[z]
      BY <2>1 DEF Behind
    <2>3. \A z \in Zones : pc' # z /\ announced'[z] + 0 = announced'[z]
      BY <2>1
    <2> QED BY <2>1, <2>2, <2>3 DEF Behind
  <1>9. CASE Crash
    <2>1. /\ UNCHANGED <<stored, announced>> /\ pc' = "read" /\ faults' = faults + 1
          /\ faults \in Nat
      BY <1>9, CityAssumption DEF Crash, TypeOK, written
    <2>2. \A z \in Zones : announced'[z] <= stored'[z] /\ announced'[z] + 0 = announced'[z]
      BY <2>1 DEF Behind
    <2> QED BY <2>1, <2>2 DEF Behind
  <1>10. ASSUME NEW y \in Zones, AnnounceFails(y) \/ AnnouncementLost(y) PROVE Behind'
    <2>1. /\ UNCHANGED <<stored, announced>> /\ pc' \in {"read", "update"} /\ faults' = faults + 1
          /\ faults \in Nat
      BY <1>10, CityAssumption DEF AnnounceFails, AnnouncementLost, TypeOK, written
    <2>2. \A z \in Zones : announced'[z] <= stored'[z] /\ announced'[z] + 0 = announced'[z]
      BY <2>1 DEF Behind
    <2>3. \A z \in Zones : pc' # z
      BY <2>1
    <2> QED BY <2>1, <2>2, <2>3 DEF Behind
  <1> QED
    BY <1>1, <1>2, <1>3, <1>4, <1>5, <1>6, <1>7, <1>8, <1>9, <1>10
    DEF Next, Step, Surroundings

-----------------------------------------------------------------------------
(* How often a speed counts. *)

\* The reports of drivers with a passenger in a zone that were read.
ReadDriven(z) == {r \in Driven(z) : r[2] <= read[r[1]]}

\* What a zone's factor has taken, and what it is about to take.
Taken(z) == stored[z] + (IF pc = z THEN 0 ELSE speeds[z])

\* Only what was read is in hand; and besides what was read since the last
\* fault, each fault lets every report count once more.
Counted ==
    \A z \in Zones :
        /\ speeds[z] <= Cardinality(ReadDriven(z))
        /\ Taken(z) <= Cardinality(Driven(z)) * faults + Cardinality(ReadDriven(z))

LEMMA OneMoreTime == \A c, f \in Nat : c * (f + 1) = c * f + c /\ c * f \in Nat
  OBVIOUS

LEMMA TimesGrows == \A a, b, f \in Nat : a <= b => a * f <= b * f
  <1> SUFFICES ASSUME NEW a \in Nat, NEW b \in Nat, NEW f \in Nat, a <= b PROVE a * f <= b * f
    OBVIOUS
  <1>1. PICK k \in Nat : b = a + k
    <2>1. b - a \in Nat /\ b = a + (b - a)
      OBVIOUS
    <2> QED BY <2>1
  <1>2. b * f = a * f + k * f /\ k * f \in Nat /\ a * f \in Nat
    BY <1>1
  <1> QED BY <1>2

\* A report is a driver and a place in that driver's stream.
ReportShape ==
    /\ \A d \in Drivers : news[d] \in Seq(News) /\ Len(news[d]) \in Nat /\ read[d] \in Nat
    /\ \A r : r \in Reports <=> \E d \in Drivers : \E i \in 1..Len(news[d]) : r = <<d, i>>

LEMMA ReportsAre == TypeOK => ReportShape
  <1> SUFFICES ASSUME TypeOK PROVE ReportShape
    OBVIOUS
  <1>1. \A d \in Drivers : news[d] \in Seq(News) /\ read[d] \in Nat
    BY DEF TypeOK, News, Keys
  <1>2. \A d \in Drivers : Len(news[d]) \in Nat /\ DOMAIN news[d] = 1..Len(news[d])
    BY <1>1, LenProperties
  <1>3. \A r : r \in Reports <=> \E d \in Drivers : r \in {d} \X DOMAIN news[d]
    BY DEF Reports
  <1>4. \A r : \A d \in Drivers :
          r \in {d} \X DOMAIN news[d] <=> \E i \in 1..Len(news[d]) : r = <<d, i>>
    BY <1>2
  <1> QED BY <1>1, <1>2, <1>3, <1>4 DEF ReportShape

LEMMA ReportsAreFinite == TypeOK => IsFiniteSet(Reports)
  <1> SUFFICES ASSUME TypeOK PROVE IsFiniteSet(Reports)
    OBVIOUS
  <1>1. ASSUME NEW d \in Drivers PROVE IsFiniteSet({d} \X DOMAIN news[d])
    <2>1. Len(news[d]) \in Nat /\ DOMAIN news[d] = 1..Len(news[d])
      BY ReportsAre, LenProperties DEF ReportShape
    <2>2. IsFiniteSet(1..Len(news[d]))
      BY <2>1, FS_Interval
    <2>3. IsFiniteSet({d})
      BY FS_Singleton
    <2> QED BY <2>1, <2>2, <2>3, FS_Product
  <1> DEFINE T == {{d} \X DOMAIN news[d] : d \in Drivers}
             f == [d \in Drivers |-> {d} \X DOMAIN news[d]]
  <1>2. f \in Surjection(Drivers, T)
    BY DEF Surjection
  <1>3. IsFiniteSet(Drivers)
    BY CityAssumption
  <1>4. IsFiniteSet(T)
    <2> HIDE DEF T, f
    <2> QED BY <1>2, <1>3, FS_Surjection
  <1>5. \A X \in T : IsFiniteSet(X)
    BY <1>1
  <1>6. Reports = UNION T
    BY DEF Reports
  <1> HIDE DEF T
  <1> QED BY <1>4, <1>5, <1>6, FS_UNION

CardsInOrder ==
    \A z \in Zones :
        /\ IsFiniteSet(Driven(z)) /\ IsFiniteSet(ReadDriven(z))
        /\ Cardinality(Driven(z)) \in Nat /\ Cardinality(ReadDriven(z)) \in Nat
        /\ Cardinality(ReadDriven(z)) <= Cardinality(Driven(z))

LEMMA Cards == TypeOK => CardsInOrder
  <1> SUFFICES ASSUME TypeOK, NEW z \in Zones
               PROVE  /\ IsFiniteSet(Driven(z)) /\ IsFiniteSet(ReadDriven(z))
                      /\ Cardinality(Driven(z)) \in Nat /\ Cardinality(ReadDriven(z)) \in Nat
                      /\ Cardinality(ReadDriven(z)) <= Cardinality(Driven(z))
    BY DEF CardsInOrder
  <1>1. Driven(z) \in SUBSET Reports /\ ReadDriven(z) \in SUBSET Driven(z)
    BY DEF Driven, ReadDriven
  <1>2. IsFiniteSet(Driven(z))
    BY <1>1, ReportsAreFinite, FS_Subset
  <1>3. IsFiniteSet(ReadDriven(z)) /\ Cardinality(ReadDriven(z)) <= Cardinality(Driven(z))
    BY <1>1, <1>2, FS_Subset
  <1> QED BY <1>2, <1>3, FS_CardinalityType

LEMMA CountedIsOnce == TypeOK /\ Counted => SpeedsCountOnce
  <1> SUFFICES ASSUME TypeOK, Counted, NEW z \in Zones
               PROVE  Taken(z) <= Cardinality(Driven(z)) * (faults + 1)
    BY DEF SpeedsCountOnce, Taken
  <1>1. Taken(z) \in Nat /\ faults \in Nat
    <2>1. Taken(z) \in Nat
      BY KindsOfCounts DEF Taken
    <2>2. faults \in Nat
      BY CityAssumption DEF TypeOK
    <2> QED BY <2>1, <2>2
  <1>2. /\ Cardinality(Driven(z)) \in Nat /\ Cardinality(ReadDriven(z)) \in Nat
        /\ Cardinality(ReadDriven(z)) <= Cardinality(Driven(z))
    BY Cards DEF CardsInOrder
  <1>3. Taken(z) <= Cardinality(Driven(z)) * faults + Cardinality(ReadDriven(z))
    BY DEF Counted
  <1>4. \A t, c, r, f \in Nat : t <= c * f + r /\ r <= c => t <= c * (f + 1)
    BY OneMoreTime
  <1> QED BY <1>1, <1>2, <1>3, <1>4

LEMMA CardsPrimed == TypeOK' => CardsInOrder' /\ ReportShape'
  BY Cards, ReportsAre, PTL

\* A step without a fault that adds to a zone nothing that was not read.
LEMMA CountsKept ==
    ASSUME TypeOK, TypeOK', Counted, faults' = faults, NEW z \in Zones, NEW n \in {0, 1},
           speeds'[z] <= speeds[z] + n, Taken(z)' <= Taken(z) + n,
           Cardinality(Driven(z)) <= Cardinality(Driven(z)'),
           Cardinality(ReadDriven(z)) + n <= Cardinality(ReadDriven(z)')
    PROVE  /\ speeds'[z] <= Cardinality(ReadDriven(z)')
           /\ Taken(z)' <= Cardinality(Driven(z)') * faults' + Cardinality(ReadDriven(z)')
  <1>1. /\ stored[z] \in Nat /\ speeds[z] \in Nat /\ stored'[z] \in Nat /\ speeds'[z] \in Nat
        /\ faults \in Nat
    BY CityAssumption DEF TypeOK
  <1>2. Taken(z) \in Nat /\ Taken(z)' \in Nat
    BY <1>1 DEF Taken
  <1>3. /\ Cardinality(Driven(z)) \in Nat /\ Cardinality(ReadDriven(z)) \in Nat
        /\ Cardinality(Driven(z)') \in Nat /\ Cardinality(ReadDriven(z)') \in Nat
    BY Cards, CardsPrimed DEF CardsInOrder
  <1>4. Cardinality(Driven(z)) * faults <= Cardinality(Driven(z)') * faults
    BY <1>1, <1>3, TimesGrows
  <1>5. Cardinality(Driven(z)) * faults \in Nat /\ Cardinality(Driven(z)') * faults \in Nat
    BY <1>1, <1>3, OneMoreTime
  <1>6. /\ speeds[z] <= Cardinality(ReadDriven(z))
        /\ Taken(z) <= Cardinality(Driven(z)) * faults + Cardinality(ReadDriven(z))
    BY DEF Counted
  <1>7. \A t, u, a, b, r, q \in Nat : t <= a + r /\ u <= t + n /\ a <= b /\ r + n <= q => u <= b + q
    OBVIOUS
  <1> QED BY <1>1, <1>2, <1>3, <1>4, <1>5, <1>6, <1>7

\* The steps that read nothing.
LEMMA NothingRead ==
    ASSUME TypeOK, TypeOK', Counted, UNCHANGED <<news, read, faults>>,
           \A z \in Zones : speeds'[z] <= speeds[z] /\ Taken(z)' <= Taken(z)
    PROVE  Counted'
  <1> SUFFICES ASSUME NEW z \in Zones
               PROVE  /\ speeds'[z] <= Cardinality(ReadDriven(z)')
                      /\ Taken(z)' <= Cardinality(Driven(z)') * faults' + Cardinality(ReadDriven(z)')
    BY DEF Counted
  <1>1. Driven(z)' = Driven(z) /\ ReadDriven(z)' = ReadDriven(z)
    BY DEF Driven, ReadDriven, Reports
  <1>2. Cardinality(Driven(z)) \in Nat /\ Cardinality(ReadDriven(z)) \in Nat
    BY Cards DEF CardsInOrder
  <1>3. speeds[z] \in Nat /\ Taken(z) \in Nat
    BY KindsOfCounts DEF Taken
  <1>4. /\ speeds'[z] <= speeds[z] + 0 /\ Taken(z)' <= Taken(z) + 0
        /\ Cardinality(Driven(z)) <= Cardinality(Driven(z)')
        /\ Cardinality(ReadDriven(z)) + 0 <= Cardinality(ReadDriven(z)')
    BY <1>1, <1>2, <1>3
  <1> QED BY <1>4, CountsKept

\* The faults: each lets everything count once more.
LEMMA FaultCounts ==
    ASSUME TypeOK, TypeOK', Counted, news' = news, faults' = faults + 1,
           \A z \in Zones : /\ Taken(z)' <= Taken(z) + speeds[z]
                            /\ \/ read' = read /\ speeds'[z] <= speeds[z]
                               \/ speeds'[z] = 0 /\ Taken(z)' <= Taken(z)
    PROVE  Counted'
  <1> SUFFICES ASSUME NEW z \in Zones
               PROVE  /\ speeds'[z] <= Cardinality(ReadDriven(z)')
                      /\ Taken(z)' <= Cardinality(Driven(z)') * faults' + Cardinality(ReadDriven(z)')
    BY DEF Counted
  <1>1. Driven(z)' = Driven(z) /\ (read' = read => ReadDriven(z)' = ReadDriven(z))
    BY DEF Driven, ReadDriven, Reports
  <1>2. /\ stored[z] \in Nat /\ speeds[z] \in Nat /\ stored'[z] \in Nat /\ speeds'[z] \in Nat
        /\ faults \in Nat
    BY CityAssumption DEF TypeOK
  <1>3. Taken(z) \in Nat /\ Taken(z)' \in Nat
    BY <1>2 DEF Taken
  <1>4. /\ Cardinality(Driven(z)) \in Nat /\ Cardinality(ReadDriven(z)) \in Nat
        /\ Cardinality(ReadDriven(z)) <= Cardinality(Driven(z))
        /\ Cardinality(ReadDriven(z)') \in Nat
    BY Cards, CardsPrimed DEF CardsInOrder
  <1>5. /\ speeds[z] <= Cardinality(ReadDriven(z))
        /\ Taken(z) <= Cardinality(Driven(z)) * faults + Cardinality(ReadDriven(z))
    BY DEF Counted
  <1>6. /\ Cardinality(Driven(z)) * (faults + 1) = Cardinality(Driven(z)) * faults + Cardinality(Driven(z))
        /\ Cardinality(Driven(z)) * faults \in Nat
    BY <1>2, <1>4, OneMoreTime
  <1>7. \A t, u, a, c, r, x \in Nat :
          t <= a + r /\ r <= c /\ x <= r /\ u <= t + x => u <= (a + c) + r
    OBVIOUS
  <1>8. \A t, u, a, c, r, q \in Nat :
          t <= a + r /\ r <= c /\ u <= t => u <= (a + c) + q
    OBVIOUS
  <1>9. CASE read' = read /\ speeds'[z] <= speeds[z]
    BY <1>1, <1>2, <1>3, <1>4, <1>5, <1>6, <1>7, <1>9
  <1>10. CASE speeds'[z] = 0 /\ Taken(z)' <= Taken(z)
    BY <1>1, <1>2, <1>3, <1>4, <1>5, <1>6, <1>8, <1>10
  <1> QED BY <1>9, <1>10

\* A report that is sent is not read yet.
LEMMA SendingCounts ==
    ASSUME TypeOK, TypeOK', Streams, Counted,
           (\E t \in Trips : TellTrip(t)) \/ (\E d \in Drivers : Report(d))
    PROVE  Counted'
  <1> SUFFICES ASSUME NEW z \in Zones
               PROVE  /\ speeds'[z] <= Cardinality(ReadDriven(z)')
                      /\ Taken(z)' <= Cardinality(Driven(z)') * faults' + Cardinality(ReadDriven(z)')
    BY DEF Counted
  <1>1. UNCHANGED <<stored, read, speeds, pc, faults>>
    BY Sending DEF written
  <1>2. PICK k \in Keys, m \in News : news' = [news EXCEPT ![k] = Append(news[k], m)]
    BY Sending
  <1>3. /\ \A j \in Keys \ {k} : news'[j] = news[j]
        /\ Len(news'[k]) = Len(news[k]) + 1
        /\ \A i \in 1..Len(news[k]) : news'[k][i] = news[k][i]
        /\ \A j \in Keys : Len(news[j]) \in Nat
    BY <1>2, Sent
  <1>4. ASSUME NEW d \in Drivers
        PROVE  /\ d \in Keys /\ Len(news[d]) \in Nat /\ read[d] \in Nat /\ read[d] <= Len(news[d])
               /\ Len(news[d]) <= Len(news'[d]) /\ Len(news'[d]) \in Nat
               /\ \A i \in 1..Len(news[d]) : i \in 1..Len(news'[d]) /\ news'[d][i] = news[d][i]
    <2>1. d \in Keys /\ read[d] \in Nat /\ read[d] <= Len(news[d])
      BY DEF Keys, TypeOK, Streams
    <2>2. CASE d = k
      BY <1>3, <2>1, <2>2
    <2>3. CASE d # k
      BY <1>3, <2>1, <2>3
    <2> QED BY <2>2, <2>3
  <1>5. ReportShape /\ ReportShape'
    BY ReportsAre, CardsPrimed
  <1>6. Driven(z) \subseteq Driven(z)'
    <2> SUFFICES ASSUME NEW r \in Driven(z) PROVE r \in Driven(z)'
      OBVIOUS
    <2>1. r \in Reports /\ news[r[1]][r[2]] = [zone |-> z, status |-> "on_trip"]
      BY DEF Driven
    <2>2. PICK d \in Drivers : \E i \in 1..Len(news[d]) : r = <<d, i>>
      BY <1>5, <2>1 DEF ReportShape
    <2>3. PICK i \in 1..Len(news[d]) : r = <<d, i>>
      BY <2>2
    <2>4. i \in 1..Len(news'[d]) /\ news'[d][i] = news[d][i]
      BY <1>4
    <2>5. r \in Reports'
      BY <1>5, <2>3, <2>4 DEF ReportShape
    <2> QED BY <2>1, <2>3, <2>4, <2>5 DEF Driven
  <1>7. ReadDriven(z) \subseteq ReadDriven(z)'
    BY <1>1, <1>6 DEF ReadDriven
  <1>8. /\ Cardinality(Driven(z)) <= Cardinality(Driven(z)')
        /\ Cardinality(ReadDriven(z)) <= Cardinality(ReadDriven(z)')
    <2>1. IsFiniteSet(Driven(z)') /\ IsFiniteSet(ReadDriven(z)')
      BY CardsPrimed DEF CardsInOrder
    <2> QED BY <1>6, <1>7, <2>1, FS_Subset
  <1>9. speeds'[z] <= speeds[z] + 0 /\ Taken(z)' <= Taken(z) + 0
    <2>1. Taken(z)' = Taken(z) /\ Taken(z) \in Nat /\ speeds[z] \in Nat
      BY <1>1, KindsOfCounts DEF Taken
    <2> QED BY <1>1, <2>1
  <1>10. Cardinality(ReadDriven(z)) + 0 <= Cardinality(ReadDriven(z)')
    BY <1>8, Cards DEF CardsInOrder
  <1> QED BY <1>1, <1>8, <1>9, <1>10, CountsKept

\* A speed is taken into hand with a report that had not been read.
LEMMA ReadingCounts ==
    ASSUME TypeOK, TypeOK', Counted, NEW k \in Keys, Read(k) \/ SkipNews(k)
    PROVE  Counted'
  <1> DEFINE m == news[k][read[k] + 1]
  <1> SUFFICES ASSUME NEW z \in Zones
               PROVE  /\ speeds'[z] <= Cardinality(ReadDriven(z)')
                      /\ Taken(z)' <= Cardinality(Driven(z)') * faults' + Cardinality(ReadDriven(z)')
    BY DEF Counted
  <1>1. /\ m \in News /\ read[k] \in Nat /\ Len(news[k]) \in Nat /\ read[k] + 1 \in 1..Len(news[k])
        /\ read'[k] = read[k] + 1 /\ \A j \in Keys \ {k} : read'[j] = read[j]
        /\ UNCHANGED <<news, stored, pc, faults>> /\ pc = "read"
        /\ speeds' = speeds \/ IF k \in Drivers THEN NoteDriver(k, m) ELSE NoteTrip(k, m)
    BY NextMessage DEF Read, SkipNews, streams, written
  <1>2. Driven(z)' = Driven(z)
    BY <1>1 DEF Driven, Reports
  <1>3. ReportShape /\ \A j \in Drivers : j \in Keys /\ read[j] \in Nat
    BY ReportsAre DEF ReportShape, Keys
  <1>4. \A j \in Drivers : read'[j] \in Nat /\ read[j] <= read'[j]
    BY <1>1, <1>3
  <1>5. ReadDriven(z) \subseteq ReadDriven(z)'
    <2> SUFFICES ASSUME NEW r \in ReadDriven(z) PROVE r \in ReadDriven(z)'
      OBVIOUS
    <2>1. r \in Driven(z) /\ r \in Reports /\ r[2] <= read[r[1]]
      BY DEF ReadDriven, Driven
    <2>2. PICK d \in Drivers : \E i \in 1..Len(news[d]) : r = <<d, i>>
      BY <1>3, <2>1 DEF ReportShape
    <2>3. r[1] = d /\ r[2] \in Nat
      BY <1>3, <2>2 DEF ReportShape
    <2>4. r[2] <= read'[r[1]]
      BY <1>3, <1>4, <2>1, <2>3
    <2> QED BY <1>2, <2>1, <2>4 DEF ReadDriven
  <1>6. IsFiniteSet(ReadDriven(z)) /\ IsFiniteSet(ReadDriven(z)')
        /\ Cardinality(ReadDriven(z)) \in Nat /\ Cardinality(ReadDriven(z)') \in Nat
        /\ Cardinality(Driven(z)) \in Nat
    BY Cards, CardsPrimed DEF CardsInOrder
  <1>7. Cardinality(ReadDriven(z)) <= Cardinality(ReadDriven(z)')
    BY <1>5, <1>6, FS_Subset
  <1>8. speeds \in [Zones -> Nat] /\ speeds[z] \in Nat /\ Taken(z) = stored[z] + speeds[z]
        /\ Taken(z)' = stored[z] + speeds'[z] /\ stored[z] \in Nat
    BY <1>1, KindsOfCounts, ZonesAreNoSteps DEF Taken
  <1>9. CASE speeds'[z] = speeds[z]
    <2>1. speeds'[z] <= speeds[z] + 0 /\ Taken(z)' <= Taken(z) + 0
      BY <1>8, <1>9
    <2>2. /\ Cardinality(Driven(z)) <= Cardinality(Driven(z)')
          /\ Cardinality(ReadDriven(z)) + 0 <= Cardinality(ReadDriven(z)')
      BY <1>2, <1>6, <1>7
    <2> QED BY <1>1, <2>1, <2>2, CountsKept
  <1>10. CASE speeds'[z] # speeds[z]
    <2>1. k \in Drivers /\ NoteDriver(k, m)
      BY <1>1, <1>10 DEF NoteTrip
    <2>2. PICK n \in IF m.status = "on_trip" THEN {0, 1} ELSE {0} :
            speeds' = [speeds EXCEPT ![m.zone] = @ + n]
      BY <2>1 DEF NoteDriver
    <2>3. m.zone = z /\ n = 1 /\ m.status = "on_trip" /\ speeds'[z] = speeds[z] + 1
      BY <1>8, <1>10, <2>2
    <2> DEFINE new == <<k, read[k] + 1>>
    <2>4. new \in ReadDriven(z)' /\ new \notin ReadDriven(z)
      <3>1. new \in Reports
        BY <1>1, <1>3, <2>1 DEF ReportShape
      <3>2. m = [zone |-> z, status |-> "on_trip"]
        BY <1>1, <2>3 DEF News
      <3>3. new[1] = k /\ new[2] = read[k] + 1
        OBVIOUS
      <3>4. new \in Driven(z)
        BY <3>1, <3>2, <3>3 DEF Driven
      <3>5. new[2] <= read'[new[1]] /\ ~(new[2] <= read[new[1]])
        BY <1>1, <3>3
      <3> QED BY <1>2, <3>4, <3>5 DEF ReadDriven
    <2> HIDE DEF new
    <2>5. /\ IsFiniteSet(ReadDriven(z) \cup {new})
          /\ Cardinality(ReadDriven(z) \cup {new}) = Cardinality(ReadDriven(z)) + 1
      BY <1>6, <2>4, FS_AddElement
    <2>6. ReadDriven(z) \cup {new} \in SUBSET (ReadDriven(z)')
      BY <1>5, <2>4
    <2>7. Cardinality(ReadDriven(z)) + 1 <= Cardinality(ReadDriven(z)')
      <3>1. Cardinality(ReadDriven(z) \cup {new}) <= Cardinality(ReadDriven(z)')
        BY <1>6, <2>6, FS_Subset
      <3> QED BY <2>5, <3>1
    <2>8. /\ speeds'[z] <= speeds[z] + 1 /\ Taken(z)' <= Taken(z) + 1
          /\ Cardinality(Driven(z)) <= Cardinality(Driven(z)')
      BY <1>2, <1>6, <1>8, <2>3
    <2> QED BY <1>1, <2>7, <2>8, CountsKept
  <1> QED BY <1>9, <1>10

LEMMA CountedStep ==
    TypeOK /\ TypeOK' /\ Streams /\ Counted /\ [Next]_vars => Counted'
  <1> SUFFICES ASSUME TypeOK, TypeOK', Streams, Counted, [Next]_vars PROVE Counted'
    OBVIOUS
  <1>t. /\ \A z \in Zones : stored[z] \in Nat /\ speeds[z] \in Nat
        /\ stored \in [Zones -> Nat] /\ speeds \in [Zones -> Nat]
    BY KindsOfCounts
  <1> USE ZonesAreNoSteps
  <1>1. CASE (\E t \in Trips : TellTrip(t)) \/ (\E d \in Drivers : Report(d))
    BY <1>1, SendingCounts
  <1>2. CASE \E k \in Keys : Read(k) \/ SkipNews(k)
    BY <1>2, ReadingCounts
  <1>3. CASE StopReading \/ Publish \/ Commit \/ LookAtTraffic \/ TrafficDone \/ TickFails
    <2>1. /\ UNCHANGED <<news, read, stored, speeds, faults>>
          /\ pc \in {"read", "publish", "commit", "traffic", "update"}
          /\ pc' \in {"read", "publish", "commit", "traffic", "update"}
      BY <1>3 DEF StopReading, Publish, Commit, LookAtTraffic, TrafficDone, TickFails, written, streams
    <2>2. \A z \in Zones : speeds'[z] <= speeds[z] /\ Taken(z)' <= Taken(z)
      BY <1>t, <2>1 DEF Taken
    <2> QED BY <2>1, <2>2, NothingRead
  <1>4. CASE ScoreComesDue \/ TrafficComesDue \/ UNCHANGED vars
    <2>1. UNCHANGED <<news, read, stored, speeds, faults, pc>>
      BY <1>4 DEF ScoreComesDue, TrafficComesDue, vars, written, streams
    <2>2. \A z \in Zones : speeds'[z] <= speeds[z] /\ Taken(z)' <= Taken(z)
      BY <1>t, <2>1 DEF Taken
    <2> QED BY <2>1, <2>2, NothingRead
  <1>5. ASSUME NEW y \in Zones, StoreZone(y) PROVE Counted'
    <2>1. /\ UNCHANGED <<news, read, speeds, faults>> /\ pc = "update" /\ pc' = y
          /\ stored' = [stored EXCEPT ![y] = stored[y] + speeds[y]]
      BY <1>5 DEF StoreZone, streams
    <2>2. \A z \in Zones : speeds'[z] <= speeds[z] /\ Taken(z)' <= Taken(z)
      BY <1>t, <2>1 DEF Taken
    <2> QED BY <2>1, <2>2, NothingRead
  <1>6. ASSUME NEW y \in Zones, AnnounceZone(y) PROVE Counted'
    <2>1. /\ UNCHANGED <<news, read, stored, faults>> /\ pc = y /\ pc' = "update"
          /\ speeds' = [speeds EXCEPT ![y] = 0]
      BY <1>6 DEF AnnounceZone, streams
    <2>2. \A z \in Zones : speeds'[z] <= speeds[z] /\ Taken(z)' <= Taken(z)
      BY <1>t, <2>1 DEF Taken
    <2> QED BY <2>1, <2>2, NothingRead
  <1>7. ASSUME NEW y \in Zones, ZoneTimesOut(y) PROVE Counted'
    <2>1. /\ UNCHANGED <<news, read, stored, faults, pc>>
          /\ speeds' = [speeds EXCEPT ![y] = 0]
      BY <1>7 DEF ZoneTimesOut, streams, written
    <2>2. \A z \in Zones : speeds'[z] <= speeds[z] /\ Taken(z)' <= Taken(z)
      BY <1>t, <2>1 DEF Taken
    <2> QED BY <2>1, <2>2, NothingRead
  <1>8. ASSUME NEW y \in Zones, ZoneLosesAnswer(y) PROVE Counted'
    <2>1. /\ UNCHANGED <<news, read>> /\ faults' = faults + 1
          /\ pc = "update" /\ pc' \in {"read", "update"}
          /\ stored' = [stored EXCEPT ![y] = stored[y] + speeds[y]]
          /\ speeds' = speeds \/ speeds' = [speeds EXCEPT ![y] = 0]
      BY <1>8 DEF ZoneLosesAnswer, streams
    <2>2. \A z \in Zones : speeds'[z] <= speeds[z] /\ Taken(z)' <= Taken(z) + speeds[z]
      BY <1>t, <2>1 DEF Taken
    <2> QED BY <2>1, <2>2, FaultCounts
  <1>9. CASE Crash
    <2>1. /\ news' = news /\ stored' = stored /\ faults' = faults + 1 /\ pc' = "read"
          /\ \A z \in Zones : speeds'[z] = 0
      BY <1>9 DEF Crash, streams, written
    <2>2. \A z \in Zones : /\ speeds'[z] = 0 /\ Taken(z)' <= Taken(z)
                           /\ Taken(z)' <= Taken(z) + speeds[z]
      BY <1>t, <2>1 DEF Taken
    <2> QED BY <2>1, <2>2, FaultCounts
  <1>10. ASSUME NEW y \in Zones, AnnounceFails(y) \/ AnnouncementLost(y) PROVE Counted'
    <2>1. /\ UNCHANGED <<news, read, stored>> /\ faults' = faults + 1
          /\ pc = y /\ pc' \in {"read", "update"}
          /\ speeds' = speeds \/ speeds' = [speeds EXCEPT ![y] = 0]
      BY <1>10 DEF AnnounceFails, AnnouncementLost, streams, written
    <2>2. \A z \in Zones : speeds'[z] <= speeds[z] /\ Taken(z)' <= Taken(z) + speeds[z]
      BY <1>t, <2>1 DEF Taken
    <2> QED BY <2>1, <2>2, FaultCounts
  <1> QED
    BY <1>1, <1>2, <1>3, <1>4, <1>5, <1>6, <1>7, <1>8, <1>9, <1>10
    DEF Next, Step, Surroundings

-----------------------------------------------------------------------------
(* The theorems. *)

Picture == Streams /\ WaitersAreCounted /\ FreeWereIdleThere
Traffic == ZoneInHand /\ Behind /\ Counted

LEMMA PictureInit == Init => Streams /\ WaitersAreCounted /\ FreeWereIdleThere
  <1> SUFFICES ASSUME Init PROVE Streams /\ WaitersAreCounted /\ FreeWereIdleThere
    OBVIOUS
  <1>1. \A k \in Keys : news[k] = <<>> /\ saved[k] = 0 /\ read[k] = 0 /\ Len(news[k]) = 0
    BY DEF Init
  <1>2. \A t \in Trips : t \in Keys
    BY KeysApart
  <1>3. Streams
    BY <1>1, <1>2 DEF Streams
  <1>4. \A z \in Zones : riders[z] = {} /\ free[z] = {}
    BY DEF Init
  <1>5. WaitersAreCounted
    BY <1>1, <1>2, <1>4 DEF WaitersAreCounted
  <1> QED BY <1>3, <1>4, <1>5 DEF FreeWereIdleThere

LEMMA TrafficInit == Init => Behind /\ Counted
  <1> SUFFICES ASSUME Init PROVE Behind /\ Counted
    OBVIOUS
  <1>1. \A z \in Zones : stored[z] = 0 /\ announced[z] = 0 /\ speeds[z] = 0
    BY DEF Init
  <1>2. faults = 0
    BY DEF Init
  <1>3. Behind
    BY <1>1 DEF Behind
  <1>4. ASSUME NEW z \in Zones
        PROVE  /\ speeds[z] <= Cardinality(ReadDriven(z))
               /\ Taken(z) <= Cardinality(Driven(z)) * faults + Cardinality(ReadDriven(z))
    <2>1. Taken(z) = 0
      BY <1>1 DEF Taken
    <2>2. Cardinality(ReadDriven(z)) \in Nat /\ Cardinality(Driven(z)) \in Nat
      BY TypeInit, Cards DEF CardsInOrder
    <2>3. Cardinality(Driven(z)) * faults \in Nat
      BY <1>2, <2>2, OneMoreTime
    <2> QED BY <1>1, <2>1, <2>2, <2>3
  <1> QED BY <1>3, <1>4 DEF Counted

\* The invariant of a city-service that dies, loses answers and fails where it
\* may: its types, what it has read, the picture it made of it and what its
\* traffic update has written.
THEOREM PictureHolds == Spec => [](TypeOK /\ Picture /\ Traffic)
  <1>1. Init => TypeOK /\ Picture /\ Traffic
    BY TypeInit, PictureInit, TrafficInit DEF Picture, Traffic
  <1>2. TypeOK /\ Picture /\ Traffic /\ [Next]_vars => (TypeOK /\ Picture /\ Traffic)'
    <2> SUFFICES ASSUME TypeOK, Picture, Traffic, [Next]_vars
                 PROVE  TypeOK' /\ Picture' /\ Traffic'
      OBVIOUS
    <2>1. TypeOK' /\ ZoneInHand'
      BY TypeStep DEF Traffic
    <2>2. Picture'
      BY StreamsStep, WaitersStep, FreeStep DEF Picture
    <2>3. Behind' /\ Counted'
      BY <2>1, BehindStep, CountedStep DEF Picture, Traffic
    <2> QED BY <2>1, <2>2, <2>3 DEF Traffic
  <1> QED BY <1>1, <1>2, PTL DEF Spec

\* The demand of a zone counts a rider who waits there, and only there, also
\* after a restart and a replay; and while the process lives it misses none.
THEOREM DemandIsReal == Spec => []WaitersAreCounted
  <1>1. Picture => WaitersAreCounted
    BY DEF Picture
  <1> QED BY <1>1, PictureHolds, PTL

\* Whoever is counted as free in a zone was idle in the last report from it.
THEOREM FreeIsLastWord == Spec => []FreeWereIdleThere
  <1>1. Picture => FreeWereIdleThere
    BY DEF Picture
  <1> QED BY <1>1, PictureHolds, PTL

\* segment_traffic_updates never runs ahead of segment_traffic, and is behind
\* it only after a death, a lost answer or a failed announcement.
THEOREM HistoryFollows == Spec => []HistoryMatchesTable
  <1>1. TypeOK /\ Traffic => HistoryMatchesTable
    BY BehindIsHistory DEF Traffic
  <1> QED BY <1>1, PictureHolds, PTL

\* A report moves a zone's factor once, and at most once more for each death,
\* each lost answer and each failed announcement.
THEOREM SpeedsAreBounded == Spec => []SpeedsCountOnce
  <1>1. TypeOK /\ Traffic => SpeedsCountOnce
    BY CountedIsOnce DEF Traffic
  <1> QED BY <1>1, PictureHolds, PTL

=============================================================================
