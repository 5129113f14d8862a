----------------------------- MODULE CityDemand -----------------------------
(***************************************************************************)
(* city-service: a picture of the city in one process's memory, read from  *)
(* trip and driver news, and two jobs on two clocks: the demand shown in   *)
(* Redis, and the traffic factors stored in PostgreSQL zone by zone.       *)
(*                                                                         *)
(* Abstractions.  A demand score is the riders it counts; speeds are how   *)
(* many of them there are; scores and factors are those of one part of the *)
(* day; rider_location is read and ignored, and left out.  Any failure of  *)
(* Kafka, Redis or PostgreSQL ends the tick, not the process.              *)
(***************************************************************************)
EXTENDS Naturals, Sequences, FiniteSetsExt, TripStatus

CONSTANTS
    Zones, Trips, Drivers, None,
    Pickups,     \* the zones trips begin in
    MaxNews,     \* bound: messages in all
    MaxReports,  \* bound: reports of one driver
    MaxFaults    \* bound: deaths of the process, lost answers and failed
                 \* announcements; and messages lost to a failed decoding

ASSUME CityAssumption ==
    /\ None \notin Zones /\ Pickups \subseteq Zones /\ Trips \cap Drivers = {}
    /\ IsFiniteSet(Drivers)
    /\ Zones \cap {"read", "publish", "commit", "traffic", "update"} = {}  \* values of pc
    /\ MaxNews \in Nat /\ MaxReports \in Nat /\ MaxFaults \in Nat

VARIABLES
    news,       \* Kafka trip_lifecycle and driver_location, by key
    saved,      \* Kafka: the group's committed offsets
    shown,      \* Redis hotspot:{zone}: the riders the score there counts
    stored,     \* PostgreSQL segment_traffic.sample_count, per zone
    announced,  \* samples in segment_traffic_updates, per zone
    read,       \* the consumer's own offsets
    riders,     \* ZoneCounter.waiting_riders
    waiting,    \* waiting_zone: the zone each waiting trip is counted in
    free,       \* ZoneCounter.free_drivers
    skipped,    \* history: the places whose message could not be decoded when
                \* it was last read
    speeds,     \* ZoneCounter.speed_samples
    pc,         \* where the tick stands
    left,       \* zones this traffic update has still to write
    scoreDue, trafficDue,  \* which clock has run out
    rested,     \* a tick has passed since the score's clock ran out
    faults

streams == <<news, saved>>
written == <<shown, stored, announced>>
picture == <<riders, waiting, free, skipped>>
clocks == <<scoreDue, trafficDue, rested>>
vars == <<streams, written, read, picture, speeds, pc, left, clocks, faults>>

-----------------------------------------------------------------------------
Keys == Trips \cup Drivers
Moods == {"idle", "on_trip"}

Waiting == {"requested", "matched"}
\* Mutant of NotWaiting: a trip cancelled before anybody accepted it is
\* forgotten here.
NotCancelled == {"accepted", "en_route_pickup", "arrived", "in_progress", "completed",
                 "no_driver_found"}
NotWaiting == {"accepted", "en_route_pickup", "arrived", "in_progress", "completed",
               "cancelled_by_passenger", "cancelled_by_driver", "no_driver_found"}

\* What dispatch may tell next of a trip: a match or none, then its stages.
NextNews(t) ==
    IF news[t] = <<>> THEN {"matched", "no_driver_found"}
    ELSE NextStatuses(news[t][Len(news[t])].status)

\* The group has committed before: a first start at the end of the topics,
\* which is their beginning here, is not told apart.
Init ==
    /\ news = [k \in Keys |-> <<>>] /\ saved = [k \in Keys |-> 0] /\ read = saved
    /\ shown = [z \in Zones |-> {}]
    /\ stored = [z \in Zones |-> 0] /\ announced = stored
    /\ riders = [z \in Zones |-> {}] /\ waiting = [t \in Trips |-> None]
    /\ free = [z \in Zones |-> {}] /\ speeds = [z \in Zones |-> 0]
    /\ skipped = {}
    /\ pc = "read" /\ left = {}
    /\ scoreDue = FALSE /\ trafficDue = FALSE /\ rested = TRUE
    /\ faults = 0

-----------------------------------------------------------------------------
(***************************************************************************)
(* What comes from outside.  The process looks at none of it but while it  *)
(* reads (at the traffic clock, one tick later is the same), so that is    *)
(* when it comes.                                                          *)
(***************************************************************************)
MoreToCome == MapThenSumSet(LAMBDA k : Len(news[k]), Keys) < MaxNews

\* dispatch tells where a trip stands; all its messages name its pickup zone.
TellTrip(t) ==
    /\ pc = "read" /\ MoreToCome
    /\ \E s \in NextNews(t), z \in Pickups :
          /\ news[t] # <<>> => z = news[t][1].zone
          /\ news' = [news EXCEPT ![t] = Append(@, [zone |-> z, status |-> s])]
    /\ UNCHANGED <<saved, written, read, picture, speeds, pc, left, clocks, faults>>

\* driver-service reports a driver who is online, wherever the car is.
Report(d) ==
    /\ pc = "read" /\ MoreToCome /\ Len(news[d]) < MaxReports
    /\ \E z \in Zones, m \in Moods :
          news' = [news EXCEPT ![d] = Append(@, [zone |-> z, status |-> m])]
    /\ UNCHANGED <<saved, written, read, picture, speeds, pc, left, clocks, faults>>

\* CITY_SCORE_SECONDS are longer than a tick, CITY_TRAFFIC_UPDATE_MINUTES too.
ScoreComesDue ==
    /\ pc = "read" /\ ~scoreDue /\ rested
    /\ scoreDue' = TRUE /\ rested' = FALSE
    /\ UNCHANGED <<streams, written, read, picture, speeds, pc, left, trafficDue, faults>>

TrafficComesDue ==
    /\ pc = "read" /\ ~trafficDue
    /\ trafficDue' = TRUE
    /\ UNCHANGED <<streams, written, read, picture, speeds, pc, left, scoreDue, rested, faults>>

-----------------------------------------------------------------------------
\* Mutant of NoteDriver: nobody is ever taken out again.
NoteFree(d, m) ==
    /\ free' = [free EXCEPT ![m.zone] = IF m.status = "idle" THEN @ \cup {d} ELSE @]
    /\ UNCHANGED <<riders, waiting, speeds>>

\* _note_driver: a free driver is added to the zone of the report; any other
\* one is taken out of that zone.  The speed of a car that stands does not
\* count, so a driver on the way to a pickup looks like one who stands.
NoteDriver(d, m) ==
    /\ free' = [free EXCEPT ![m.zone] = IF m.status = "idle" THEN @ \cup {d} ELSE @ \ {d}]
    /\ \E n \in IF m.status = "on_trip" THEN {0, 1} ELSE {0} :
          speeds' = [speeds EXCEPT ![m.zone] = @ + n]
    /\ UNCHANGED <<riders, waiting>>

\* _note_trip: a trip that stops waiting leaves the zone it was counted in.
NoteTrip(t, m) ==
    /\ IF m.status \in Waiting
         THEN /\ riders' = [riders EXCEPT ![m.zone] = @ \cup {t}]
              /\ waiting' = [waiting EXCEPT ![t] = m.zone]
         ELSE IF m.status \in NotWaiting
         THEN LET previous == IF waiting[t] = None THEN m.zone ELSE waiting[t]
              IN  /\ riders' = [riders EXCEPT ![previous] = @ \ {t}]
                  /\ waiting' = [waiting EXCEPT ![t] = None]
         ELSE UNCHANGED <<riders, waiting>>
    /\ UNCHANGED <<free, speeds>>

\* One message is read and noted.
Read(k) ==
    /\ pc = "read"
    /\ read[k] < Len(news[k])
    /\ read' = [read EXCEPT ![k] = @ + 1]
    /\ LET m == news[k][read[k] + 1]
       IN  IF k \in Drivers THEN NoteDriver(k, m) ELSE NoteTrip(k, m)
    /\ skipped' = skipped \ {<<k, read[k] + 1>>}
    /\ UNCHANGED <<streams, written, pc, left, clocks, faults>>

\* poll_once raises after the offset has moved (the schema registry did not
\* answer): the tick ends, and the next one goes on behind the message.
SkipNews(k) ==
    /\ pc = "read"
    /\ read[k] < Len(news[k]) /\ faults + Cardinality(skipped) < MaxFaults
    /\ read' = [read EXCEPT ![k] = @ + 1]
    /\ skipped' = skipped \cup {<<k, read[k] + 1>>}
    /\ UNCHANGED <<streams, written, riders, waiting, free, speeds, pc, left, clocks, faults>>

\* Mutant of StopReading: the clock is set back after the work.
StopAndKeepClock ==
    /\ pc = "read"
    /\ pc' = IF scoreDue THEN "publish" ELSE "traffic"
    /\ scoreDue' = scoreDue /\ rested' = (rested \/ ~scoreDue)
    /\ UNCHANGED <<streams, written, read, picture, speeds, left, trafficDue, faults>>

\* Nothing more, or 5000 messages: the first clock is looked at, and set back
\* before the work it asks for.
StopReading ==
    /\ pc = "read"
    /\ pc' = IF scoreDue THEN "publish" ELSE "traffic"
    /\ scoreDue' = FALSE /\ rested' = (rested \/ ~scoreDue)
    /\ UNCHANGED <<streams, written, read, picture, speeds, left, trafficDue, faults>>

\* Mutant of Publish: zones where nobody waits are not worth a write.
PublishBusy ==
    /\ pc = "publish"
    /\ shown' = [z \in Zones |-> IF riders[z] = {} THEN shown[z] ELSE riders[z]]
    /\ pc' = "commit"
    /\ UNCHANGED <<streams, stored, announced, read, picture, speeds, left, clocks, faults>>

\* _publish_scores: every zone in one pipeline.
Publish ==
    /\ pc = "publish"
    /\ shown' = riders
    /\ pc' = "commit"
    /\ UNCHANGED <<streams, stored, announced, read, picture, speeds, left, clocks, faults>>

Commit ==
    /\ pc = "commit"
    /\ saved' = read
    /\ pc' = "traffic"
    /\ UNCHANGED <<news, written, read, picture, speeds, left, clocks, faults>>

\* The second clock, set back before the work.
LookAtTraffic ==
    /\ pc = "traffic"
    /\ pc' = IF trafficDue THEN "update" ELSE "read"
    /\ left' = IF trafficDue THEN {z \in Zones : speeds[z] > 0} ELSE {}
    /\ trafficDue' = FALSE
    /\ UNCHANGED <<streams, written, read, picture, speeds, scoreDue, rested, faults>>

\* _update_traffic: one zone, committed on its own.
StoreZone(z) ==
    /\ pc = "update" /\ z \in left
    /\ stored' = [stored EXCEPT ![z] = @ + speeds[z]]
    /\ left' = left \ {z}
    /\ pc' = z
    /\ UNCHANGED <<streams, shown, announced, read, picture, speeds, clocks, faults>>

\* Mutant of AnnounceZone: the speeds are forgotten before they are told.
ResetThenAnnounce(z) ==
    /\ pc = z
    /\ speeds' = [speeds EXCEPT ![z] = 0]
    /\ announced' = [announced EXCEPT ![z] = @ + speeds'[z]]
    /\ pc' = "update"
    /\ UNCHANGED <<streams, shown, stored, read, picture, left, clocks, faults>>

\* Mutant of AnnounceZone: the speeds are kept.
AnnounceAndKeep(z) ==
    /\ pc = z
    /\ announced' = [announced EXCEPT ![z] = @ + speeds[z]]
    /\ pc' = "update"
    /\ UNCHANGED <<streams, shown, stored, read, picture, speeds, left, clocks, faults>>

AnnounceZone(z) ==
    /\ pc = z
    /\ announced' = [announced EXCEPT ![z] = @ + speeds[z]]
    /\ speeds' = [speeds EXCEPT ![z] = 0]
    /\ pc' = "update"
    /\ UNCHANGED <<streams, shown, stored, read, picture, left, clocks, faults>>

\* A statement timeout or a lost connection costs one zone its speeds.
ZoneTimesOut(z) ==
    /\ pc = "update" /\ z \in left
    /\ speeds' = [speeds EXCEPT ![z] = 0]
    /\ left' = left \ {z}
    /\ UNCHANGED <<streams, written, read, picture, pc, clocks, faults>>

\* The commit succeeded, but its answer never came: as a timeout, or, when
\* the connection is gone and refuses the rollback, the end of the tick.
ZoneLosesAnswer(z) ==
    /\ pc = "update" /\ z \in left /\ faults < MaxFaults
    /\ faults' = faults + 1
    /\ stored' = [stored EXCEPT ![z] = @ + speeds[z]]
    /\ \/ speeds' = [speeds EXCEPT ![z] = 0] /\ left' = left \ {z} /\ pc' = pc
       \/ speeds' = speeds /\ left' = {} /\ pc' = "read"
    /\ UNCHANGED <<streams, shown, announced, read, picture, clocks>>

TrafficDone ==
    /\ pc = "update" /\ left = {}
    /\ pc' = "read"
    /\ UNCHANGED <<streams, written, read, picture, speeds, left, clocks, faults>>

\* Any other failure ends the tick; the next one begins a second later.
TickFails ==
    /\ pc \in {"publish", "commit", "update"}
    /\ pc' = "read" /\ left' = {}
    /\ UNCHANGED <<streams, written, read, picture, speeds, clocks, faults>>

\* The producer refuses the announcement of a zone that is stored (its queue
\* is full, the registry is away): the tick ends and the speeds are kept.
AnnounceFails(z) ==
    /\ pc = z /\ faults < MaxFaults
    /\ faults' = faults + 1
    /\ pc' = "read" /\ left' = {}
    /\ UNCHANGED <<streams, written, read, picture, speeds, clocks>>

\* The producer takes the announcement and cannot deliver it: the report of
\* that is counted and logged, and nothing is sent again.
AnnouncementLost(z) ==
    /\ pc = z /\ faults < MaxFaults
    /\ faults' = faults + 1
    /\ speeds' = [speeds EXCEPT ![z] = 0]
    /\ pc' = "update"
    /\ UNCHANGED <<streams, written, read, picture, left, clocks>>

\* The process dies and is started again: the picture is gone, and reading
\* goes on at the committed offsets.
Crash ==
    /\ faults < MaxFaults
    /\ faults' = faults + 1
    /\ read' = saved
    /\ riders' = [z \in Zones |-> {}] /\ waiting' = [t \in Trips |-> None]
    /\ free' = [z \in Zones |-> {}] /\ speeds' = [z \in Zones |-> 0]
    /\ pc' = "read" /\ left' = {}
    /\ scoreDue' = FALSE /\ trafficDue' = FALSE /\ rested' = TRUE
    /\ UNCHANGED <<streams, written, skipped>>

Step ==
    \/ \E k \in Keys : Read(k) \/ SkipNews(k)
    \/ StopReading \/ Publish \/ Commit \/ LookAtTraffic \/ TrafficDone
    \/ \E z \in Zones :
          \/ StoreZone(z) \/ ZoneTimesOut(z) \/ ZoneLosesAnswer(z)
          \/ AnnounceZone(z) \/ AnnounceFails(z) \/ AnnouncementLost(z)
    \/ TickFails

Surroundings ==
    \/ \E t \in Trips : TellTrip(t)
    \/ \E d \in Drivers : Report(d)
    \/ ScoreComesDue \/ TrafficComesDue

Next == Step \/ Surroundings \/ Crash
Spec == Init /\ [][Next]_vars

(***************************************************************************)
(* The loop goes on whatever fails; time passes; a message that waits is   *)
(* read, and a score that is published again and again succeeds again.     *)
(***************************************************************************)
Fairness ==
    /\ WF_vars(Step) /\ SF_vars(ScoreComesDue)
    /\ SF_vars(\E k \in Keys : Read(k)) /\ SF_vars(Publish)
FairSpec == Spec /\ Fairness

-----------------------------------------------------------------------------
\* Each variable's type.
TypeOK ==
    /\ news \in [Keys -> Seq([zone : Zones, status : Statuses \cup Moods])]
    /\ saved \in [Keys -> Nat] /\ read \in [Keys -> Nat]
    /\ shown \in [Zones -> SUBSET Trips]
    /\ stored \in [Zones -> Nat] /\ announced \in [Zones -> Nat]
    /\ speeds \in [Zones -> Nat]
    /\ riders \in [Zones -> SUBSET Trips] /\ waiting \in [Trips -> Zones \cup {None}]
    /\ free \in [Zones -> SUBSET Drivers]
    /\ skipped \subseteq Keys \X (Nat \ {0})
    /\ pc \in {"read", "publish", "commit", "traffic", "update"} \cup Zones
    /\ left \subseteq {z \in Zones : speeds[z] > 0}
    /\ scoreDue \in BOOLEAN /\ trafficDue \in BOOLEAN /\ rested \in BOOLEAN
    /\ faults \in 0..MaxFaults

\* The i-th message of a key was read, and is the last one that could be.
HeardLast(k, i) ==
    /\ i \in 1..read[k] /\ <<k, i>> \notin skipped
    /\ \A j \in 1..read[k] : j > i => <<k, j>> \in skipped

\* Whoever is counted as a waiting rider was waiting, in that zone, when last
\* heard of, and can be found again by waiting_zone: no restart and no replay
\* leaves a phantom behind, only a message that could not be decoded does.  As
\* long as the process lives, nobody it has heard of is missing.
WaitersAreCounted ==
    /\ \A t \in Trips, z \in Zones :
          t \in riders[z] =>
              /\ waiting[t] = z
              /\ \E i \in 1..read[t] : /\ HeardLast(t, i)
                                      /\ news[t][i].zone = z /\ news[t][i].status \in Waiting
    /\ faults = 0 => \A t \in Trips : \A i \in 1..read[t] :
          HeardLast(t, i) /\ news[t][i].status \in Waiting => t \in riders[news[t][i].zone]

\* A driver is counted as free in a zone only if the last report from that
\* zone that could be decoded said so.
FreeWereIdleThere ==
    \A z \in Zones : \A d \in free[z] :
        \E i \in 1..read[d] :
            /\ news[d][i] = [zone |-> z, status |-> "idle"]
            /\ \A j \in i..read[d] :
                  news[d][j].zone = z /\ <<d, j>> \notin skipped => news[d][j].status = "idle"

\* The reports of drivers with a passenger in a zone.
Reports == UNION {{d} \X DOMAIN news[d] : d \in Drivers}
Driven(z) == {r \in Reports : news[r[1]][r[2]] = [zone |-> z, status |-> "on_trip"]}

\* No speed moves a traffic factor twice, whatever zone times out or tick
\* fails, but for the reports that are read again after a death, those of a
\* commit whose answer was lost, and those that are kept when the zone's
\* announcement is refused: each of these counts at most once more.
SpeedsCountOnce ==
    \A z \in Zones :
        stored[z] + (IF pc = z THEN 0 ELSE speeds[z]) <= Cardinality(Driven(z)) * (faults + 1)

\* The history of traffic tells of no update the table has not had, and only a
\* death, a lost answer or a failed announcement makes it miss one.
HistoryMatchesTable ==
    \A z \in Zones :
        /\ announced[z] <= stored[z]
        /\ faults = 0 /\ pc # z => announced[z] = stored[z]

\* Whatever goes wrong with the scores, the traffic is updated.
TrafficGoesOn == trafficDue ~> ~trafficDue

\* A rider who is no longer waiting disappears, in the end, from the demand
\* that drivers and dispatch are shown, unless a message that said so could
\* not be decoded.
DemandIsServed ==
    \A t \in Trips :
        (\E i \in DOMAIN news[t] : news[t][i].status \in NotWaiting)
            ~> \/ \A z \in Zones : t \notin shown[z]
               \/ \E i \in DOMAIN news[t] :
                     <<t, i>> \in skipped /\ news[t][i].status \in NotWaiting

\* The last message of a key, as it was sent.
LastRead(k) == news[k][read[k]]

\* "Free: drivers seen reporting idle, removed as soon as they report anything
\* else": nobody is free in one zone who was last heard of as busy, or
\* elsewhere.
FreeAreFree ==
    \A z \in Zones : \A d \in free[z] : LastRead(d) = [zone |-> z, status |-> "idle"]

\* "Trips which have not been given a driver yet": nobody is counted as a
\* waiting rider whom dispatch has already matched.
WaitersHaveNoDriver ==
    \A z \in Zones : \A t \in riders[z] : LastRead(t).status = "requested"
=============================================================================
