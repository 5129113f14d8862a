---------------------------- MODULE DriverFleet -----------------------------
(***************************************************************************)
(* driver-service: every driver in one process, moved one tick at a time.  *)
(* A tick reads the trip news that waits, changes some shifts and moves    *)
(* everybody, publishes who is free, and records the shift changes.        *)
(*                                                                         *)
(* Abstractions.  A path is the trip and the leg it was laid for; routing  *)
(* may find one or none.  Positions, tiers, zones and the copy of the      *)
(* fleet in PostgreSQL are left out.  Reading may stop before the news has *)
(* ended; a consumer that starts has its partition at once.                *)
(***************************************************************************)
EXTENDS Naturals, Sequences

CONSTANTS
    Trips, Drivers, None,
    MaxShifts,    \* bound: shift changes
    MaxRestarts   \* bound: how often driver-service may die

VARIABLES
    topic,      \* Kafka trip_lifecycle, per trip: dispatch sends, this reads
    live,       \* Redis trip:{id}:active: dispatch writes, this reads
    geo,        \* Redis geo:drivers:available: both write
    read,       \* this consumer's offsets in topic
    fleet,      \* the drivers: what each does, for which trip, along which
                \* path; and, a history, whether routing found none for it
    clock,      \* where the tick stands
    started,    \* shifts this tick has started
    ended,      \* shifts it has ended
    open,       \* PostgreSQL driver_sessions: drivers with an open session
    shifts, restarts

-----------------------------------------------------------------------------
NoPath == [trip |-> None, leg |-> "none"]
Drift == [trip |-> None, leg |-> "drift"]
Leg(t, s) == [trip |-> t, leg |-> s]

Offline == [status |-> "offline", trip |-> None, path |-> NoPath, unrouted |-> FALSE]
Resting == [status |-> "idle", trip |-> None, path |-> NoPath, unrouted |-> FALSE]
Drifting == [status |-> "idle", trip |-> None, path |-> Drift, unrouted |-> FALSE]

Doing(s) == {d \in Drivers : fleet[d].status = s}

\* Mutant of StatusEffect: a car at the kerb counts as on its trip.
ArrivedIsOnTrip(s) ==
    CASE s \in {"matched", "accepted", "en_route_pickup"} -> "en_route_pickup"
      [] s \in {"arrived", "in_progress"} -> "on_trip"
      [] OTHER -> "idle"

\* Which trip status puts a driver into which state.
StatusEffect(s) ==
    CASE s \in {"matched", "accepted", "en_route_pickup", "arrived"} -> "en_route_pickup"
      [] s = "in_progress" -> "on_trip"
      [] OTHER -> "idle"

\* The process starts: some drivers are online at once, without a session,
\* and drifting.
Start ==
    /\ \E up \in SUBSET Drivers :
          fleet' = [d \in Drivers |-> IF d \in up THEN Drifting ELSE Offline]
    /\ read' = [t \in Trips |-> Len(topic[t])]
    /\ clock' = "news" /\ started' = {} /\ ended' = {}

Init ==
    /\ fleet \in [Drivers -> {Drifting, Offline}]
    /\ read = [t \in Trips |-> 0]
    /\ clock = "news" /\ started = {} /\ ended = {} /\ open = {}
    /\ shifts = 0 /\ restarts = 0

(***************************************************************************)
(* apply_trip_news, one message.  The end of any trip makes its driver     *)
(* idle; news of the leg a driver is on already keeps its path; otherwise  *)
(* the path comes from the live state, if that is still there, and from    *)
(* routing.  Where there is none, Driver.follow does nothing: the driver   *)
(* goes on along the old path.                                             *)
(***************************************************************************)
\* Mutant of Heard: only the end of its own trip makes a driver idle, and the
\* end of a trip it never heard of is its own.
HeardOnlyWhenBusy(f, t, s, found) ==
    IF StatusEffect(s) = "idle" /\ f.status # "on_trip" THEN f
    ELSE IF StatusEffect(s) = "idle" THEN Resting
    ELSE [status |-> StatusEffect(s), trip |-> t, path |-> Leg(t, StatusEffect(s)),
          unrouted |-> FALSE]

\* Mutant of Heard: any path will do on the leg a driver is on.
HeardKeepsPath(f, t, s, found) ==
    IF StatusEffect(s) = "idle" THEN Resting
    ELSE LET looks == f.path = NoPath /\ live[t].driver # None
         IN  [status |-> StatusEffect(s), trip |-> t,
              path |-> IF looks /\ found THEN Leg(t, StatusEffect(s)) ELSE f.path,
              unrouted |-> looks /\ ~found]

Heard(f, t, s, found) ==
    IF StatusEffect(s) = "idle" THEN Resting
    ELSE LET sameLeg == f.trip = t /\ f.path # NoPath /\ f.status = StatusEffect(s)
             looks == ~sameLeg /\ live[t].driver # None
         IN  [status |-> StatusEffect(s), trip |-> t,
              path |-> IF looks /\ found THEN Leg(t, StatusEffect(s)) ELSE f.path,
              unrouted |-> IF sameLeg THEN f.unrouted ELSE looks /\ ~found]

ReadNews(t) ==
    /\ clock = "news"
    /\ read[t] < Len(topic[t])
    /\ read' = [read EXCEPT ![t] = @ + 1]
    /\ \E found \in BOOLEAN :
          LET m == topic[t][read[t] + 1]
          IN  fleet' = [d \in Drivers |-> IF d = m.driver THEN Heard(fleet[d], t, m.status, found)
                                          ELSE fleet[d]]
    /\ UNCHANGED <<topic, live, geo, clock, started, ended, open, shifts, restarts>>

\* A driver on its way: to a trip's end of the leg, or drifting.
Underway(d) == IF fleet[d].status \in {"offline", "idle"} THEN Drifting ELSE fleet[d]

\* Some offline drivers start a shift, some idle ones end theirs; an idle
\* driver that got there drifts somewhere else, and everybody online moves
\* along: those in there reach the end of their path.
Tick ==
    /\ clock = "news"
    /\ \E starting \in SUBSET Doing("offline"), ending \in SUBSET Doing("idle"),
          there \in SUBSET Drivers :
          /\ started' = starting /\ ended' = ending
          /\ shifts' = IF starting \cup ending = {} THEN shifts ELSE shifts + 1
          /\ shifts' <= MaxShifts
          /\ fleet' = [d \in Drivers |->
                IF d \in ending THEN [fleet[d] EXCEPT !.status = "offline"]
                ELSE IF d \in Doing("offline") \ starting THEN fleet[d]
                ELSE IF d \in there THEN [Underway(d) EXCEPT !.path = NoPath]
                ELSE Underway(d)]
    /\ clock' = "publish"
    /\ UNCHANGED <<topic, live, geo, read, open, restarts>>

\* Free drivers go into the list dispatch searches, everybody else out of it.
Publish ==
    /\ clock = "publish"
    /\ geo' = Doing("idle")
    /\ clock' = "record"
    /\ UNCHANGED <<topic, live, read, fleet, started, ended, open, shifts, restarts>>

\* Mutant of RecordShifts: the shifts that end are only looked at when some
\* start.
RecordStarts ==
    /\ clock = "record"
    /\ open' = IF started = {} THEN open ELSE (open \cup started) \ ended
    /\ started' = {} /\ ended' = {} /\ clock' = "news"
    /\ UNCHANGED <<topic, live, geo, read, fleet, shifts, restarts>>

\* record_shift_changes, one transaction: a session that is open already stays
\* as it is, and an end without an open session is nothing.
RecordShifts ==
    /\ clock = "record"
    /\ open' = (open \cup started) \ ended
    /\ started' = {} /\ ended' = {}
    /\ clock' = "news"
    /\ UNCHANGED <<topic, live, geo, read, fleet, shifts, restarts>>

\* driver-service dies and is started again, and hears only new news.
Die ==
    /\ restarts < MaxRestarts
    /\ restarts' = restarts + 1
    /\ Start
    /\ UNCHANGED <<topic, live, geo, open, shifts>>

Step == (\E t \in Trips : ReadNews(t)) \/ Tick \/ Publish \/ RecordShifts

-----------------------------------------------------------------------------
Paths == {NoPath, Drift} \cup [trip : Trips, leg : {"en_route_pickup", "on_trip"}]

\* Each variable's type.
TypeOK ==
    /\ read \in [Trips -> Nat]
    /\ fleet \in [Drivers -> [status : {"offline", "idle", "en_route_pickup", "on_trip"},
                              trip : Trips \cup {None}, path : Paths,
                              unrouted : BOOLEAN]]
    /\ clock \in {"news", "publish", "record"}
    /\ started \subseteq Drivers /\ ended \subseteq Drivers /\ open \subseteq Drivers
    /\ shifts \in 0..MaxShifts /\ restarts \in 0..MaxRestarts

\* A driver who is offline has no open session, but for the moment until the
\* tick has recorded it.
OfflineClosesSession == Doing("offline") \cap open \subseteq ended
=============================================================================
