----------------------------- MODULE Passenger ------------------------------
(***************************************************************************)
(* passenger-service: riders who ask for a ride, and whose phones report a *)
(* position while they are in the car.  A tick asks for some rides, reads  *)
(* the trip news that waits, and reports the position of every rider on    *)
(* the way, as far as the live state of the trip is still there.           *)
(*                                                                         *)
(* Abstractions.  Who asks, for what and where to is not told apart; a     *)
(* request that the process or its producer still holds is one thing, for  *)
(* a crash loses both; reading may stop before the news has ended.         *)
(***************************************************************************)
EXTENDS Naturals, Sequences

CONSTANTS
    Trips, None,
    MaxDeaths   \* bound: how often passenger-service may die

VARIABLES
    rows,        \* PostgreSQL trips: this inserts, dispatch updates
    requests,    \* Kafka trip_requests: this sends, dispatch reads
    topic,       \* Kafka trip_lifecycle, per trip: dispatch sends, this reads
    live,        \* Redis trip:{id}:active: dispatch writes, this reads
    minted,      \* the ids this life of the process has drawn
    asked,       \* trips asked for whose request has not been delivered
    heard,       \* this consumer's offsets in topic
    travelling,  \* the trips whose riders are followed
    stage,       \* where the tick stands
    toReport,    \* riders whose position this tick has still to report
    deaths

-----------------------------------------------------------------------------
NoRow == [status |-> "no row", driver |-> None, ended |-> FALSE]
Requested == [status |-> "requested", driver |-> None, ended |-> FALSE]
NoKey == [status |-> "no key", driver |-> None]

Travelling == {"in_progress"}
Finished == {"completed", "cancelled_by_passenger", "cancelled_by_driver", "no_driver_found"}

Init ==
    /\ minted = {} /\ asked = {} /\ heard = [t \in Trips |-> 0]
    /\ travelling = {} /\ stage = "ask" /\ toReport = {}
    /\ deaths = 0

\* Mutant of AskForRides: the requests go out although the insert has failed.
AskWithoutRows ==
    /\ stage = "ask"
    /\ \E new \in SUBSET (Trips \ minted) : asked' = asked \cup new /\ minted' = minted \cup new
    /\ stage' = "news"
    /\ UNCHANGED <<rows, requests, topic, live, heard, travelling, toReport, deaths>>

\* new_trip_id draws ids that this life has not drawn before.  The rows of
\* this tick's new trips are committed together, ON CONFLICT (trip_id) DO
\* NOTHING; the messages come after them, whether a row was new or not.
AskForRides ==
    /\ stage = "ask"
    /\ \E new \in SUBSET (Trips \ minted) :
          /\ rows' = [t \in Trips |-> IF t \in new /\ rows[t] = NoRow THEN Requested ELSE rows[t]]
          /\ asked' = asked \cup new /\ minted' = minted \cup new
    /\ stage' = "news"
    /\ UNCHANGED <<requests, topic, live, heard, travelling, toReport, deaths>>

\* The request producer's thread delivers; different trips in any order.
DeliverRequest(t) ==
    /\ t \in asked
    /\ requests' = Append(requests, t)
    /\ asked' = asked \ {t}
    /\ UNCHANGED <<rows, topic, live, minted, heard, travelling, stage, toReport, deaths>>

\* One message about a trip.
ReadNews(t) ==
    /\ stage = "news"
    /\ heard[t] < Len(topic[t])
    /\ heard' = [heard EXCEPT ![t] = @ + 1]
    /\ LET status == topic[t][heard[t] + 1].status
       IN  travelling' = CASE status \in Travelling -> travelling \cup {t}
                           [] status \in Finished -> travelling \ {t}
                           [] OTHER -> travelling
    /\ UNCHANGED <<rows, requests, topic, live, minted, asked, stage, toReport, deaths>>

\* Nothing more, or 500 messages: the riders to report are those of now.
StopReading ==
    /\ stage = "news"
    /\ stage' = "report" /\ toReport' = travelling
    /\ UNCHANGED <<rows, requests, topic, live, minted, asked, heard, travelling, deaths>>

\* Mutant of ReportPosition: a trip without a live state is only skipped.
SkipPosition(t) ==
    /\ stage = "report" /\ t \in toReport
    /\ toReport' = toReport \ {t}
    /\ UNCHANGED <<rows, requests, topic, live, minted, asked, heard, travelling, stage, deaths>>

\* A rider is followed as long as the trip has a live state, which holds the
\* position that is reported.
ReportPosition(t) ==
    /\ stage = "report" /\ t \in toReport
    /\ travelling' = IF live[t] = NoKey THEN travelling \ {t} ELSE travelling
    /\ toReport' = toReport \ {t}
    /\ UNCHANGED <<rows, requests, topic, live, minted, asked, heard, stage, deaths>>

EndTick ==
    /\ stage = "report" /\ toReport = {}
    /\ stage' = "ask"
    /\ UNCHANGED <<rows, requests, topic, live, minted, asked, heard, travelling, toReport, deaths>>

\* The process dies and is started again: it never commits an offset, so it
\* hears only new news and follows nobody; and its generator starts from
\* RANDOM_SEED once more, so on the same day it may draw the same ids.
Die ==
    /\ deaths < MaxDeaths
    /\ deaths' = deaths + 1
    /\ minted' = {} /\ asked' = {} /\ heard' = [t \in Trips |-> Len(topic[t])]
    /\ travelling' = {} /\ stage' = "ask" /\ toReport' = {}
    /\ UNCHANGED <<rows, requests, topic, live>>

Step ==
    \/ AskForRides \/ StopReading \/ EndTick
    \/ \E t \in Trips : ReadNews(t) \/ ReportPosition(t)

-----------------------------------------------------------------------------
\* Each variable's type; the riders still to report are followed, and the
\* first life of the process delivers a request once.
TypeOK ==
    /\ asked \subseteq minted /\ minted \subseteq Trips
    /\ deaths = 0 => \A i \in DOMAIN requests : requests[i] \notin asked
    /\ heard \in [Trips -> Nat] /\ travelling \subseteq Trips
    /\ stage \in {"ask", "news", "report"}
    /\ toReport \subseteq travelling
    /\ deaths \in 0..MaxDeaths
=============================================================================
