---------------------------- MODULE Marketplace -----------------------------
(***************************************************************************)
(* dispatch-service and driver-service together.  What Dispatch leaves to  *)
(* its surroundings (who is reported free, and when) is here what the      *)
(* driver-service does, and both run at their own pace: they share the     *)
(* free list, the live trip states and the lifecycle topic.  Here only     *)
(* driver-service may die: dispatch's crashes are the subject of Dispatch. *)
(***************************************************************************)
EXTENDS Dispatch

CONSTANTS MaxShifts, MaxRestarts

ASSUME MarketAssumption == MaxShifts \in Nat /\ MaxRestarts \in Nat

VARIABLES read, fleet, clock, started, ended, open, shifts, restarts

Fleet == INSTANCE DriverFleet

fleetOnly == <<read, fleet, clock, started, ended, open, shifts, restarts>>
marketVars == <<vars, fleetOnly>>

MarketInit == Init /\ Fleet!Init

\* A step of dispatch, or of time and Kafka around it.
DispatchStep == Step /\ UNCHANGED fleetOnly
Passing == (\E t \in Trips : Request(t) \/ BecomeDue(t) \/ Deliver(t) \/ Expire(t))
           /\ UNCHANGED fleetOnly

\* A step of driver-service leaves alone what only dispatch writes.
dispatchOnly == <<requests, committed, outbox, offerLog, offerSafe, store, memory, crashes>>
FleetStep == Fleet!Step /\ UNCHANGED dispatchOnly
FleetDies == Fleet!Die /\ UNCHANGED dispatchOnly

MarketNext == DispatchStep \/ Passing \/ FleetStep \/ FleetDies

MarketSpec == MarketInit /\ [][MarketNext]_marketVars

MarketFairness ==
    /\ WF_marketVars(DispatchStep)
    /\ \A t \in Trips : /\ WF_marketVars(BecomeDue(t) /\ UNCHANGED fleetOnly)
                        /\ WF_marketVars(Deliver(t) /\ UNCHANGED fleetOnly)
                        /\ SF_marketVars(Fleet!ReadNews(t) /\ UNCHANGED dispatchOnly)
    /\ WF_marketVars(FleetStep)
FairMarketSpec == MarketSpec /\ MarketFairness

-----------------------------------------------------------------------------
(***************************************************************************)
(* Properties of the two together.                                         *)
(***************************************************************************)
\* Each variable's type, on the side of driver-service.
FleetTypeOK == Fleet!TypeOK

DrivenBy(d) == {t \in Moving : active[t].driver = d}

\* No driver is left on a trip that is over with nobody to say so: the trip
\* is still being moved along, or its end is in a message not read yet.
NobodyStranded ==
    \A d \in Drivers : fleet[d].trip # None =>
        LET t == fleet[d].trip
        IN  \/ t \in DrivenBy(d) \/ (t = cur /\ Winner(chain) = d)
            \/ read[t] < Len(Told(t))

\* A driver on a trip that dispatch still moves follows a path laid for that
\* trip and that leg, or has reached its end: what it needed was in Redis
\* when the news came.  Only a leg routing has no path for leaves it on the
\* path it was on.
PathIsForTrip ==
    \A d \in Drivers : fleet[d].trip \in DrivenBy(d) /\ ~fleet[d].unrouted =>
        fleet[d].path \in {Fleet!NoPath, Fleet!Leg(fleet[d].trip, fleet[d].status)}

\* A driver is on a trip (the part of it that is charged) only when dispatch
\* has said that the ride has begun.
OnTripMeansStarted ==
    \A d \in Drivers : fleet[d].status = "on_trip" =>
        LET t == fleet[d].trip
        IN  \E i \in 1..read[t] : topic[t][i].status = "in_progress"

\* Every driver who gets a trip becomes free again.
DriversComeBack ==
    \A d \in Drivers : fleet[d].trip # None ~> fleet[d].trip = None

\* As long as driver-service has not died, a driver who is offline has no open
\* session.
OfflineClosesSession == restarts = 0 => Fleet!OfflineClosesSession

\* "A busy driver can never be offered a second trip": nobody drives two
\* trips at once.
OneTripPerDriver == \A d \in Drivers : \A t, u \in DrivenBy(d) : t = u
=============================================================================
