------------------------------- MODULE Riders -------------------------------
(***************************************************************************)
(* passenger-service and dispatch-service together.  Dispatch takes the    *)
(* row and the request of a trip for one step; here they are two, with a   *)
(* crash of passenger-service between them, and the rider is followed by   *)
(* what dispatch tells and keeps.                                          *)
(***************************************************************************)
EXTENDS Dispatch

CONSTANTS
    MaxDeaths,
    MaxFaults   \* bound: how often the two may die together

ASSUME RidersAssumption == MaxDeaths \in Nat /\ MaxFaults \in Nat

VARIABLES minted, asked, heard, travelling, stage, toReport, deaths

Pax == INSTANCE Passenger

paxOnly == <<minted, asked, heard, travelling, stage, toReport, deaths>>
riderVars == <<vars, paxOnly>>

RidersInit == Init /\ Pax!Init

\* A step of dispatch, or of what surrounds it.
DispatchStep == Step /\ UNCHANGED paxOnly
Passing ==
    /\ \/ \E t \in Trips : BecomeDue(t) \/ Deliver(t) \/ Expire(t)
       \/ \E d \in Drivers : ReportFree(d) \/ ReportBusy(d)
    /\ UNCHANGED paxOnly
DispatchDies == crashes + deaths < MaxFaults /\ Crash /\ UNCHANGED paxOnly

\* A step of passenger-service leaves alone what only dispatch writes.
dispatchOnly == <<committed, outbox, offerLog, offerSafe, offers, rated, geo, memory, crashes>>
PaxStep == Pax!Step /\ UNCHANGED dispatchOnly
Asking == (\E t \in Trips : Pax!DeliverRequest(t)) /\ UNCHANGED dispatchOnly
PaxDies == crashes + deaths < MaxFaults /\ Pax!Die /\ UNCHANGED dispatchOnly

RidersNext == DispatchStep \/ Passing \/ DispatchDies \/ PaxStep \/ Asking \/ PaxDies

RidersSpec == RidersInit /\ [][RidersNext]_riderVars

(***************************************************************************)
(* Both loops go on whatever their calls return, the producers deliver,    *)
(* time passes, and a live state has a lifetime.                           *)
(***************************************************************************)
RidersFairness ==
    /\ WF_riderVars(DispatchStep) /\ WF_riderVars(PaxStep) /\ WF_riderVars(Asking)
    /\ \A t \in Trips : /\ WF_riderVars(BecomeDue(t) /\ UNCHANGED paxOnly)
                        /\ WF_riderVars(Deliver(t) /\ UNCHANGED paxOnly)
                        /\ WF_riderVars(Expire(t) /\ UNCHANGED paxOnly)
FairRidersSpec == RidersSpec /\ RidersFairness

-----------------------------------------------------------------------------
\* Each variable's type, on the side of passenger-service.
PaxTypeOK == Pax!TypeOK

Sent == {requests[i] : i \in DOMAIN requests}

\* Dispatch as it is specified alone: a trip is there once its request is.
Alone == INSTANCE Dispatch WITH rows <- [t \in Trips |-> IF t \in Sent THEN rows[t] ELSE NoRow]

\* The row first, then the message: whatever dies, dispatch never hears of a
\* trip without a row.  It runs as it is specified alone, and only a
\* passenger-service that was started again asks for a trip a second time.
RowThenMessage ==
    /\ Alone!Init
    /\ [][Alone!Next \/ (deaths > 0 /\ \E t \in Trips : Alone!RequestAgain(t))]_(Alone!vars)

\* As long as passenger-service lives, no rider waits unheard, and every
\* request is passed: only a death between the row and the message leaves a
\* row in requested that nobody knows of.
EveryRiderIsHeard ==
    \A t \in Trips :
        rows[t] # NoRow ~> \/ \E i \in 1..committed : requests[i] = t
                           \/ deaths > 0 /\ t \notin Sent

\* A rider whose ride dispatch has begun and passenger-service has heard of is
\* followed until the end of the ride, as long as both live.
RidersAreFollowed ==
    \A t \in Trips :
        /\ deaths = 0 /\ heard[t] > 0 /\ topic[t][heard[t]].status = "in_progress"
        /\ active[t].status = "in_progress"
        => t \in travelling

\* Nobody is followed forever: a trip whose end was never told ends with its
\* live state.
FollowingEnds == \A t \in Trips : t \in travelling ~> t \notin travelling
=============================================================================
