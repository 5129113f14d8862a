---------------------------- MODULE TripLifecycle ----------------------------
(***************************************************************************)
(* What dispatch-service promises about one column, trips.status: a trip   *)
(* is asked for once, is answered once, and moves along the state machine  *)
(* of trips.py until it ends.  Nothing here says how.                      *)
(***************************************************************************)
EXTENDS TripStatus

CONSTANT Trips

VARIABLE status

Init == status = [t \in Trips |-> "no row"]

Ask(t) ==
    /\ status[t] = "no row"
    /\ status' = [status EXCEPT ![t] = "requested"]

Answer(t) ==
    /\ status[t] = "requested"
    /\ \E s \in {"matched", "no_driver_found"} : status' = [status EXCEPT ![t] = s]

Progress(t) ==
    /\ status[t] \in Stages
    /\ \E s \in NextStatuses(status[t]) : status' = [status EXCEPT ![t] = s]

Next == \E t \in Trips : Ask(t) \/ Answer(t) \/ Progress(t)

\* The safety half, and with it the promise that a trip asked for is answered
\* and an answered trip keeps moving.
Spec == Init /\ [][Next]_status
FairSpec == Spec /\ \A t \in Trips : WF_status(Answer(t)) /\ WF_status(Progress(t))
=============================================================================
