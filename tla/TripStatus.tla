----------------------------- MODULE TripStatus -----------------------------
(***************************************************************************)
(* The words every service uses for the state of a trip, and what may      *)
(* follow what: l-service-dispatch/dispatch_service/trips.py.              *)
(***************************************************************************)

\* What a trip ends as.
Finished == {"completed", "cancelled_by_passenger", "cancelled_by_driver",
             "no_driver_found"}

\* The stages of a trip that has a driver, in order.
Stages == {"matched", "accepted", "en_route_pickup", "arrived", "in_progress"}

Statuses == {"requested"} \cup Stages \cup Finished

(***************************************************************************)
(* next_status: the outcomes its random draws can produce for a trip whose *)
(* next_change_at has come.  It decides nothing for any other status.      *)
(***************************************************************************)
NextStatuses(s) ==
    CASE s = "matched"         -> {"cancelled_by_driver", "accepted"}
      [] s = "accepted"        -> {"en_route_pickup"}
      [] s = "en_route_pickup" -> {"cancelled_by_passenger", "arrived"}
      [] s = "arrived"         -> {"cancelled_by_driver", "cancelled_by_passenger",
                                   "in_progress"}
      [] s = "in_progress"     -> {"completed"}
      [] OTHER                 -> {}

\* The milestone times an ActiveTrip keeps: only these three statuses set one.
Milestones == {"accepted", "arrived", "in_progress"}

Stamp(stamps, s) == IF s \in Milestones THEN stamps \cup {s} ELSE stamps

Reasons == {"none", "driving", "at_kerb"}

\* Mutant of ReasonFor: a no-show may be reported before the car is there.
ReasonAnywhere(previous, s) ==
    IF s \in {"cancelled_by_driver", "cancelled_by_passenger"} THEN "at_kerb" ELSE "none"

(***************************************************************************)
(* The phase a cancellation reason speaks of.  "at_kerb" stands for        *)
(* rider_no_show and wait_too_long, "driving" for the other four reasons.  *)
(***************************************************************************)
ReasonFor(previous, s) ==
    IF s \notin {"cancelled_by_driver", "cancelled_by_passenger"} THEN "none"
    ELSE IF previous = "arrived" THEN "at_kerb"
    ELSE "driving"
=============================================================================
