------------------------------ MODULE Archive ------------------------------
(***************************************************************************)
(* archiver-service beside dispatch: it deletes from PostgreSQL the trips  *)
(* that ended longer ago than the retention, children first, a batch per   *)
(* transaction, while dispatch still writes to the same three tables.      *)
(*                                                                         *)
(* Abstractions.  The retention (24 hours) is the set of trips that ended  *)
(* longer ago than it.  The transaction is READ COMMITTED: what it deletes *)
(* disappears when it commits, and each statement sees what dispatch has   *)
(* committed by then.                                                      *)
(***************************************************************************)
EXTENDS Dispatch, FiniteSets

CONSTANTS
    Seeded,       \* the trips of the seeded weeks: over, rated and old from the start
    BatchSize,    \* ARCHIVER_BATCH_SIZE
    MaxBatches    \* ARCHIVER_MAX_BATCHES_PER_TICK

ASSUME ArchiveAssumption ==
    Seeded \subseteq Trips /\ BatchSize \in Nat \ {0} /\ MaxBatches \in Nat \ {0}

VARIABLES
    old,          \* the trips whose ended_at is longer ago than the retention
    at,           \* where the archiver stands
    batch,        \* the trip_ids its transaction has selected
    ratingsGone,  \* the trips whose ratings the transaction has deleted
    offersGone,   \* how many offers of each trip it has deleted
    batches       \* batches pruned this tick

archiver == <<at, batch, ratingsGone, offersGone, batches>>
archiveVars == <<vars, old, archiver>>

NothingGone == [t \in Trips |-> 0]

ArchiveInit ==
    /\ \E d \in Drivers :
          /\ rows = [t \in Trips |-> IF t \in Seeded
                       THEN [status |-> "completed", driver |-> d, ended |-> TRUE] ELSE NoRow]
          /\ offers = [t \in Trips |-> IF t \in Seeded
                         THEN <<[sequence |-> 1, driver |-> d, status |-> "accepted"]>> ELSE <<>>]
    /\ rated = Seeded /\ old = Seeded
    /\ InitOutside
    /\ at = "waiting" /\ batch = {} /\ ratingsGone = {} /\ offersGone = NothingGone
    /\ batches = 0

-----------------------------------------------------------------------------
(***************************************************************************)
(* Time.  A day is longer than any trip, and than any message waits in a   *)
(* producer: while dispatch runs, a trip gets old only after dispatch is   *)
(* done with it.  A stack that was stopped can find anything old.          *)
(***************************************************************************)
DoneWith(t) ==
    /\ t \notin Moving \cup {cur}
    /\ \A i \in position + 1 .. Len(requests) : requests[i] # t

MayHaveBeenStopped == pc = "poll" /\ taken = 0 /\ position = committed /\ Moving = {}

Age(t) ==
    /\ rows[t].ended /\ t \notin old
    /\ outbox[t] = <<>>
    /\ DoneWith(t) \/ MayHaveBeenStopped
    /\ old' = old \cup {t}
    /\ UNCHANGED <<vars, archiver>>

-----------------------------------------------------------------------------
(***************************************************************************)
(* The archiver.                                                           *)
(***************************************************************************)
\* The next tick, or the start after an exception.
StartTick ==
    /\ at = "waiting"
    /\ at' = "select" /\ batches' = 0
    /\ UNCHANGED <<vars, old, batch, ratingsGone, offersGone>>

\* PRUNE_BATCH_SQL: LIMIT without an order takes any of them; an empty batch
\* ends the tick.
SelectFrom(candidates) ==
    /\ at = "select"
    /\ \E b \in SUBSET candidates :
          /\ Cardinality(b) = BatchSize \/ (b = candidates /\ Cardinality(b) < BatchSize)
          /\ batch' = b
          /\ at' = IF b = {} THEN "waiting" ELSE "ratings"
    /\ UNCHANGED <<vars, old, ratingsGone, offersGone, batches>>

\* Mutant of SelectBatch: the retention is forgotten.
SelectEnded == SelectFrom({t \in Trips : rows[t].ended})

SelectBatch == SelectFrom(old)

\* Mutant of DeleteRatings: the child table nobody thought of.
DeleteNoRatings ==
    /\ at = "ratings" /\ at' = "offers"
    /\ UNCHANGED <<vars, old, batch, ratingsGone, offersGone, batches>>

DeleteRatings ==
    /\ at = "ratings"
    /\ ratingsGone' = batch \cap rated
    /\ at' = "offers"
    /\ UNCHANGED <<vars, old, batch, offersGone, batches>>

DeleteOffers ==
    /\ at = "offers"
    /\ offersGone' = [t \in Trips |-> IF t \in batch THEN Len(offers[t]) ELSE 0]
    /\ at' = "trips"
    /\ UNCHANGED <<vars, old, batch, ratingsGone, batches>>

\* What the foreign keys of trip_ratings and dispatch_offers ask of the delete.
ChildrenGone(t) == (t \in rated => t \in ratingsGone) /\ offersGone[t] = Len(offers[t])

EndTransaction == batch' = {} /\ ratingsGone' = {} /\ offersGone' = NothingGone

\* DELETE_TRIPS and the commit.  The loop goes on while the batches come full.
DeleteTrips ==
    /\ at = "trips" /\ \A t \in batch : ChildrenGone(t)
    /\ rows' = [t \in Trips |-> IF t \in batch THEN NoRow ELSE rows[t]]
    /\ rated' = rated \ batch
    /\ offers' = [t \in Trips |-> IF t \in batch THEN <<>> ELSE offers[t]]
    /\ old' = old \ batch
    /\ batches' = batches + 1
    /\ at' = IF Cardinality(batch) < BatchSize \/ batches' = MaxBatches
             THEN "waiting" ELSE "select"
    /\ EndTransaction
    /\ UNCHANGED <<kafka, redis, memory, crashes>>

\* A child came in between: the exception ends the process, its container
\* starts it again, and the transaction never happened.
DeleteRefused ==
    /\ at = "trips" /\ \E t \in batch : ~ChildrenGone(t)
    /\ at' = "waiting"
    /\ EndTransaction
    /\ UNCHANGED <<vars, old, batches>>

Archiver == StartTick \/ SelectBatch \/ DeleteRatings \/ DeleteOffers \/ DeleteTrips
            \/ DeleteRefused

\* The archiver dies too: its transaction is rolled back.
ArchiverDies ==
    /\ at # "waiting" /\ crashes < MaxCrashes
    /\ crashes' = crashes + 1
    /\ at' = "waiting"
    /\ EndTransaction
    /\ UNCHANGED <<kafka, store, redis, memory, old, batches>>

-----------------------------------------------------------------------------
(***************************************************************************)
(* Dispatch, with rows that may be gone.                                   *)
(***************************************************************************)
\* The insert of a child: of an offer, or of the ratings.
Inserting == pc \in {"record", "rate"}

\* It waits for the transaction that is deleting the row it conflicts with.
Waiting ==
    \/ pc = "record" /\ cur \in batch /\ offersGone[cur] > 0
    \/ pc = "rate" /\ cur \in ratingsGone

\* A child of a trip that is gone: only UniqueViolation is caught, so the
\* exception flushes the producers and ends the process, which starts again.
InsertRefused ==
    /\ Inserting /\ rows[cur] = NoRow
    /\ topic' = [t \in Trips |-> topic[t] \o outbox[t]]
    /\ outbox' = [t \in Trips |-> <<>>]
    /\ offerSafe' = [t \in Trips |-> Len(offerLog[t])]
    /\ Restart
    /\ UNCHANGED <<requests, committed, offerLog, store, redis, crashes>>

\* No rider asks for a seeded trip, not even when its row is gone.
NewIdsOnly == \A i \in DOMAIN requests' : requests'[i] \notin Seeded

\* A status that ends the trip once more stamps ended_at once more.
EndedAnew ==
    IF pc = "write_none" \/ (pc = "write" /\ active[cur].status \in Finished) THEN {cur} ELSE {}

DispatchStep ==
    /\ \/ Step /\ ~(Inserting /\ (rows[cur] = NoRow \/ Waiting))
       \/ InsertRefused
    /\ old' = old \ EndedAnew

ArchiveNext ==
    \/ DispatchStep /\ UNCHANGED archiver
    \/ Surroundings /\ NewIdsOnly /\ UNCHANGED <<old, archiver>>
    \/ Crash /\ UNCHANGED <<old, archiver>>
    \/ \E t \in Trips : Age(t)
    \/ Archiver \/ ArchiverDies

(***************************************************************************)
(* The archiver's timer keeps ticking, whatever dispatch does.             *)
(***************************************************************************)
ArchiveSpec == ArchiveInit /\ [][ArchiveNext]_archiveVars /\ WF_archiveVars(Archiver)

-----------------------------------------------------------------------------
(***************************************************************************)
(* Properties.                                                             *)
(***************************************************************************)

\* "Prunes trips once they are safely archived elsewhere": as long as no
\* process has died, a trip that is deleted is over, dispatch is done with
\* it, and the last message the warehouse gets of it says how it ended (the
\* warehouse was loaded with the seeded weeks directly).
OnlyArchivedTripsGo ==
    [][\A t \in Trips :
          rows[t] # NoRow /\ rows'[t] = NoRow /\ crashes = 0
              => /\ rows[t].status \in Finished
                 /\ DoneWith(t)
                 /\ t \in Seeded \/ Latest(topic[t]) = rows[t].status]_archiveVars

\* A trip that is old goes in the end, unless it ends once more: no child
\* table is forgotten, a refused batch is tried again, and a backlog shrinks
\* tick by tick.
OldTripsGo == \A t \in Trips : t \in old ~> t \notin old
=============================================================================
