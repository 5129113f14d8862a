------------------------------ MODULE History ------------------------------
(***************************************************************************)
(* The week of trips bootstrap invents, as a function of what it draws and *)
(* of the routes it gets.  A seed holds the draws: those each worker makes *)
(* for its own trips before any route is asked for, and those made         *)
(* afterwards, one after another, for the trips that got a route.  So a    *)
(* trip that loses its route gives its draws to the next one.              *)
(*                                                                         *)
(* Time is in seconds.  Prices, party sizes, tiers and the hours' weights  *)
(* are left out; of the five tables of the warehouse each row is kept as   *)
(* far as the properties tell rows apart.                                  *)
(***************************************************************************)
EXTENDS OfferChain, Routing

CONSTANTS
    ZoneOrder,       \* the zones in the order the grid lists them
    HistoryDays, TripsPerDay, Workers,
    PositionsPerTrip,
    Straight         \* per pair of corners, the metres between them

SeedMaxOffers == 5   \* SEED_MAX_OFFERS
DayLength == 86400
NoDriverAfter == 180

\* Reasons that need a car at the kerb.
PostArrivalReasons == {"rider_no_show", "wait_too_long"}

\* A whole chain of offers is over before a trip without a driver ends.
ASSUME HistoryAssumption ==
    /\ HistoryDays \in Nat /\ TripsPerDay \in Nat
    /\ Workers \in Nat \ {0} /\ PositionsPerTrip \in Nat
    /\ ZoneOrder \in Seq(Zones) /\ \A z \in Zones : \E i \in DOMAIN ZoneOrder : ZoneOrder[i] = z
    /\ \A i, j \in DOMAIN ZoneOrder : ZoneOrder[i] = ZoneOrder[j] => i = j
    /\ Straight \in [Corners \X Corners -> Nat]
    /\ SeedMaxOffers * OfferTimeout <= NoDriverAfter
    /\ None \notin Int /\ None \notin PostArrivalReasons

-----------------------------------------------------------------------------
(***************************************************************************)
(* What is decided before routing.                                         *)
(***************************************************************************)
\* OUTCOME_WEIGHTS
Outcomes == {"completed", "cancelled_by_passenger", "cancelled_by_driver", "no_driver_found"}

\* What is drawn for one trip before routing, and once it has its route: the
\* ranges given to rng, with the zones at one end of the scale or the other.
Draws == [outcome : Outcomes, driver : Drivers, second : 0..(DayLength - 1),
          pickup : {"low", "high"}, dropoff : {"low", "high"}, suffix : Nat]
Lucks == [asked : [1..SeedMaxOffers -> Drivers], answers : [1..SeedMaxOffers -> Answers],
          accept : 1..6, arrive : 90..720, reason : 1..3, late : 120..420, early : 30..300,
          board : 20..180, pace : 75..160]

\* _chunks: up to Workers contiguous pieces of 1..total, rounded up.
Chunks(total) ==
    LET workers == IF Workers < total THEN Workers ELSE total
        size == IF total = 0 THEN 1 ELSE (total + workers - 1) \div workers
    IN  [c \in 1..((total + size - 1) \div size) |->
            [first |-> (c - 1) * size + 1, last |-> IF c * size < total THEN c * size ELSE total]]

\* rng.choices over the servicable zones, at one end of the scale or the other.
PickZone(open, share) ==
    LET places == {i \in DOMAIN ZoneOrder : ZoneOrder[i] \in open}
    IN  ZoneOrder[IF share = "low" THEN Min(places) ELSE Max(places)]

\* _next_spec: everything about one trip that does not depend on routing.  An
\* id is the date of the request and a suffix from the worker's own draws.
NextSpec(draw, daysAgo, today, open, pools) ==
    LET pickup == PickZone(open, draw.pickup)
        dropoff == PickZone(open, draw.dropoff)
    IN  [id |-> <<today - daysAgo, daysAgo, draw.suffix>>,
         requested |-> (today - daysAgo) * DayLength + draw.second,
         from |-> pools[pickup], to |-> pools[dropoff],
         outcome |-> draw.outcome,
         driver |-> IF draw.outcome = "no_driver_found" THEN None ELSE draw.driver]

\* _spec_chunk: one worker's trips of one day.
SpecChunk(draws, chunk, daysAgo, today, open, pools) ==
    [i \in 1..(chunk.last - chunk.first + 1) |->
        NextSpec(draws[chunk.first + i - 1], daysAgo, today, open, pools)]

SpecsOfDay(draws, daysAgo, today, open, pools) ==
    FlattenSeq([c \in DOMAIN Chunks(TripsPerDay) |->
        SpecChunk(draws, Chunks(TripsPerDay)[c], daysAgo, today, open, pools)])

\* The oldest day first.
Specs(seed, today, open, pools) ==
    FlattenSeq([d \in 1..HistoryDays |->
        SpecsOfDay(seed.draws[HistoryDays + 1 - d], HistoryDays + 1 - d, today, open, pools)])

-----------------------------------------------------------------------------
(***************************************************************************)
(* What a trip adds to the week.                                           *)
(***************************************************************************)
Tables == <<"trip_events", "dispatch_offers", "driver_positions", "rider_positions",
            "hotspot_history">>

Nothing == [rows |-> <<>>, offers |-> <<>>, ratings |-> <<>>,
            trip_events |-> <<>>, dispatch_offers |-> <<>>, driver_positions |-> <<>>,
            rider_positions |-> <<>>, hotspot_history |-> <<>>]

Together(one, other) == [part \in DOMAIN Nothing |-> one[part] \o other[part]]

\* _trip_row, with what a trip that was never matched leaves empty.
TripRow(spec) ==
    [id |-> spec.id, driver |-> None, status |-> "no_driver_found", reason |-> None,
     requested |-> spec.requested, matched |-> None, accepted |-> None, arrived |-> None,
     started |-> None, ended |-> spec.requested + NoDriverAfter]

\* _event_row: the warehouse's copy of a trip, at the moment it ended.
EventRow(row) == [row |-> row, moment |-> row.ended]

\* _no_driver_rows, _finish_no_driver
FinishNoDriver(spec) ==
    [Nothing EXCEPT !.rows = <<TripRow(spec)>>, !.trip_events = <<EventRow(TripRow(spec))>>]

\* _fallback_route: the straight line, stretched, at a city's speed.
FallbackRoute(spec) ==
    LET metres == (Straight[<<spec.from, spec.to>>] * 14) \div 10
        seconds == (metres * 36) \div 260
    IN  [metres |-> metres, seconds |-> IF seconds > 120 THEN seconds ELSE 120]

(***************************************************************************)
(* _seed_offers: run_chain ends its chain at the moment it is given, and   *)
(* here it has to start there, so it is moved forward by its own length.   *)
(* The offer that was accepted goes to the driver the trip was drawn with, *)
(* whoever had refused before him, himself included.                       *)
(***************************************************************************)
Moved(spec, chain) ==
    LET shift == spec.requested - chain[1].offered
        moved(o) == [o EXCEPT !.driver = IF o.status = "accepted" THEN spec.driver ELSE @,
                              !.offered = @ + shift, !.expires = @ + shift,
                              !.responded = IF @ = None THEN None ELSE @ + shift]
    IN  [i \in DOMAIN chain |-> [trip |-> spec.id, offer |-> moved(chain[i])]]

SeedOffers(spec, luck) == Moved(spec, RunChain(luck.asked, luck.answers, spec.requested))

\* When the last offer of a chain was over.
EndOfChain(offers) == Max({EndOf(offers[i].offer) : i \in DOMAIN offers})

CancelReasons(outcome) ==
    IF outcome = "cancelled_by_driver"
    THEN <<"rider_no_show", "driver_too_far", "vehicle_issue">>
    ELSE <<"changed_mind", "found_alternative", "wait_too_long">>

\* _finish_trip, a trip cancelled after the match: the reason decides whether
\* the car had arrived.
Cancel(row, outcome, luck) ==
    LET reason == CancelReasons(outcome)[luck.reason]
        arrived == row.accepted + luck.arrive
    IN  IF reason \in PostArrivalReasons
        THEN [row EXCEPT !.status = outcome, !.reason = reason, !.arrived = arrived,
                         !.ended = arrived + luck.late]
        ELSE [row EXCEPT !.status = outcome, !.reason = reason,
                         !.ended = row.accepted + luck.early]

\* _finish_trip, a completed trip: how long it really took drifts from the
\* prediction, and is never under half a minute.
Complete(row, predicted, luck) ==
    LET arrived == row.accepted + luck.arrive
        started == arrived + luck.board
        drifted == (predicted * luck.pace) \div 100
    IN  [row EXCEPT !.status = "completed", !.arrived = arrived, !.started = started,
                    !.ended = started + (IF drifted > 30 THEN drifted ELSE 30)]

\* The driver's reports along the way, evenly spaced; every other one also
\* comes from the rider's phone.
Reports(row) ==
    LET gaps == IF PositionsPerTrip > 2 THEN PositionsPerTrip - 1 ELSE 1
        driven == row.ended - row.started
    IN  [step \in 1..PositionsPerTrip |->
            [trip |-> row.id, driver |-> row.driver, step |-> step,
             moment |-> row.started + (driven * (step - 1)) \div gaps]]

EveryOther(reports) == [i \in 1..((Len(reports) + 1) \div 2) |-> reports[2 * i - 1]]

OfferEvents(rows) == [i \in DOMAIN rows |-> [row |-> rows[i], moment |-> EndOf(rows[i].offer)]]

(***************************************************************************)
(* _finish_trip: a routed trip becomes rows.  A chain nobody took leaves   *)
(* its offers and a trip without a driver.                                 *)
(***************************************************************************)
Offered(chain) == [Nothing EXCEPT !.offers = chain, !.dispatch_offers = OfferEvents(chain)]

Matched(spec, chain, luck) ==
    [TripRow(spec) EXCEPT !.driver = spec.driver, !.matched = EndOfChain(chain),
                          !.accepted = EndOfChain(chain) + luck.accept]

WithTrip(part, row) == [part EXCEPT !.rows = <<row>>, !.trip_events = <<EventRow(row)>>]

WithRide(part, row) ==
    [part EXCEPT !.ratings = <<[trip |-> row.id, rater |-> "rider"],
                               [trip |-> row.id, rater |-> "driver"]>>,
                 !.driver_positions = Reports(row),
                 !.rider_positions = EveryOther(Reports(row))]

Completed(part, row) == WithRide(WithTrip(part, row), row)

FinishChain(spec, route, luck, chain) ==
    IF chain[Len(chain)].offer.status # "accepted"
      THEN Together(Offered(chain), FinishNoDriver(spec))
    ELSE IF spec.outcome = "completed"
      THEN Completed(Offered(chain), Complete(Matched(spec, chain, luck), route.seconds, luck))
      ELSE WithTrip(Offered(chain), Cancel(Matched(spec, chain, luck), spec.outcome, luck))

FinishTrip(spec, route, luck) == FinishChain(spec, route, luck, SeedOffers(spec, luck))

\* _hotspot_history: a score per hour and zone; one hour stands for the week.
HotspotHistory(today, open) ==
    [Nothing EXCEPT !.hotspot_history = FlattenSeq(
        [i \in DOMAIN ZoneOrder |-> IF ZoneOrder[i] \notin open THEN <<>>
                                    ELSE <<[zone |-> ZoneOrder[i], moment |-> today * DayLength]>>])]

(***************************************************************************)
(* generate.  failures are the routing queries that failed, per routed     *)
(* trip.  Without a map every trip gets the straight line; with one, a     *)
(* trip without a route is recorded and draws nothing.                     *)
(***************************************************************************)
Driven(specs, driven) ==
    FlattenSeq([i \in DOMAIN specs |->
        IF (specs[i].outcome # "no_driver_found") = driven THEN <<specs[i]>> ELSE <<>>])
ToRoute(specs) == Driven(specs, TRUE)
Undriven(specs) == Driven(specs, FALSE)

Routed(toRoute, traffic, mapAvailable, failures) ==
    [i \in DOMAIN toRoute |->
        IF mapAvailable THEN Route(TRUE, traffic, toRoute[i].from, toRoute[i].to, failures[i])
        ELSE FallbackRoute(toRoute[i])]

\* Whose turn it is to draw.
Turn(routed, i) == Cardinality({j \in 1..i : routed[j] # NoRoute})

Finished(toRoute, routed, luck) ==
    [i \in DOMAIN toRoute |->
        IF routed[i] = NoRoute THEN FinishNoDriver(toRoute[i])
        ELSE FinishTrip(toRoute[i], routed[i], luck[Turn(routed, i)])]

Parts(specs, luck, traffic, mapAvailable, failures) ==
    [i \in DOMAIN Undriven(specs) |-> FinishNoDriver(Undriven(specs)[i])]
    \o Finished(ToRoute(specs), Routed(ToRoute(specs), traffic, mapAvailable, failures), luck)

\* All of them together, list by list.
AllOf(parts) ==
    [list \in DOMAIN Nothing |-> FlattenSeq([i \in DOMAIN parts |-> parts[i][list]])]

Generate(seed, today, open, pools, traffic, mapAvailable, failures) ==
    Together(AllOf(Parts(Specs(seed, today, open, pools), seed.luck, traffic, mapAvailable,
                         failures)),
             HotspotHistory(today, open))

\* _duplicate_trip_ids, of main: an id minted twice.
HasDuplicates(week) ==
    \E i, j \in DOMAIN week.rows : i # j /\ week.rows[i].id = week.rows[j].id

-----------------------------------------------------------------------------
(***************************************************************************)
(* What a week has to look like, whatever was drawn.                       *)
(***************************************************************************)
OffersOf(rows, id) ==
    FlattenSeq([i \in DOMAIN rows |-> IF rows[i].trip = id THEN <<rows[i]>> ELSE <<>>])
Chain(week, id) ==
    LET mine == OffersOf(week.offers, id) IN [i \in DOMAIN mine |-> mine[i].offer]
Accepted(chain) == {i \in DOMAIN chain : chain[i].status = "accepted"}

\* The milestones of a trip in the order they have to come, None where it was
\* not reached.
Milestones(row) ==
    <<row.requested, row.matched, row.accepted, row.arrived, row.started, row.ended>>

InOrder(moments) ==
    \A i, j \in DOMAIN moments :
        i < j /\ moments[i] # None /\ moments[j] # None => moments[i] <= moments[j]

(***************************************************************************)
(* A trip whose parts fit together: its milestones in order, those its     *)
(* status calls for and no others, an offer chain laid without a gap from  *)
(* the request to the match, accepted by the trip's driver at its end (or  *)
(* by nobody, and then the trip has none), and reports only during the     *)
(* ride.  Who else was asked is free: here, unlike in dispatch, one driver *)
(* may be asked twice in a chain, take what he refused before, or be on    *)
(* two trips at a time.                                                    *)
(***************************************************************************)
TripIsConsistent(week, row, chain) ==
    LET end == IF chain = <<>> THEN row.requested ELSE EndOf(chain[Len(chain)])
    IN  /\ InOrder(Milestones(row))
        /\ WellLaid(chain, row.requested, end) /\ end <= row.ended
        /\ row.status = "no_driver_found" =>
              row.driver = None /\ row.matched = None /\ Accepted(chain) = {}
        /\ row.status # "no_driver_found" =>
              /\ row.driver # None /\ row.matched = end
              /\ Accepted(chain) # {} /\ chain[Len(chain)].driver = row.driver
        /\ row.status = "completed" <=> row.started # None
        /\ row.arrived # None <=> row.status = "completed" \/ row.reason \in PostArrivalReasons
        /\ \A i \in DOMAIN week.driver_positions :
              week.driver_positions[i].trip = row.id =>
                  /\ week.driver_positions[i].driver = row.driver
                  /\ week.driver_positions[i].moment \in row.started..row.ended

\* Every trip that was to be invented is there, once, and each fits together.
WellFormed(week) ==
    /\ Len(week.rows) = HistoryDays * TripsPerDay
    /\ \A i \in DOMAIN week.rows :
          TripIsConsistent(week, week.rows[i], Chain(week, week.rows[i].id))
=============================================================================
