# Hailpath, specified

TLA+ specifications, model checks and proofs for **meanul-hailpath**, the
simulated ride-hailing platform of this repository. Paths below are relative to
`src/meanul-hailpath/`.

## 1. The system

A dozen small Python processes share five stores: PostgreSQL (the record),
Redis (the live state), Kafka (everything that happens), ClickHouse (the
warehouse) and Debezium's change stream from PostgreSQL back into Kafka. Nearly
every process is one loop in one thread that reads Kafka, talks to a store or
two and writes Kafka. The concurrency is between the processes, and between a
loop and the background thread of its Kafka producer.

| Component | State it keeps | Operations | Talks to |
|---|---|---|---|
| **passenger-service** (`k-`) | trips it follows | insert trips and send requests; follow trip news; report rider positions | trips (PG), `trip_requests`, `trip_lifecycle`, live trip state |
| **dispatch-service** (`l-`) | trips being moved along, consumer position | take a request, search, offer chain, match, move trips through their stages, cancel, complete, rate | trips / offers / ratings (PG), free list and live state (Redis), `trip_requests` in, `trip_lifecycle` and `dispatch_offers` out |
| **driver-service** (`j-`) | the whole fleet: status, trip, path | hear trip news; change shifts; move; publish the free list; record sessions | `trip_lifecycle` in, free list, live state, `driver_location` out, `driver_sessions` (PG) |
| **city-service** (`m-`) | waiting riders, free drivers, speeds per zone | count; publish scores and surge; update traffic costs | `driver_location`, `trip_lifecycle` in, hotspots (Redis, Kafka), `segment_traffic` (PG) |
| **cache-updater** (`i-`) | pipelines, pending counts | apply each row change to its Redis key, commit | `cdc.*` in, Redis |
| **clickhouse-sink** (`n-`) | waiting rows, recent event ids | collect, enrich, insert per table, commit | seven topics in, ClickHouse, hotspots (Redis) |
| **archiver-service** (`o-`) | none | delete trips that ended long ago, children first | PG |
| **h-bootstrap** (`h-`) | marker, migration table | database, migrations, seed, warehouse, marker | PG, ClickHouse, Redis |
| **hailpath_common** (`z-lib/`) | pools, producers, consumers | Kafka, stores, offers, routing, lifecycle helpers | |
| infrastructure (`a-` to `g-`), quality bars (`z-config/`) | | configuration, dashboards, checks on the warehouse | |

What is hard about it, and hence what the properties are for:

* **Four copies of a trip.** dispatch keeps a trip's status in its memory, in
  Redis, in a Kafka message and in a row, and changes them one at a time.
* **Crashes between any two calls.** Nothing spans two stores in a transaction.
  The design answer everywhere is "commit the Kafka offset last and be safe to
  replay"; each service has to make that true in its own way.
* **Two writers of one list.** driver-service publishes who is free from what it
  has heard; dispatch takes drivers out of the same list when it matches them.
* **News is late.** Every reader acts on messages about a state that has moved
  on and looks up a live state that may be ahead, or gone.
* **Failures half way.** One pipeline or one insert of several fails, and a
  `finally` clause runs all the same.
* **Silence.** Timers are only looked at when messages arrive.

What makes each component correct: dispatch answers every request once and
moves each trip along the state machine until it ends, never forgets a request,
never sends two cars; driver-service never leaves a driver on a trip that is over;
the sink stores every message it can read at least once; the cache ends up equal to the
table; passenger-service leaves no rider without a request; the city's counters
are those of the messages; bootstrap releases the services only when all
is there. The hazards, each at its line, are in `PROJECT.json`.

## 2. The modules

| Module | Models | Lines of thought |
|---|---|---|
| `TripStatus` | the vocabulary of `trips.py` | statuses, `NextStatuses`, milestones, cancellation phases |
| `TripLifecycle` | *abstract*: the promise about `trips.status` | asked once, answered once, along the state machine, and on |
| `Dispatch` | `l-service-dispatch` and its surroundings | one step per effect another process can see, a crash between any two |
| `DispatchProofs` | | theorems about `Dispatch`: whatever dies, while its process lives, and about one death |
| `DriverFleet` | `j-service-driver` | a tick in four steps; a leg without a path; a restart |
| `Marketplace` | dispatch and driver-service composed | shared free list, live state and lifecycle topic |
| `MarketplaceProofs` | | theorems about `Marketplace` |
| `AtLeastOnce` | *abstract*: a store of Kafka messages that commits last | produce, keep, commit |
| `ClickhouseSink` | `n-service-clickhouse-sink` | the loop, `SeenEvents`, `Batches`, the `finally` clause, eight kinds of fault |
| `ClickhouseSinkProofs` | | theorems about `ClickhouseSink`, refinement included |
| `CacheUpdater` | `i-service-cache-updater` | pipelines and their counts, tombstones, faults |
| `CacheUpdaterProofs` | | theorems about `CacheUpdater` |
| `Passenger` | `k-service-passenger` | row, request, trip news, positions; a death between any two |
| `Riders` | dispatch and passenger-service composed | shared rows, request and lifecycle topics, live state |
| `RidersProofs` | | theorems about `Riders`, refinement included |
| `CityDemand` | `m-service-city` | the picture of each zone, two clocks, failing halves and zones, a restart |
| `CityDemandProofs` | | theorems about `CityDemand` |
| `Archive` | dispatch and archiver-service composed | one transaction per batch, foreign keys, rows that go while dispatch writes |
| `ArchiveProofs` | | theorems about `Archive` |
| `OfferChain` | `hailpath_common/offers.py`, `run_chain` with its clock | pure operators; `WellLaid` is the reference |
| `Routing` | `hailpath_common/routing.py` | what an empty answer, a retry and a failed query do; the map is constants |
| `History` | `h-bootstrap/bootstrap/history.py` | the invented week as a function of its draws; `WellFormed` is the reference |
| `Bootstrap` | `h-bootstrap`, the graph restore and `make bootstrap` | one step per commit, a death between any two, run again from the top |
| `BootstrapProofs` | | theorems about `Bootstrap` |
| `MCDispatch`, `MCMarketplace`, `MCRiders`, `MCClickhouseSink`, `MCCacheUpdater`, `MCCityDemand`, `MCArchive`, `MCBootstrap` | | what the configurations instantiate, with symmetry sets where they are sound; `MCBootstrap` also holds the small city and its weeks |

An operator whose comment begins with *Mutant of* is not part of a
specification: it is a plausible bug in one definition, kept to show
that a property can fail.

### Dispatch

The variables are grouped by where the state lives: Kafka (`requests`,
`committed`, `topic`, the producer's `outbox`, `offerLog`), PostgreSQL (`rows`,
`offers`, `rated`), Redis (`live`, `geo`) and the process's memory, which a
crash wipes. `pc` names the statement the loop is about to execute:

```
poll -> check -> search -> record -> tell_offers -> assign -> hide -> keep_match
                   |                      |             -> tell_match -> commit -> poll
                   +---> tell_none <------+ -> write_none -> commit
poll -> move -> keep -> tell -> write -> move | rate -> forget -> move ... -> poll
```

`assign` in `__main__.py` is the first line, `_no_driver` the second, the moving
part of the tick the third. Two refusals, `declined` and `expired`, are one
here: nothing in dispatch tells them apart. Times are the set of trips that are
due. The lifecycle producer's messages outlive the process when its thread
delivers them and are lost, a suffix per key, when it does not; `offerSafe` is
the same for offer messages.

### DriverFleet and Marketplace

A tick is: hear news (`ReadNews`, once per message), change shifts and move
(`Tick`), write the free list (`Publish`), write the sessions (`RecordShifts`).
These are steps of their own because dispatch runs between them. A path is the
trip and leg it was laid for, which is what one can get wrong about it. Routing may
find none (`Heard` with `found = FALSE`): `follow([])` changes nothing, the driver
keeps the path of the leg before, and later messages of this leg look again only
once that path was driven to its end. `unrouted` remembers it, for `PathIsForTrip`
excepts such a leg by name.
`Marketplace` EXTENDS `Dispatch`, instantiates `DriverFleet` over the same
`topic`, `live` and `geo`, and replaces the free-list actions of
`Dispatch!Surroundings` by what driver-service really does.

### Passenger and Riders

`Dispatch!Request` puts the row and the request of a trip into the world in one
step. `Passenger` takes it apart: `AskForRides` commits the rows, the producer's
thread delivers the requests one by one (`DeliverRequest`), and `Die` falls
anywhere in between. That this is still the world `Dispatch` is specified for is
checked as a refinement: `RowThenMessage` is `Dispatch!Spec` with a row that
nobody has been told of taken as no row. One step comes on top, and only after a death: the generator
of trip ids starts from `RANDOM_SEED` again (`minted`), so a trip may be asked for a second time, and
`Dispatch!RequestAgain` puts its request into the queue once more. A tick then reads news and reports
positions, one rider per step, because dispatch deletes the live state, and the
state expires, in between. The consumer commits nothing, so a restarted process
hears only what is new.

### CityDemand

The picture (`riders`, `waiting`, `free`, `speeds`) is a function of the messages
read, so the properties compare it with the messages themselves. `pc` is the
statement the tick is at; while a zone is committed and not yet announced it is
that zone. A failure of Redis or Kafka is `TickFails`, the `except` clause of the
loop; `ZoneTimesOut` and `ZoneLosesAnswer` are the `except` clause of
`_update_traffic`. Outside that clause, a `send` that raises after the zone's commit
is `AnnounceFails` (the tick ends, the samples stay), and one whose delivery fails
in the background is `AnnouncementLost` (the history misses the update).
`SkipNews` is a `poll_once` that raises because a message cannot be decoded: the
offset has moved, so the next tick goes on behind it. Which messages were lost in
this way is kept in the history variable `skipped`, and the properties about the
picture speak of the last message that *could* be decoded (`HeardLast`).

### ClickhouseSink and AtLeastOnce

A row is the offset of its message. The refinement maps `kept` to the messages
found in the tables; `Insert` is `Keep`, a message whose handling raises is `Fail`, `Commit` is
`Commit`, and what only moves rows or the position about stutters. `Raise` is what an exception does: the first one runs the
`finally` clause (flush and commit once more), the second ends the process. A
message whose own handling raises, because it does not decode (`DecodeFails`) or because Redis
fails while it is enriched (`LookupFails`), has moved the position before it
does, so the `finally` clause commits past it. The history variable `raised` keeps these
messages, and they are the `failed` of `AtLeastOnce`: `Keep`, `Fail` and `Retry`
(read again from the committed offset) say what may become of a message, and
`Commit` passes only what is kept or has failed.

### CacheUpdater

A Redis key holds the number of the change it comes from, so "the cache is
right" is a comparison of two numbers. `pipe` is what a pipeline holds,
`pending` what the service believes it holds: the difference is the point. As in the
sink a message that does not decode has moved the position (`DecodeFails`, `raised`);
here the `finally` clause commits past it only if something else is pending.

### Archive

`Archive` EXTENDS `Dispatch` and adds the one other process that deletes its
rows. The 24 hours of retention are the set `old`: `Age` puts a trip into it once
it has ended and dispatch is done with it (no trip and no message waits that
long while dispatch runs) or when the stack may have been stopped for a day.
The transaction is READ COMMITTED: `SelectBatch`, `DeleteRatings` and
`DeleteOffers` remember what they saw, `DeleteTrips` commits, and between them
dispatch goes on. The foreign keys are guards: a child that came in between is
`DeleteRefused`; a child of a trip that is gone is `InsertRefused`, which ends
dispatch; an UPDATE of a trip that is gone changes nothing (`Dispatch!Updated`).
One trip is there from the start, completed and old, as after bootstrap.

### Bootstrap, History, Routing and OfferChain

`make bootstrap` is the schema phase of the container, the one-shot that restores
the street graph, and the seed phase (`phase`, `pc`), each only if the one
before ended well. Every step is one commit, so batches are of one row:

```
off -> database -> schema -> marker -> migrate ... -> restore -> restore_ways -> restore_corners
    -> database -> schema -> marker -> migrate -> graph -> zones -> close -> people -> calibrate
    -> traffic -> generate -> duplicates -> trips ... -> offers ... -> ratings ...
    -> warehouse -> load ... -> marker_set -> off
```

`Die` and a step that raises go to `off` and forget the memory (`grid`, `pools`,
`week`, `done`); PostgreSQL, ClickHouse and Redis keep what was committed, and
`Make` starts from the top, with or without `FORCE_RESEED`. `service` is any
service: it waits for the marker. The generators are seeded from the settings,
so their draws (`Draws` before routing, `Lucks` after it, in the ranges given to
`rng`) are a constant of the behaviour: `seed` is chosen at the start
from `Seeds`. What may change between two runs is the date, the traffic and which
queries fail (`lost`). `SeedTraffic` adds a sample the database draws (`ORDER BY random()`,
unseeded) to the `traffic` of the runs before, and the ways and times of `Routing` are a
function of it; city-service, which changes the same table once the services run, is not
part of this module. Every routing call has three attempts, and one that fails all of
them answers like one that found nothing (`QueryWithRetry`).

`History!Generate` is the whole week as a function of draws, date, zones, pools,
traffic and failures. Draws are used in order by the trips that got a route, so a route
that is lost gives its draws to the next trip; that is why a lost query can
change trips that have nothing to do with it. `_seed_offers` lays its chain out
with `OfferChain!RunChain`, the function dispatch runs live, and moves it to
start where the request was made. `WellFormed` says which parts of a week must fit each
other without saying how it is made, and `WellLaid` the same of a chain. It is weaker than
what dispatch keeps (`Dispatch!Chains`): who refused is not its matter, for the generator asks drivers twice (section 3).

## 3. The runs

Passing runs:

| Run | Instance | Shows |
|---|---|---|
| `dispatch_calm` | 1 trip, 2 drivers, 2 offers, no crash | table and topic tell one story when nothing is in flight; a committed request was answered; quality bar Q8, and that what is published is on record; `trips.status` implements `TripLifecycle`, with liveness |
| `dispatch_crash` | 2 trips, 1 driver, a crash anywhere | no committed request without a trace; the four copies agree whenever a tick starts; a message never comes before its live state; Q4, Q5, Q6 |
| `market` | 1 trip, 1 driver, 2 shift changes, a restart of driver-service | nobody stranded, paths follow the leg but for one routing found no path for, the charged part follows dispatch, sessions follow shifts, drivers come back |
| `riders` | 1 trip, 1 driver, one of the services dies once | dispatch hears of no trip without a row and is the dispatch specified alone, but for requests a restarted passenger-service repeats; as long as passenger-service lives every request is passed, whatever dispatch does; riders are followed for their ride and not for ever |
| `city` | 2 zones, 1 trip, 1 driver, 3 messages, one of which may not decode, and a crash, lost answer or failed announcement | waiting riders and free drivers are those of the last messages heard; only those three make a speed count twice or part table and history; failing scores do not stop the traffic, nor the other way round |
| `archive` | 1 trip and a seeded one, 1 driver, either process dies once, batches of 2 | without a death only trips whose end is published are deleted; an old trip is deleted in the end, whatever dispatch inserts in between |
| `bootstrap` | 3 zones, 3 drivers, 4 weeks of two trips, one street whose traffic may be sampled, 2 migrations, a death, a lost query, a new day | services are released into a prepared city; migrations land once; nothing in the warehouse twice; each trip of the week fits its offers, milestones and reports; the two stores agree but for when a ride ended; cars stand on roads; it gets to its end |
| `sink_faults` | 2 tables, trip_requests, 2 faults | refinement of `AtLeastOnce`: no message is lost but those whose own handling raised, and every other one arrives |
| `cache_crash` | 2 rows in 2 databases, 3 faults | what is committed is applied, or did not decode; replay converges; the batch stays near its limit |

Runs that end in a violation, each of something the repository says of itself
(quoted in `PROJECT.json` under `findings`):

| Run | What happens |
|---|---|
| `dispatch_stuck` | a crash after the offers are stored and before the match: the restart skips the request, the rider waits for ever |
| `market_double` | a stale free list offers a busy driver a second trip |
| `cache_lost` | a refused pipeline is emptied, then committed |

Other disagreements the models show, with the way to see them: change one line of a
cfg, or leave out the condition that is named.

* `ClickhouseSink!NothingLost` fails without `raised`: a message that does not decode,
  or whose row Redis fails to enrich, has moved the position when it raises, and the
  `finally` clause commits an offset whose message is nowhere
  (`n-service-clickhouse-sink/clickhouse_sink/__main__.py:131` against its
  lines 15-18, and 105-106: "anything that reached Kafka belongs in ClickHouse").
* `CacheUpdater!CommittedIsApplied` fails without `raised` in the same way
  (`i-service-cache-updater/cache_updater/__main__.py:157-159` against its lines
  19-21: "committing first would lose it, which is not").
* A driver who is to drive a leg for which no path is found goes on along the path of
  the leg before, or drifts on: `PathIsForTrip` fails without `unrouted`. `routing.py:310-311` says
  "`Driver.follow([])` is a no-op, so the car sits and retries"; it does neither while an old path is there
  (`j-service-driver/driver_service/__main__.py:225-230`, `fleet.py:72-73`).
* `ChainHasNoGaps`, `PublishedIsRecorded` and `OneStory` fail under `Spec` with
  `MaxCrashes = 1`: a replayed request publishes a second chain from 1; an
  acceptance at a sequence that already holds a refusal is dropped by
  `ON CONFLICT DO NOTHING` and published all the same; a crash between telling a
  status and writing it leaves topic and table apart, for active trips are not
  reloaded. `z-config/quality.sql:81-82` and `trips.py:5` say otherwise.
* `UnmatchedTookNoOffer` fails under `Spec` with `MaxCrashes = 1`: only a stored
  acceptance stops a replay, so a request answered with `no_driver_found` is
  searched again and publishes an acceptance. Until the match and what follows
  are delivered, `no_driver_found` is the trip's last word; a second death before
  that (`MaxCrashes = 2`) makes it final (`z-config/quality.sql:88`).
* `OneAcceptTold` fails with `MaxCrashes = 2` and `MaxOffers = 2`: the dropped
  acceptance does not stop the next replay from accepting again
  (`z-config/quality.sql:75`).
* `DriverFleet!OfflineClosesSession` without the condition on `restarts` fails
  in `market.cfg`: sessions stay open over a restart, and the next shift's
  session is dropped by `ON CONFLICT`. Drivers online from the start have no
  session at all (`h-bootstrap/migrations/015_dispatch_offers.sql:17-19`).
* `NoDuplicates` fails under the sink's `Spec`: the memory that would refuse a
  replay dies with the crash that causes it (`seen.py:11-15`). Under `RebalanceSpec`,
  where only rebalances happen, it is proved (section 4).
* `FreeAreFree` fails in `city.cfg`: a driver who changes zone, or goes offline,
  stays free in the zone left behind. `m-service-city/README.md` says "removed as
  soon as they report anything else", and `counters.py:29` "recently".
* `WaitersHaveNoDriver` fails in `city.cfg`: "requested" is never announced on
  `trip_lifecycle`, so the riders counted as waiting are the ones just matched
  (`counters.py:26-27`: "which have not been given a driver yet").
* A zone whose announcement cannot be sent keeps its samples after its commit and
  stores them again, and an announcement whose delivery fails is never sent again:
  `SpeedsCountOnce` and `HistoryMatchesTable` hold but for such failures, which
  they count as `faults`. The comment at
  `m-service-city/city_service/__main__.py:274-277` has timeouts in mind only.
* A trip whose last message cannot be decoded is counted as a waiting rider until
  city-service is restarted (`WaitersAreCounted`, `DemandIsServed` except it by
  name). `city_service/__main__.py:144-150` says of a failed tick that "the picture
  rebuilds from the streams".
* A rider whose row is committed when passenger-service dies waits for ever:
  `EveryRiderIsHeard` without its condition on `deaths`. The comment at
  `k-service-passenger/passenger_service/__main__.py:223-227` knows this and
  prefers it to the other order.
* `OnlyArchivedTripsGo` without `crashes = 0` fails in `archive.cfg`. A trip that
  ended as `no_driver_found`, whose answer was not committed before dispatch died,
  is matched by the replay and keeps its `ended_at`; when the stack was stopped for a
  day in between, a trip on its way is pruned.
  `o-service-archiver/README.md` says one "is never touched", since `ended_at`
  already means "over". A death also loses the messages its producer
  held, and then the trip is pruned before the warehouse has heard of its end.
* A request that is read again after its trip was pruned is `InsertRefused`, again and
  again: dispatch catches `UniqueViolation` only
  (`l-service-dispatch/dispatch_service/__main__.py:279`), and no offset moves.
* `dispatch_offers` references `trips` as `trip_ratings` does;
  `o-service-archiver/README.md` names the ratings only. The code deletes both.
* A run that dies while the warehouse is being loaded leaves part of the week
  there for good: `already_loaded` looks at `trip_events` only, and finds a row.
  `h-bootstrap/bootstrap/__main__.py:3` says "every step is safe to run again",
  and `StoresAgree` claims no more than that every event in the warehouse is of a stored trip for this reason.
* `StoresAgree` fails without `today = 0`: a bootstrap that is run again on another
  day invents another week. PostgreSQL gets the trips of both, the warehouse
  of one. It fails without `lost = 0` too: a lost route, zone or map shifts the
  draws, so the second run's trips have the first run's ids and other offers,
  which meet the unique index on acceptances or do not match their trips.
* A query that fails for good while zones are looked at closes the zone, and none is
  ever opened again (`zones.py:70-83` cannot tell `None` from `None`). In
  `_map_available` (`history.py:183-191`) it makes a week of straight lines.
* With `SKIP_MAP_IMPORT=true` on a fresh stack no run ends (`skip` in
  `HasMetAnObstacle`): zones are copied from a restored table.
  `history.py:29-32` says trips fall back to straight lines.
* A restore that dies between `ways` and `ways_vertices_pgr` is taken for complete
  by the next (`graph-restore.sh:48` looks at `ways`), and no road point is found:
  `HalfRestored`.
* A seed that mints an id twice cannot complete on any run of that day.
* `_event_row` (`history.py:814-817`) says its `event_id` "keeps a re-run of the
  seed from silently doubling every trip"; it is a fresh `uuid4` each time. What keeps
  `NothingDoubled` is `already_loaded` alone: its mutant shows that.
* In `CacheUpdater`, the last changes before a silence stay in the pipeline: the clock
  is looked at when a message was read (`pc = "due"`), so without one more they are neither applied nor
  committed, however long one waits. A liveness property of a change that was
  read is false of the code, and none is stated.
* passenger-service mints its trip ids from `random.Random(RANDOM_SEED)`
  (`__main__.py:113` and `205`), against `ids.py:72-77` ("A live service minting a real
  trip id should call this with no `rng`"). Started again on the same day it mints the
  same ids (`minted` is empty again), the rows are dropped by `ON CONFLICT DO NOTHING`, and the requests
  are sent a second time (`Dispatch!RequestAgain`): with a stored acceptance the repeat is
  `ALREADY_HANDLED`, a trip that ended as `no_driver_found` is searched again,
  and the new rider is nobody's. `RowThenMessage` without
  its second disjunct fails in `riders.cfg`.
* A repeated week is not the same week. `seed_segment_traffic` selects
  `ORDER BY random()` (`history.py:984-988`) and `ON CONFLICT DO NOTHING` keeps what was
  there, so each run adds another sample, and the routed times change with it:
  PostgreSQL keeps the durations of the run that stored a trip, the warehouse gets those
  of the run that loaded it. `StoresAgree` with `event = row` in place of
  `WithoutEnd` fails in `bootstrap.cfg`. `routing.py:184-189` relies on "the same-seed-same-output
  guarantee" and says that "a given trip's two points and period still always pick
  the same route on a repeat run".
* A driver may be asked twice in one invented chain, accept what he refused, and be on two trips at
  once: `_seed_offers` draws the refusals with replacement (`history.py:537-540`) and
  makes the trip's driver the winner afterwards (557-558). Its docstring says
  "the refusals in front are other drivers". `WellFormed` claims neither.

### Bounds

`MaxCrashes`, `MaxDeaths`, `MaxRestarts`, `MaxFaults`, `MaxShifts`, `MaxEvents`,
`MaxNews`, `MaxReports`, `MaxChanges`, `MaxLost` and `LastDay` bound what would go on for ever; they
appear in guards only.
`MaxOffers`, `MaxPerTick`, `MaxRows`, `Capacity`, `BatchSize`, `MaxBatches`, `TripsPerDay`,
`HistoryDays` and `Workers` are the program's own settings, made small so that they are reached. Two trips are
enough for one to be in hand while the other is moved; two drivers and two
offers for a chain with a refusal before an acceptance; two crashes for a replay
of a replay. Two stored topics make a flush a sequence that can fail half way.
`Marketplace` with two trips and no shifts was explored for nine million states
without an error in its passing invariants, but does not finish in minutes: the
two-trip instance is used only for its counterexample. Dispatch does not die in
`Marketplace`: with its crashes a trip may never end, and so a driver's may not.
In `CityDemand` three messages are a trip matched, accepted and cancelled, or a
driver who reports twice (`MaxReports`: from two zones, or from one in two moods) and
a trip; one death, lost answer or failed announcement, and one message that cannot be
decoded before it; `Pickups` is one of the two zones, for a trip's
zone never changes and the zones are alike. News comes in while the process
reads: at any other moment it makes no difference until the next read. In
`Riders` one trip is enough because its steps touch no other trip; what two
trips do to each other in dispatch is in `dispatch_crash`. `MaxFaults` bounds the deaths of both
services there: one in all, for what is true of more is proved. Symmetry is used in
runs without temporal properties only.

In `Archive` one bound, `MaxCrashes`, is shared by the two processes that may die,
and the archiver's `BatchSize` of two makes batches both full and not. In `Bootstrap` a
batch of rows is one row, the finest a death can cut; one death and one lost query
meet at every pair of steps. The three zones are one with a way out, one with a
way in only, and one no road reaches. The one street that may have traffic makes
a way longer or shorter, so a week that is repeated is routed differently. The four weeks were chosen so that
every ending, a cancellation with the car at the kerb and one without, a chain
nobody takes, a trip without a way and an id minted twice occur. A second day is
enough for the dates to differ.

Deadlock is checked in the dispatch, market, riders, city, archive and bootstrap
runs: idle, a process still ticks, and an operator may run `make` again. The sink and cache runs may stop, because traffic is bounded and their
loops do nothing without a message.

### Fairness

* The loop of a service is weakly fair as a whole (`WF(Step)`): every call it
  makes has a timeout and returns or kills it. Which step is taken is not fair.
* Kafka producers deliver and time passes (`Deliver`, `BecomeDue`): librdkafka's
  thread retries, and that it succeeds in the end is an assumption (section 5); next change times are minutes away.
* `ReadNews` and city-service's reading and publishing are strongly fair: the same loop comes round
  to them again and again, but something else may be taken each time.
* `ScoreComesDue` is strongly fair: its clock runs while the tick is elsewhere. In
  `Riders` a live state that nobody refreshes expires (`WF(Expire)`): Redis does
  that. An insert or a publication that fails every time is not ruled out by the
  code; where a property needs one to succeed in the end, the fairness says so.
* The archiver is weakly fair (`WF(Archiver)`) and nothing else in `Archive` is:
  its timer needs nobody, and neither does the promise that old trips go.
* `make bootstrap` is weakly fair, and so is running it again after a failure (the
  log tells the operator to), and a service that waits for the marker.
  `WF_pc(Generates)` is the same for `GenerateWeek`, by the only step from
  `generate` to `duplicates`. Nothing makes a death, a lost query or a day happen.
* No fairness on requests, shifts, faults, crashes, or on the free list: `Dispatch`
  promises its answers without any driver ever being free.

## 4. What is proved

Theorems hold for every value of the constants that satisfies the named
assumption of each module: limits and bounds are natural numbers, positive where
the program needs it; the "nothing" value is not a trip or a driver; the fleet
(`CityDemand`) and the rows (`CacheUpdater`) are finite sets, for the properties
count them; the grid (`History`) lists every zone, and none twice; a way takes a whole
number of seconds, as routes are rounded, and whether there is one does not depend on the traffic; a chain of `SEED_MAX_OFFERS` refusals is over before
a trip without a driver is given up; what is drawn (`Bootstrap`) is in the range its
`rng` call names. `OneCrashOneAccept`, `RebalanceDuplicatesNothing`, `LoadedOnce` and
`StoredWeekAgrees` have a hypothesis of their own.

| Module | Theorem | States |
|---|---|---|
| `DispatchProofs` | `TypeCorrect`, `InductiveHolds`, `NoRequestLost` | types; the inductive invariant; `CommittedMeansDecided` |
| | `CopiesHold`, `CopiesAgree`, `ReadersFindState`, `MilestonesInOrder` | the copies of a trip at every step; `FourCopiesAgree`; `AnnouncedIsReadable`; `StampsInOrder` |
| | `CalmHolds`, `TheStoryIsOne`, `NobodyLeftWaiting`, `OffersOnRecord`, `UnmatchedIsTrue`, `ChainsAreWhole` | the invariant of a dispatch that lives; `OneStory`; `AnsweredMeansMoved`; `PublishedIsRecorded`; `UnmatchedTookNoOffer`; `ChainHasNoGaps` |
| | `StatusKeepsLifecycle` | refinement: `CalmSpec` implements `TripLifecycle!Spec` |
| | `OneCrashOneAccept` | `OneAcceptTold` if dispatch dies at most once |
| `MarketplaceProofs` | `TogetherHolds`, `FleetTypes`, `NoDriverStranded`, `PathsAreForTrips`, `ChargedAfterStart`, `SessionsAreClosed` | the joint invariant; `FleetTypeOK`; `NobodyStranded`; `PathIsForTrip`; `OnTripMeansStarted`; `OfflineClosesSession` |
| `RidersProofs` | `SoundWithRiders`, `RowsComeFirst` | the joint invariant, and all of dispatch's own in the first life of passenger-service; refinement: under the mapping of `RowThenMessage`, `RidersSpec` implements `Dispatch!Spec` with repeated requests after a death |
| | `BeginningsHold`, `RidersFollowed`, `PassengerTypes` | when a ride is told to begin, in that first life; `RidersAreFollowed`; `PaxTypeOK` |
| `CityDemandProofs` | `PictureHolds`, `DemandIsReal`, `FreeIsLastWord`, `HistoryFollows`, `SpeedsAreBounded` | types and the inductive invariant; `WaitersAreCounted`; `FreeWereIdleThere`; `HistoryMatchesTable`; `SpeedsCountOnce` |
| `ClickhouseSinkProofs` | `SinkTypeCorrect`, `SinkInductive`, `NoRowLost`, `SinkKeepsPromise`, `RebalanceDuplicatesNothing` | types; the inductive invariant; `NothingLost`; refinement of `AtLeastOnce!Spec`; `NoDuplicates` under `RebalanceSpec` |
| `CacheUpdaterProofs` | `CacheTypeCorrect`, `CacheInductive`, `NoChangeLost`, `SafeToReplay`, `BatchIsBounded` | types; the inductive invariant; `CommittedIsApplied`; `ReplayConverges`; `BatchStaysSmall` |
| `BootstrapProofs` | `BootstrapInductive`, `ReleasedIsPrepared`, `MigrationsLandOnce`, `OpenZonesHaveRoads`, `CarsOnTheStreets`, `LoadedOnce` | the inductive invariant; `ReleasedMeansPrepared`; `MigratedOnce`; the zones' half of `OnTheStreets`; all of it; `NothingDoubled` |
| | `WeeksAreConsistent`, `StoredWeekAgrees` | `WeekIsConsistent`; `StoresAgree` |
| `ArchiveProofs` | `ArchiveHolds`, `ArchivedBeforePruned` | the inductive invariant of the two services; `OnlyArchivedTripsGo` |

**No request is lost.** `CommittedMeansDecided` speaks of the past (requests
behind the offset), and a commit extends it by the request in hand. So one
has to know that the request in hand is the next one (`NextInLine`) and that its
answer is on record by the time the loop reaches `commit` (`AnswerOnRecord`),
which in turn needs what is in hand at each step (`InHand`). `Inductive` is
the conjunction; each action has a lemma or a step of its own.

**The copies of a trip.** `FourCopiesAgree` looks at the start of a tick, and a tick
has up to six steps, each of which leaves the copies apart in its own way. `Copies` says how
far apart: after `assign` the row is matched and the live state is not
(`MatchInHand`), in the middle of a move the memory is one stage ahead of the row and the
topic (`MoveInHand`), and every trip that is not in hand agrees (`Settled`). Deaths
are harmless to it because they empty the memory, so that nothing is left to agree. Two
facts make it inductive: a trip is asked for once, and what is in the memory has
its request behind the committed offset (`AskedOnce`); so the replay of a
request never meets a trip that is being moved along. `AnnouncedIsReadable` follows,
and `StampsInOrder` has an invariant of its own next to it.

**A dispatch that lives.** Four promises fail as soon as dispatch dies at the wrong place
(section 3), so they are theorems about `CalmSpec`. `Calm` divides the trips: one whose
request was not yet taken has at most its row (`Undisturbed`); the one that is
being answered has what the steps so far have written (`AnswerInHand`); one that
was answered has its whole chain published and a row that says what the
topic says (`AnsweredAreWhole`). The refinement of `TripLifecycle` reads the status
column before and after each step out of the same invariant. For one death
`OneAcceptTold` needs a further one, `Once`: of a request that is still to be
answered, an acceptance in the topic is on record too, so the replay is stopped, and
a replay that does search has told of none.

**Nobody is stranded.** In `Marketplace` the work is in what the two services do to each other's
state. Dispatch's invariant survives since the free list, the one thing driver-service
writes that dispatch relies on, is read as any set (`FreeListOnly`). Driver-service's side
(`FollowsNews`): a driver on a trip has the status the last message read gives the
trip, and that message names the driver. A driver is stranded if that trip has moved on
without them; then there is a message more to read.

**The row, then the message.** For `RowThenMessage` a row that nobody knows of is
taken as no row. `RowsFirst` says that a trip whose request is held by
passenger-service for the first time has just its row, and `HandIsSent` that dispatch touches
only trips whose request was sent. So a request that is delivered is `Dispatch`'s
`Request` (row and message at once) or, if its trip was asked for before, `RequestAgain`; inserting
and dying are stutters. Of dispatch's own invariants some stand whatever is repeated
(`Standing`): what it moves was asked for, what is committed left something durable. The copies of a
trip rest on each trip being asked for once, so they are claimed for the first life of
passenger-service only (`FirstLife`): in it all theorems about `Dispatch` hold of the pair. Repeats
can really part the copies: an unmatched trip that is searched again. `RidersAreFollowed`, which is about that life
too, needs in addition that the beginning of a ride is told at most once (`BeginsOnce`), or a late
message would find its rider no longer followed.

**The picture of the city.** `WaitersAreCounted` and `FreeWereIdleThere` are inductive with
`Streams` (a trip's messages all name one zone, and offsets stay within the
topic): a message that is noted becomes the last one heard (`HeardAfterRead`), one
that is skipped leaves the last one heard what it was (`HeardAfterSkip`). `HistoryMatchesTable` is about the moment between two writes: `Behind`
says that the table is ahead of the history by just what the zone in hand is about to announce.
`SpeedsCountOnce` counts: `Counted` bounds what a zone has by the reports that were read,
and what was read before by the reports there are, once per fault.

**A batch stays small.** A tombstone skips the look at the batch, so a burst of them
is the danger. `LookedAt` says that a batch which is read into was below its limit
when it was last looked at, and has since got the tombstones of the rows in `Unseen`, at most
one each: before another tombstone of the same row comes its delete, which is looked at.
The batch is a sum over the rows. Induction over data is not beyond the prover when
it is done by hand: `AllNumbers` and `AllSubsets` follow from the library's
well-foundedness of the naturals, and `SumFollows` (a sum follows a change of one of
its numbers) from them.

**No row is lost.** At a commit the offset jumps to the position, so everything
read must be in a table: nothing waits then, and `ReadIsInHand` says that what
was read is in a table, waits, or raised when it was handled. Dedup is the subtle part: a
message that is refused as seen leaves no row, so `seen` must not hold an id
whose row is neither stored nor waiting. That is true because `seen` and
`waiting` are lost together and failed inserts keep their rows. A failed lookup does leave such
an id behind, since it was accepted before Redis was asked; but then the process is in its
`finally` clause, reads no more, and forgets the id with the rest of its memory
(`leaving`). So the message is lost only if the offset passes it, and not refused if it does not.

**The refinement.** Under the mapping, `Insert` and a failed insert that
did succeed add offsets of one partition to `kept`; a message that raises is `Fail`, and one
that is read again after it raised is `Retry`; commits move offsets forward past kept and failed
messages only, which is `NothingLost` in the next state. Everything else
leaves the four variables alone.

**No replay is a duplicate.** After a rebalance the sink reads messages again whose
rows are stored or waiting. `Remembering` says that the ids of all these are in `seen`,
and that no row occurs twice in a table and its waiting batch together. The
subtle step is the eviction of `SeenEvents`: an id is dropped when the memory
is full, and a replay of it would be let in. `NothingEvicted` shows that this cannot
happen while the memory has room for every message: what is in `seen` and a new
id are distinct members of `Ids`, so there is room. This is the theorem's
assumption (`Cardinality(Ids) <= Capacity`); a memory smaller than what a
rebalance reads again could let duplicates in (`seen.py:11-17` relies on this).

**Bootstrap releases a prepared city.** The marker is kept over runs, so it is not
enough that the steps come in order: a later run, forced, repeats them over
what is there, and must never take back what the marker promised. `SchemaKept`
(`recorded` is a prefix of the files, each applied once, and later stages have
all of it), `CityKept` (zones and people are there from the stage that made them
on; from the stage after `close` every open zone has a road) and `ReleaseKept` (the
marker has what it promises) are kept by each step. In `CityKept` the
zones need a case of their own: between `InsertZones` and `CloseZones` a zone without a
road is open, unless the marker is set, and then no zone is new. Nothing is assumed
of the map, the draws, or the number of deaths and lost queries.

**No change is lost.** A pipeline's count and its content agree
(`pipe[k] = 0` exactly when `pending[k] = 0`), so "nothing pending" at a commit
means all that was decoded was sent. `ApplyFails` breaks that agreement. Since a row's
messages are kept in order, `CommittedIsApplied` also says that no replay ever shows
a row older than the committed offset.

**Cars stand on streets.** Where a car or a trip begins is what a routing query answered,
which may be nothing, and then the first corner of the network: there is one, because no zone
is open to people without a whole network (`Streets`).

**Nothing is loaded twice.** `already_loaded` looks at `trip_events` only, so what
has to be known is that an empty `trip_events` means an empty warehouse: `Loading`. It is
true because that table is loaded first, and has a row. That it has one, and that the
week that is loaded has no row twice (`WeekHasNoRowTwice`), is shown from the generator:
the pieces the workers get cover a day (`ChunksCover`), so the week has
`HISTORY_DAYS * HISTORY_TRIPS_PER_DAY` trips (`SpecsAreWhole`), one draw each
(`TurnIsInRange`); what a trip adds names it, and is numbered by an offer's sequence or a
report's step (`TripIsFine`); and trips put end to end (`FlattenOnce`, by induction over
how many) share a row only if they share an id, which is what bootstrap looks for before
it stores anything (`WeekIsOnce`). The theorem's hypothesis is that there are days and trips:
with `HISTORY_TRIPS_PER_DAY` at zero `trip_events` stays empty, and a forced second run does
load the hotspots twice.

**A week fits together.** Most of it is about one trip (`Consistent`). Offers are
laid back to back by a recursion over the drivers asked, so its clock is first
written as a running sum (`RunsUp`, which exists and is the only one) and read off
(`ElapsedRuns`); moving a chain to its request keeps the gaps, and `RunChain` stops at
the first yes, so an acceptance is the last offer and its driver the trip's
(`ChainIsLaid`). Then the ride starts after it was matched and a cancellation falls
between its milestones, because each is a sum of draws of known sign
(`RideIsInTime`, `CancelIsInTime`), and reports are spread within the ride
(`ReportsOfTheRide`). `WellFormed` however finds the chain of a trip again, by filtering the
offers of the whole week: `OffersOfAll` shows that the filter over lists put end to end
gives what this trip added and nothing of another's, as long as no id occurs twice. The
state invariant on top is small (`WeekKept`): a grid has zones, so a draw finds
one (`NextIsDecided`).

**The stores agree.** Several runs may have left something, cut anywhere, and no two
runs need to have seen the same city. Without a lost query they have: the zones a road
reaches stay open, or none is there yet (`CityIsOne`). What they have not is the same traffic.
So every run of the first day invents the week of its own sample (`WeekIn`), and the weeks of one seed in
different traffic are `Alike` (`WeeksAreAlike`): the same trips, drivers, offers and ratings, and the
same rows but for when a ride ended (`Face`), because the traffic only enters the seconds of a route. `StoresHold`
can then say of each table that it shows rows of that week only (`Shown`), as many as its stage has counted, and all of them
once a later stage is reached or the marker is set. A row that is dropped by `ON CONFLICT`
is there already, because no two rows of the week share a key (`Fits`,
`InsertFills`); that is where the two theorems meet, for it is a consistent trip's offers
that are told apart by their numbers. `Fits` also relates the lists to each other, and so
the tables, when they are whole. The warehouse is only known to have a first event
and nothing foreign (`Loading`, `LoadHolds`). The hypothesis is that of `LoadedOnce`:
without trips there is no event.

**Only what is over goes.** `OnlyArchivedTripsGo` speaks of one step, `DeleteTrips`, but
why the row it takes was old goes back to the tick that ended it. Dispatch's own
invariants do not carry over as they stand: they count on rows that stay, and here
a row may be gone while its request is still unanswered (after a day off). What
survives is `InLine`, the place in the queue, whatever dies. Until a death three facts
hold on top (`Orderly`): a trip that is queued, in hand or under way has a
row that has not ended (`RowsAreOpen`); where a row has ended, the topic was told
first (`EndsAreTold`); what is old, or already selected, has ended, and nothing of it
is left in the queue, in the memory or in anybody's hands (`OldAreOver`). So an
insert is never refused, and the trips that a day makes old are over.
One death breaks the first fact for good: a request whose answer is written and not yet
committed is read again, and its row has ended (section 3).

Only model-checked: all liveness (`KeepsLifecycle` with its fairness,
`EveryRiderIsHeard`, `FollowingEnds`, `TrafficGoesOn`, `DemandIsServed`,
`EveryRowArrives`, `DriversComeBack`, `OldTripsGo`,
`EventuallyServing`), because the prover has no rules for fairness and ENABLED.
Every invariant and every action property that a run checks is a theorem. The invariants the proofs rest on were model-checked on the instances of the
runs before they were proved, and the proofs replace those checks. So it is with the type
invariants: they are proved and no run repeats them. `NoDuplicates`, `NothingLost` and
`ChainHasNoGaps` likewise are proved and not run.

## 5. What is not modelled

Geometry, path search and prices (floating point, a street graph): `Routing` models
what its callers make of their answers. The start-up of driver-service
(`settled_caches`, `load_roster`, `_follow_jobs`, `sync_to_database`): how a fleet is read from a
cache that is still filling; `DriverFleet` begins with the fleet. Schemas, topics,
DDL and dashboards (declarations and text); connection pools and logging
(wrappers). A driver's tier and distance are only "which drivers a
search returns". `Dispatch!Deliver` assumes that a message is delivered in the end or dies with the
process: one that librdkafka gives up while dispatch lives is only counted and logged
(`kafka.py:106-113`), and its status is then never told (for the announcements of city-service this
is modelled). `Dispatch!Poll` leaves out the branch for a request without a payload, which
passenger-service never sends. A backlog of several batches does not occur in `archive.cfg`, which
has two trips and batches of two. The per-component list with reasons is in `PROJECT.json`.
External code (Kafka, Debezium, Redis, PostgreSQL) is modelled from how the
services use it: order per key, offsets per group, a pipeline as a transaction
that the client empties when it is executed, `ON CONFLICT`, one transaction per
`commit()`.

## 6. The plan

In order of importance; the first eleven are done.

1. `TripStatus`, `TripLifecycle`, `Dispatch`, `DispatchProofs`.
2. `AtLeastOnce`, `ClickhouseSink`, `ClickhouseSinkProofs`.
3. `CacheUpdater`, `CacheUpdaterProofs`.
4. `DriverFleet`, `Marketplace`.
5. `Passenger`, composed with `Dispatch` in `Riders`.
6. `CityDemand`.
7. `OfferChain`, `Routing`, `History`, `Bootstrap`, `BootstrapProofs`.
8. `Archive`.
9. `NoDuplicates` under `RebalanceSpec`.
10. Proofs of the safety half: `TripLifecycle` refined, the copies of a trip, `Marketplace`,
    `Riders` with `RowThenMessage`, `CityDemand`, `BatchStaysSmall`, `OnTheStreets`,
    `NothingDoubled`, every type invariant.
11. Proofs about the generator: the lists of a week, for `NothingDoubled`, then
    `WeekIsConsistent` and `StoresAgree` on the same lemmas; `OnlyArchivedTripsGo`.
12. The start-up of driver-service against a cache that is still filling, with
    `CacheUpdater`'s keys as what it reads.
