----------------------------- MODULE Bootstrap -----------------------------
(***************************************************************************)
(* h-bootstrap: what `make bootstrap` does to empty databases.  The schema *)
(* phase of the container, the one-shot that restores the street graph and *)
(* the seed phase follow one another while each ends well; any may die     *)
(* anywhere, and the operator starts again from the top.  The databases    *)
(* keep what was committed; the process's memory is gone.                  *)
(*                                                                         *)
(* One step per commit.  A batch that commits many rows is here a batch of *)
(* one, so that a death can fall between any two rows.                     *)
(***************************************************************************)
EXTENDS History

CONSTANTS
    Migrations,   \* how many migration files there are
    Seeds,        \* what the seeded generators may draw
    HasCsv,       \* zone-demand-prepare has left its files
    LastDay,      \* bound: the days that pass
    MaxDeaths,    \* bound: how often a process dies
    MaxLost,      \* bound: how many calls to the database fail for good
    NoWeek

ASSUME BootstrapAssumption ==
    /\ Migrations \in Nat /\ LastDay \in Nat /\ MaxDeaths \in Nat /\ MaxLost \in Nat
    /\ HasCsv \in BOOLEAN
    /\ \A s \in Seeds : /\ s.draws \in [1..HistoryDays -> [1..TripsPerDay -> Draws]]
                        /\ s.luck \in [1..(HistoryDays * TripsPerDay) -> Lucks]

\* In name order.
Files == 1..Migrations

VARIABLES
    database,   \* PostgreSQL: "absent", "created", "ready"
    applied,    \* how often each migration has taken effect
    recorded,   \* PostgreSQL schema_migrations
    graph,      \* PostgreSQL: "absent", "tables", "ways", "whole"
    zones,      \* PostgreSQL city_zones, per zone: "none", "open", "closed"
    people,     \* PostgreSQL drivers, none or all: where each stands; passengers too
    base,       \* PostgreSQL: "calibration", once it is loaded
    traffic,    \* PostgreSQL segment_traffic
    trips, offers, ratings,   \* PostgreSQL
    warehouse,  \* ClickHouse: the rows of each table, in insert order
    marker,     \* Redis system:bootstrap:done
    service,    \* a service that waits for the marker
    pc,         \* where `make bootstrap` stands
    phase,      \* "schema" or "seed"
    force,      \* FORCE_RESEED
    skip,       \* SKIP_MAP_IMPORT
    grid,       \* the zones the process has loaded
    pools,      \* a road point for each of them
    week,       \* the generated week
    done,       \* how many of its rows this store has
    seed, today, deaths, lost

schema == <<database, applied, recorded>>
city == <<graph, zones, people, base, traffic>>
store == <<trips, offers, ratings>>
released == <<marker, service>>
memory == <<grid, pools, week, done>>
world == <<skip, seed, today, deaths>>
setup == <<phase, force>>
vars == <<schema, city, store, warehouse, released, pc, setup, memory, world, lost>>

\* The restored tables hold corners, and zones to copy.
Network == graph = "whole"
SourceZones == IF graph \in {"ways", "whole"} THEN Zones ELSE {}

Empty == [t \in {Tables[i] : i \in DOMAIN Tables} |-> <<>>]

Init ==
    /\ database = "absent" /\ applied = [f \in Files |-> 0] /\ recorded = {}
    /\ graph = "absent" /\ zones = [z \in Zones |-> "none"] /\ people = <<>> /\ base = {}
    /\ traffic = {}
    /\ trips = {} /\ offers = {} /\ ratings = {}
    /\ warehouse = Empty
    /\ marker = FALSE /\ service = "waiting"
    /\ pc = "off" /\ phase = "schema" /\ force = FALSE
    /\ grid = {} /\ pools = <<>> /\ week = NoWeek /\ done = 0
    /\ skip \in BOOLEAN /\ seed \in Seeds
    /\ today = 0 /\ deaths = 0 /\ lost = 0

-----------------------------------------------------------------------------
(***************************************************************************)
(* Processes: a container ends, or make goes on with the next one.         *)
(***************************************************************************)
Forget == grid' = {} /\ pools' = <<>> /\ week' = NoWeek /\ done' = 0

\* The operator runs `make bootstrap`.
Make ==
    /\ pc = "off"
    /\ pc' = "database" /\ phase' = "schema" /\ force' \in BOOLEAN
    /\ UNCHANGED <<schema, city, store, warehouse, released, memory, world, lost>>

\* A step raises, or main returns 1: make stops here.
Fail == pc' = "off" /\ Forget

Die ==
    /\ pc # "off" /\ deaths < MaxDeaths
    /\ deaths' = deaths + 1
    /\ Fail
    /\ UNCHANGED <<schema, city, store, warehouse, released, setup, skip, seed, today, lost>>

NewDay ==
    /\ today < LastDay
    /\ today' = today + 1
    /\ UNCHANGED <<schema, city, store, warehouse, released, pc, setup, memory, skip, seed,
                   deaths, lost>>

\* wait_for_bootstrap: the key is there.  A service that gives up is
\* restarted by Docker and waits again.
Serve ==
    /\ service = "waiting" /\ marker
    /\ service' = "running"
    /\ UNCHANGED <<schema, city, store, warehouse, marker, pc, setup, memory, world, lost>>

\* This process has ended well.
EndPhase == pc' = (IF phase = "schema" THEN "restore" ELSE "off") /\ Forget

-----------------------------------------------------------------------------
(***************************************************************************)
(* The database, its schema, the marker and the migrations.                *)
(***************************************************************************)
\* ensure_ready, first half: CREATE DATABASE unless it is there.
CreateDatabase ==
    /\ pc = "database"
    /\ database' = IF database = "absent" THEN "created" ELSE database
    /\ pc' = "schema"
    /\ UNCHANGED <<applied, recorded, city, store, warehouse, released, setup, memory, world, lost>>

CreateSchema ==
    /\ pc = "schema"
    /\ database' = "ready"
    /\ pc' = "marker"
    /\ UNCHANGED <<applied, recorded, city, store, warehouse, released, setup, memory, world, lost>>

\* A stack that has been prepared is left alone.
CheckMarker ==
    /\ pc = "marker"
    /\ IF marker /\ ~force THEN EndPhase ELSE pc' = "migrate" /\ UNCHANGED memory
    /\ UNCHANGED <<schema, city, store, warehouse, released, setup, world, lost>>

\* Mutant of Migrate: the file runs in one transaction, its record in another.
MigrateThenRecord ==
    /\ pc = "migrate"
    /\ \E f \in Files \ recorded :
          /\ \A g \in Files \ recorded : f <= g
          /\ applied' = IF done = 0 THEN [applied EXCEPT ![f] = @ + 1] ELSE applied
          /\ recorded' = IF done = 0 THEN recorded ELSE recorded \cup {f}
    /\ done' = 1 - done
    /\ UNCHANGED <<database, city, store, warehouse, released, pc, setup, grid, pools, week,
                   world, lost>>

\* apply_all: the next file that has not run, and the record of it, in one
\* transaction.
Migrate ==
    /\ pc = "migrate"
    /\ \E f \in Files \ recorded :
          /\ \A g \in Files \ recorded : f <= g
          /\ applied' = [applied EXCEPT ![f] = @ + 1] /\ recorded' = recorded \cup {f}
    /\ UNCHANGED <<database, city, store, warehouse, released, pc, setup, memory, world, lost>>

\* Mutant of Migrated: the schema phase ends as the seed phase does.
MigratedAndReleased ==
    /\ pc = "migrate" /\ recorded = Files
    /\ marker' = (marker \/ phase = "schema")
    /\ IF phase = "schema" THEN EndPhase ELSE pc' = "graph" /\ UNCHANGED memory
    /\ UNCHANGED <<schema, city, store, warehouse, service, setup, world, lost>>

\* The schema phase ends here; the seed phase wants the graph.
Migrated ==
    /\ pc = "migrate" /\ recorded = Files
    /\ IF phase = "schema" THEN EndPhase ELSE pc' = "graph" /\ UNCHANGED memory
    /\ UNCHANGED <<schema, city, store, warehouse, released, setup, world, lost>>

-----------------------------------------------------------------------------
(***************************************************************************)
(* graph-restore.sh, the one-shot between the two phases.  pg_restore      *)
(* makes the tables, then fills them in name order, each with one COPY:    *)
(* city_zones_source, ways, ways_vertices_pgr.  Whether ways has rows is   *)
(* all the script looks at.  Over tables left by a restore that died it    *)
(* fills them all the same and then reports the errors of creating them.   *)
(***************************************************************************)
Restore ==
    /\ pc = "restore"
    /\ IF skip \/ graph \in {"ways", "whole"} THEN pc' = "database" /\ phase' = "seed" /\ graph' = graph
       ELSE /\ graph' = "tables" /\ phase' = phase
            /\ pc' = IF graph = "absent" THEN "restore_ways" ELSE "again_ways"
    /\ UNCHANGED <<schema, zones, people, base, traffic, store, warehouse, released, force,
                   memory, world, lost>>

RestoreWays ==
    /\ pc \in {"restore_ways", "again_ways"}
    /\ graph' = "ways"
    /\ pc' = IF pc = "restore_ways" THEN "restore_corners" ELSE "again_corners"
    /\ UNCHANGED <<schema, zones, people, base, traffic, store, warehouse, released, setup,
                   memory, world, lost>>

RestoreCorners ==
    /\ pc \in {"restore_corners", "again_corners"}
    /\ graph' = "whole"
    /\ IF pc = "restore_corners" THEN pc' = "database" /\ phase' = "seed"
       ELSE pc' = "off" /\ phase' = phase
    /\ UNCHANGED <<schema, zones, people, base, traffic, store, warehouse, released, force,
                   memory, world, lost>>

-----------------------------------------------------------------------------
(***************************************************************************)
(* The city and its people.                                                *)
(***************************************************************************)
\* import_map: both tables and at least one way, or SKIP_MAP_IMPORT.
ImportMap ==
    /\ pc = "graph"
    /\ IF skip \/ graph \in {"ways", "whole"} THEN pc' = "zones" /\ UNCHANGED memory ELSE Fail
    /\ UNCHANGED <<schema, city, store, warehouse, released, setup, world, lost>>

\* zones.seed, first transaction: every zone is open until it is looked at.
\* Without the restored source table the statement fails.
InsertZones ==
    /\ pc = "zones"
    /\ IF graph = "absent" THEN Fail /\ zones' = zones
       ELSE /\ zones' = [z \in Zones |-> IF zones[z] = "none" /\ z \in SourceZones
                                         THEN "open" ELSE zones[z]]
            /\ pc' = "close" /\ UNCHANGED memory
    /\ UNCHANGED <<schema, graph, people, base, traffic, store, warehouse, released, setup,
                   world, lost>>

\* The queries that may still fail for good.
MayLose(calls) == {L \in SUBSET calls : lost + Cardinality(L) <= MaxLost}
Lose(L) == lost' = lost + Cardinality(L)

\* Mutant of CloseZones: zones are looked at when they are inserted, not when
\* bootstrap comes again.
CloseNothing ==
    /\ pc = "close" /\ pc' = "people"
    /\ UNCHANGED <<schema, city, store, warehouse, released, setup, memory, world, lost>>

\* zones.seed, second transaction: a zone whose centre is near no road is
\* closed, and so is one whose lookup failed; none is ever opened again.
CloseZones ==
    /\ pc = "close"
    /\ \E L \in MayLose(SourceZones) :
          /\ zones' = [z \in Zones |->
                 IF z \in SourceZones
                    /\ NearestRoadPoint(Network, CentreOf[z], MaxSnap,
                                        IF z \in L THEN Down ELSE Up) = NoPoint
                 THEN "closed" ELSE zones[z]]
          /\ Lose(L)
    /\ pc' = "people"
    /\ UNCHANGED <<schema, graph, people, base, traffic, store, warehouse, released, setup,
                   memory, world>>

\* people.seed: the grid is loaded, the pools are built, and drivers,
\* vehicles and passengers are written in one transaction; those who exist
\* stay as they are.  Without a zone there is nowhere to live.
SeedPeople ==
    /\ pc = "people"
    /\ LET open == {z \in Zones : zones[z] = "open"}
       IN  \E L \in MayLose(open \X PointQueries) :
             LET points == BuildRoadPointPools(Network, open,
                               [z \in open |-> {q \in PointQueries : <<z, q>> \in L}])
             IN  /\ Lose(L)
                 /\ IF open = {} \/ (\E z \in open : points[z] = Refused)
                    THEN Fail /\ people' = people
                    ELSE /\ people' = IF DOMAIN people = Drivers THEN people
                                      ELSE [d \in Drivers |-> points[PickZone(open, seed.home[d])]]
                         /\ grid' = open /\ pools' = points
                         /\ pc' = "calibrate" /\ UNCHANGED <<week, done>>
    /\ UNCHANGED <<schema, graph, zones, base, traffic, store, warehouse, released, setup, world>>

\* demand_calibration.seed: skipped without its files; every zone they name
\* has to exist.
Calibrate ==
    /\ pc = "calibrate"
    /\ IF HasCsv /\ (\E z \in Zones : zones[z] = "none") THEN Fail /\ base' = base
       ELSE /\ base' = IF HasCsv THEN base \cup {"calibration"} ELSE base
            /\ pc' = "traffic" /\ UNCHANGED memory
    /\ UNCHANGED <<schema, graph, zones, people, traffic, store, warehouse, released, setup, world,
                   lost>>

\* Segments in an order the database draws, each with a factor of its own.
Samples == {rows \in SUBSET TrafficRows :
               \A one, other \in rows : one.segment = other.segment => one = other}

\* seed_segment_traffic: every run draws another sample, and a segment that has
\* its factor keeps it.
SeedTraffic ==
    /\ pc = "traffic"
    /\ \E sample \in Samples :
          /\ graph \notin {"ways", "whole"} => sample = {}
          /\ traffic' = traffic \cup {row \in sample :
                            \A old \in traffic : old.segment # row.segment}
    /\ pc' = "generate"
    /\ UNCHANGED <<schema, graph, zones, people, base, store, warehouse, released, setup, memory,
                   world, lost>>

-----------------------------------------------------------------------------
(***************************************************************************)
(* The week.                                                               *)
(***************************************************************************)
Failures == {AllUp} \cup {[AllUp EXCEPT ![q] = Down] : q \in {"snap_from", "ksp"}}
LostIn(failures) == Cardinality({i \in DOMAIN failures : failures[i] # AllUp})

\* generate: the map is looked for once (no answer reads as no map), then
\* every trip asks for its route.
GenerateWeek ==
    /\ pc = "generate"
    /\ \E mapLost \in BOOLEAN :
       \E failures \in [1..Len(ToRoute(Specs(seed, today, grid, pools))) -> Failures] :
          LET calls == LostIn(failures) + (IF mapLost THEN 1 ELSE 0)
          IN  /\ lost + calls <= MaxLost /\ (mapLost => LostIn(failures) = 0)
              /\ lost' = lost + calls
              /\ week' = Generate(seed, today, grid, pools, traffic, ~mapLost, failures)
    /\ pc' = "duplicates"
    /\ UNCHANGED <<schema, city, store, warehouse, released, setup, grid, pools, done, world>>

\* Mutant of CheckDuplicates: whatever was generated is stored.
CheckNoDuplicates ==
    /\ pc = "duplicates" /\ pc' = "trips" /\ UNCHANGED memory
    /\ UNCHANGED <<schema, city, store, warehouse, released, setup, world, lost>>

\* An id minted twice: nothing of the week is written.
CheckDuplicates ==
    /\ pc = "duplicates"
    /\ IF HasDuplicates(week) THEN Fail ELSE pc' = "trips" /\ UNCHANGED memory
    /\ UNCHANGED <<schema, city, store, warehouse, released, setup, world, lost>>

\* The next of these rows, or the next store.
NextRow(rows, then) ==
    IF done < Len(rows) THEN pc' = pc /\ done' = done + 1 ELSE pc' = then /\ done' = 0

\* INSERT ... ON CONFLICT DO NOTHING: a row whose key is there is dropped.
Insert(table, rows, conflicting) ==
    IF done < Len(rows) /\ conflicting = {} THEN table \cup {rows[done + 1]} ELSE table

SameTrip(rows) == {old \in trips : old.id = rows[done + 1].id}
SameOffer(rows) ==
    {old \in offers : old.trip = rows[done + 1].trip
                      /\ old.offer.sequence = rows[done + 1].offer.sequence}
SameRating(rows) == ratings \cap {rows[done + 1]}

\* Mutant of StoreTrips: a trip that is there already is an error.
StoreTripsOnce ==
    /\ pc = "trips"
    /\ IF done < Len(week.rows) /\ SameTrip(week.rows) # {}
       THEN Fail /\ trips' = trips
       ELSE /\ trips' = Insert(trips, week.rows, SameTrip(week.rows))
            /\ NextRow(week.rows, "offers") /\ UNCHANGED <<grid, pools, week>>
    /\ UNCHANGED <<schema, city, offers, ratings, warehouse, released, setup, world, lost>>

\* store_trips
StoreTrips ==
    /\ pc = "trips"
    /\ trips' = Insert(trips, week.rows, SameTrip(week.rows))
    /\ NextRow(week.rows, "offers")
    /\ UNCHANGED <<schema, city, offers, ratings, warehouse, released, setup, grid, pools, week,
                   world, lost>>

\* The partial unique index on the accepted offer of a trip.
TwoAccepted(table) ==
    \E a, b \in table : a # b /\ a.trip = b.trip
                        /\ a.offer.status = "accepted" /\ b.offer.status = "accepted"

\* store_dispatch_offers: ON CONFLICT covers the sequence only; a second
\* acceptance of a trip raises.
StoreOffers ==
    /\ pc = "offers"
    /\ LET new == Insert(offers, week.offers, SameOffer(week.offers))
       IN  IF TwoAccepted(new) THEN Fail /\ offers' = offers
           ELSE offers' = new /\ NextRow(week.offers, "ratings") /\ UNCHANGED <<grid, pools, week>>
    /\ UNCHANGED <<schema, city, trips, ratings, warehouse, released, setup, world, lost>>

\* store_trip_ratings.  The averages it refreshes are left out.
StoreRatings ==
    /\ pc = "ratings"
    /\ ratings' = Insert(ratings, week.ratings, SameRating(week.ratings))
    /\ NextRow(week.ratings, "warehouse")
    /\ UNCHANGED <<schema, city, trips, offers, warehouse, released, setup, grid, pools, week,
                   world, lost>>

\* Mutant of CheckWarehouse: the week is loaded whenever bootstrap gets here.
CheckNoWarehouse ==
    /\ pc = "warehouse" /\ pc' = "load"
    /\ UNCHANGED <<schema, city, store, warehouse, released, setup, memory, world, lost>>

\* already_loaded: one trip event is enough.
CheckWarehouse ==
    /\ pc = "warehouse"
    /\ pc' = IF warehouse["trip_events"] # <<>> THEN "marker_set" ELSE "load"
    /\ UNCHANGED <<schema, city, store, warehouse, released, setup, memory, world, lost>>

\* load_week: table after table, a batch at a time.
RowsFor(t) == [i \in DOMAIN week[t] |-> [table |-> t, row |-> week[t][i]]]
Batches == RowsFor(Tables[1]) \o RowsFor(Tables[2]) \o RowsFor(Tables[3]) \o RowsFor(Tables[4])
           \o RowsFor(Tables[5])

LoadWarehouse ==
    /\ pc = "load"
    /\ warehouse' = IF done = Len(Batches) THEN warehouse
                    ELSE [warehouse EXCEPT ![Batches[done + 1].table] =
                             Append(@, Batches[done + 1].row)]
    /\ NextRow(Batches, "marker_set")
    /\ UNCHANGED <<schema, city, store, released, setup, grid, pools, week, world, lost>>

\* The last line: the services are released.
SetMarker ==
    /\ pc = "marker_set"
    /\ marker' = TRUE
    /\ EndPhase
    /\ UNCHANGED <<schema, city, store, warehouse, service, setup, world, lost>>

Prepare == CreateDatabase \/ CreateSchema \/ CheckMarker \/ Migrate \/ Migrated
Rebuild == Restore \/ RestoreWays \/ RestoreCorners
Populate == ImportMap \/ InsertZones \/ CloseZones \/ SeedPeople \/ Calibrate \/ SeedTraffic
Fill == CheckDuplicates \/ StoreTrips \/ StoreOffers \/ StoreRatings
        \/ CheckWarehouse \/ LoadWarehouse \/ SetMarker

Next == Make \/ Prepare \/ Rebuild \/ Populate \/ GenerateWeek \/ Fill \/ Serve \/ Die \/ NewDay
Spec == Init /\ [][Next]_vars

(***************************************************************************)
(* Every step ends; a service keeps looking for the marker; and a failed   *)
(* bootstrap is run again ("Read the log above, fix it, then: make         *)
(* bootstrap").  Days need not pass and nothing need fail.  GenerateWeek   *)
(* is the only step from "generate" to "duplicates", and is named by that. *)
(***************************************************************************)
Generates == pc = "generate" /\ pc' = "duplicates"

FairSpec ==
    Spec /\ WF_vars(Make \/ Prepare \/ Rebuild \/ Populate \/ Fill) /\ WF_pc(Generates)
         /\ WF_vars(Serve)

-----------------------------------------------------------------------------
(***************************************************************************)
(* Properties.                                                             *)
(***************************************************************************)
Open == {z \in Zones : zones[z] = "open"}

\* "If bootstrap fails halfway, the services keep waiting instead of
\* generating trips for drivers that do not exist": a service that runs finds
\* every migration, the graph, every zone decided, and the people.
ReleasedMeansPrepared ==
    marker \/ service = "running" =>
        /\ database = "ready" /\ recorded = Files
        /\ graph \in {"ways", "whole"}
        /\ \A z \in Zones : zones[z] # "none"
        /\ DOMAIN people = Drivers

\* "A migration either lands completely or not at all, and the record of it
\* lands with it": none takes effect twice, none before an earlier one.
MigratedOnce ==
    \A f \in Files :
        /\ applied[f] <= 1
        /\ f \in recorded => applied[f] = 1
        /\ applied[f] = 1 => \A g \in 1..(f - 1) : applied[g] = 1

\* "Loading the same week twice would double every number on every
\* dashboard": no table of the warehouse holds a row twice.
NothingDoubled ==
    \A t \in DOMAIN warehouse : \A i, j \in DOMAIN warehouse[t] :
        warehouse[t][i] = warehouse[t][j] => i = j

\* Whatever is drawn and whatever fails, in the week bootstrap is about to
\* store each trip fits its offers, its milestones and its reports.
WeekIsConsistent ==
    week # NoWeek /\ pc # "duplicates" => WellFormed(week)

(***************************************************************************)
(* As long as no query was lost, and however often bootstrap died and was  *)
(* run again on the same day, once a service runs the trips in PostgreSQL  *)
(* fit their offers and ratings, and every event in the warehouse is of    *)
(* one of them and tells the same of it, but for when a ride ended: each   *)
(* run draws its traffic anew, so a week that was stored by one run and    *)
(* loaded by another has other durations there.                            *)
(***************************************************************************)
WithoutEnd(row) == IF row.status = "completed" THEN [row EXCEPT !.ended = None] ELSE row

AcceptedBy(trip) == {o.offer.driver : o \in {p \in offers : p.trip = trip
                                                            /\ p.offer.status = "accepted"}}
Events == {warehouse["trip_events"][i].row : i \in DOMAIN warehouse["trip_events"]}

StoresAgree ==
    service = "running" /\ lost = 0 /\ today = 0 /\ pc = "off" =>
        /\ \A row \in trips :
              /\ AcceptedBy(row.id) = (IF row.driver = None THEN {} ELSE {row.driver})
              /\ row.status = "completed" => \A who \in {"rider", "driver"} :
                     [trip |-> row.id, rater |-> who] \in ratings
        /\ Events # {}
        /\ \A event \in Events : \E row \in trips : WithoutEnd(event) = WithoutEnd(row)

\* A car never stands off the street network, and no service is released into
\* a zone whose centre no road reaches.
OnTheStreets ==
    /\ \A d \in DOMAIN people : people[d] \in Corners
    /\ marker => \A z \in Open : MetresTo[CentreOf[z]] <= MaxSnap
    /\ \A row \in DOMAIN pools : pools[row] \in Corners

(***************************************************************************)
(* Wherever bootstrap died, running it again gets to the end and the       *)
(* services start, unless it met what no run gets past: no map, a query    *)
(* lost, a draw with an id twice, or a restore that died between ways and  *)
(* its corners.                                                            *)
(***************************************************************************)
HalfRestored == graph = "ways" /\ pc = "off"
HasMetAnObstacle ==
    skip \/ lost > 0 \/ HalfRestored \/ (week # NoWeek /\ HasDuplicates(week))

EventuallyServing == <>(service = "running" \/ HasMetAnObstacle)
-----------------------------------------------------------------------------
(***************************************************************************)
(* What every step keeps, for the proofs: what is stored says how far the  *)
(* schema and the city got, and a stage is only reached with what it needs *)
(* in store.                                                               *)
(***************************************************************************)
Late == {"calibrate", "traffic", "generate", "duplicates", "trips", "offers", "ratings",
         "warehouse", "load", "marker_set"}

SchemaKept ==
    /\ recorded \subseteq Files
    /\ applied = [f \in Files |-> IF f \in recorded THEN 1 ELSE 0]
    /\ \A f \in recorded : 1..(f - 1) \subseteq recorded
    /\ pc \notin {"off", "database", "schema"} => database = "ready"
    /\ pc \notin {"off", "database", "schema", "marker", "migrate"} => recorded = Files

CityKept ==
    /\ \A z \in Zones : zones[z] # "none" =>
          graph \in {"ways", "whole"} /\ \A y \in Zones : zones[y] # "none"
    /\ pc = "close" => \A z \in SourceZones : zones[z] # "none"
    /\ pc \in Late => DOMAIN people = Drivers /\ \E z \in Zones : zones[z] # "none"
    /\ marker \/ pc \in Late \cup {"people"} => \A z \in Open : MetresTo[CentreOf[z]] <= MaxSnap

ReleaseKept ==
    /\ service = "running" => marker
    /\ marker => /\ database = "ready" /\ recorded = Files
                 /\ DOMAIN people = Drivers /\ \E z \in Zones : zones[z] # "none"

Inductive == SchemaKept /\ CityKept /\ ReleaseKept

\* Zones are open to people only over a whole network, so whatever is handed
\* out there is a corner.
Streets ==
    /\ pc = "people" /\ Open # {} => Network
    /\ \A d \in DOMAIN people : people[d] \in Corners
    /\ \A z \in DOMAIN pools : pools[z] \in Corners

\* What NothingDoubled takes from the generator: a week that is stored has a
\* trip, and no row twice; for one with an id twice that is looked at first.
NoRowTwice(generated) ==
    /\ generated["trip_events"] # <<>>
    /\ \A t \in DOMAIN Empty :
          /\ generated[t] \in Seq({generated[t][i] : i \in DOMAIN generated[t]})
          /\ \A i, j \in DOMAIN generated[t] : generated[t][i] = generated[t][j] => i = j

WeekHasNoRowTwice ==
    /\ pc \in {"trips", "offers", "ratings", "warehouse", "load"} => NoRowTwice(week)
    /\ pc = "duplicates" => HasDuplicates(week) \/ NoRowTwice(week)
=============================================================================
