--------------------------- MODULE BootstrapProofs ---------------------------
(* What is proved about Bootstrap, for every city, every week and any       *)
(* number of deaths: Spec => []Inductive, and what follows from it.         *)
EXTENDS Bootstrap, WellFoundedInduction, SequenceTheorems, FiniteSetTheorems, TLAPS

\* What most steps leave as it was, per part of the invariant.
SchemaSame == UNCHANGED schema
CitySame == UNCHANGED <<graph, zones, people>>
ReleaseSame == UNCHANGED released

LEMMA InitInductive == Init => Inductive
<1> SUFFICES ASSUME Init PROVE Inductive
  OBVIOUS
<1>1. SchemaKept
  BY DEF Init, SchemaKept
<1>2. CityKept
  BY DEF Init, CityKept, Open, Late
<1>3. ReleaseKept
  BY DEF Init, ReleaseKept
<1>4. QED
  BY <1>1, <1>2, <1>3 DEF Inductive

\* A step that writes none of the stores keeps the invariant if it does not
\* reach a stage it has no right to.
LEMMA StageStep ==
    ASSUME Inductive, SchemaSame, CitySame, ReleaseSame,
           pc' \notin {"off", "database", "schema"} => database = "ready",
           pc' \notin {"off", "database", "schema", "marker", "migrate"} => recorded = Files,
           pc' \in Late => pc \in Late \/ marker,
           pc' \in {"close", "people"} => pc' = pc
    PROVE  Inductive'
<1> USE DEF Inductive, SchemaSame, CitySame, ReleaseSame, schema, released
<1>1. SchemaKept'
  BY DEF SchemaKept, Files
<1>2. CityKept'
  <2>1. Open' = Open
    BY DEF Open
  <2>2. (pc \in Late \/ marker) => DOMAIN people = Drivers /\ \E z \in Zones : zones[z] # "none"
    BY DEF CityKept, ReleaseKept
  <2>3. pc' \in Late \cup {"people"} => marker \/ pc \in Late \cup {"people"}
    OBVIOUS
  <2>4. pc' = "close" => \A z \in SourceZones' : zones'[z] # "none"
    BY DEF CityKept, SourceZones
  <2>5. QED
    BY <2>1, <2>2, <2>3, <2>4 DEF CityKept
<1>3. ReleaseKept'
  BY DEF ReleaseKept, Files
<1>4. QED
  BY <1>1, <1>2, <1>3

LEMMA MakeOrDie ==
    ASSUME Inductive, Make \/ Die \/ NewDay \/ Serve
    PROVE  Inductive'
<1>1. CASE Make \/ Die
  <2>1. pc' \in {"off", "database"}
    BY <1>1 DEF Make, Die, Fail
  <2>2. SchemaSame /\ CitySame /\ ReleaseSame
    BY <1>1 DEF Make, Die, SchemaSame, CitySame, ReleaseSame, schema, city, released
  <2>3. QED
    BY <2>1, <2>2, StageStep DEF Late
<1>2. CASE NewDay
  <2>1. SchemaSame /\ CitySame /\ ReleaseSame /\ pc' = pc
    BY <1>2 DEF NewDay, SchemaSame, CitySame, ReleaseSame, schema, city, released
  <2>2. QED
    BY <2>1, StageStep DEF Inductive, SchemaKept
<1>3. CASE Serve
  <2>1. SchemaSame /\ CitySame /\ marker /\ marker' /\ pc' = pc /\ service' = "running"
    BY <1>3 DEF Serve, SchemaSame, CitySame, schema, city, released
  <2>2. SchemaKept' /\ CityKept' /\ ReleaseKept'
    BY <2>1 DEF Inductive, SchemaKept, CityKept, ReleaseKept, SchemaSame, CitySame, schema,
                Files, Open, SourceZones
  <2>3. QED
    BY <2>2 DEF Inductive
<1>4. QED
  BY <1>1, <1>2, <1>3

\* The steps that only move pc and the process's memory, or write a store the
\* invariant does not speak of.
LEMMA OtherStep ==
    ASSUME Inductive,
           CheckMarker \/ Migrated \/ ImportMap \/ Calibrate \/ SeedTraffic \/ GenerateWeek
             \/ CheckDuplicates \/ StoreTrips \/ StoreOffers \/ StoreRatings \/ CheckWarehouse
             \/ LoadWarehouse
    PROVE  Inductive'
<1>1. SchemaSame /\ CitySame /\ ReleaseSame
  BY DEF CheckMarker, Migrated, ImportMap, Calibrate, SeedTraffic, GenerateWeek,
         CheckDuplicates, StoreTrips, StoreOffers, StoreRatings, CheckWarehouse, LoadWarehouse,
         SchemaSame, CitySame, ReleaseSame, schema, city, released
<1>2. CASE CheckMarker
  <2>1. pc = "marker" /\ (pc' = "migrate" \/ (marker /\ pc' \in {"restore", "off"}))
    BY <1>2 DEF CheckMarker, EndPhase
  <2>2. QED
    BY <1>1, <2>1, StageStep DEF Inductive, SchemaKept, ReleaseKept, Late
<1>3. CASE Migrated
  <2>1. pc = "migrate" /\ recorded = Files /\ pc' \in {"restore", "off", "graph"}
    BY <1>3 DEF Migrated, EndPhase
  <2>2. QED
    BY <1>1, <2>1, StageStep DEF Inductive, SchemaKept, Late
<1>4. CASE ImportMap
  <2>1. pc = "graph" /\ pc' \in {"zones", "off"}
    BY <1>4 DEF ImportMap, Fail
  <2>2. QED
    BY <1>1, <2>1, StageStep DEF Inductive, SchemaKept, Late
<1>5. CASE Calibrate \/ SeedTraffic \/ GenerateWeek \/ CheckDuplicates \/ StoreTrips
           \/ StoreOffers \/ StoreRatings \/ CheckWarehouse \/ LoadWarehouse
  <2>1. pc \in Late /\ pc' \in Late \cup {"off"}
    BY <1>5 DEF Calibrate, SeedTraffic, GenerateWeek, CheckDuplicates, StoreTrips,
                StoreOffers, StoreRatings, CheckWarehouse, LoadWarehouse, NextRow, Fail, Late
  <2>2. database = "ready" /\ recorded = Files /\ pc' \notin {"close", "people"}
    BY <2>1 DEF Inductive, SchemaKept, Late
  <2>3. QED
    BY <1>1, <2>1, <2>2, StageStep
<1>6. QED
  BY <1>2, <1>3, <1>4, <1>5

\* The schema: only its own stores change.
LEMMA SchemaStep ==
    ASSUME Inductive, CreateDatabase \/ CreateSchema \/ Migrate
    PROVE  Inductive'
<1>1. CitySame /\ ReleaseSame /\ pc \in {"database", "schema", "migrate"}
      /\ pc' \in {"schema", "marker", "migrate"}
  BY DEF CreateDatabase, CreateSchema, Migrate, CitySame, ReleaseSame, city, released
<1>2. CityKept'
  BY <1>1 DEF Inductive, CityKept, CitySame, ReleaseSame, released, Open, Late
<1>3. CASE CreateDatabase \/ CreateSchema
  <2>1. applied' = applied /\ recorded' = recorded
    BY <1>3 DEF CreateDatabase, CreateSchema
  <2>2. (database = "ready" \/ pc' = "marker") => database' = "ready"
    BY <1>3 DEF CreateDatabase, CreateSchema
  <2>3. CreateDatabase => pc' = "schema"
    BY DEF CreateDatabase
  <2>4. CreateSchema => pc' = "marker"
    BY DEF CreateSchema
  <2>5. SchemaKept'
    BY <1>1, <1>3, <2>1, <2>2, <2>3, <2>4 DEF Inductive, SchemaKept, Files
  <2>6. ReleaseKept'
    BY <1>1, <2>1, <2>2 DEF Inductive, ReleaseKept, CitySame, ReleaseSame, released, Files
  <2>7. QED
    BY <1>2, <2>5, <2>6 DEF Inductive
<1>4. CASE Migrate
  <2>1. PICK f \in Files \ recorded :
          /\ \A g \in Files \ recorded : f <= g
          /\ applied' = [applied EXCEPT ![f] = @ + 1] /\ recorded' = recorded \cup {f}
    BY <1>4 DEF Migrate
  <2>2. pc = "migrate" /\ pc' = pc /\ database' = database
    BY <1>4 DEF Migrate, setup
  <2>3. recorded \subseteq Files /\ applied = [g \in Files |-> IF g \in recorded THEN 1 ELSE 0]
    BY DEF Inductive, SchemaKept
  <2>4. applied' = [g \in Files |-> IF g \in recorded' THEN 1 ELSE 0]
    <3>1. applied[f] = 0 /\ applied[f] + 1 = 1
      BY <2>1, <2>3
    <3>2. applied' = [applied EXCEPT ![f] = 1]
      BY <2>1, <3>1
    <3>3. QED
      BY <2>1, <2>3, <3>2
  <2>5. \A g \in 1..(f - 1) : g \in recorded
    <3> SUFFICES ASSUME NEW g \in 1..(f - 1), g \notin recorded PROVE FALSE
      OBVIOUS
    <3>1. f \in 1..Migrations /\ Migrations \in Nat
      BY <2>1, BootstrapAssumption DEF Files
    <3>2. g \in Files \ recorded /\ g < f
      BY <3>1 DEF Files
    <3>3. QED
      BY <2>1, <3>1, <3>2
  <2>6. SchemaKept'
    <3>1. \A g \in recorded' : 1..(g - 1) \subseteq recorded'
      BY <2>1, <2>5 DEF Inductive, SchemaKept
    <3>2. database' = "ready"
      BY <2>2 DEF Inductive, SchemaKept
    <3>3. QED
      BY <2>1, <2>2, <2>3, <2>4, <3>1, <3>2 DEF SchemaKept, Files
  <2>7. ReleaseKept'
    BY <1>1, <2>1, <2>2 DEF Inductive, ReleaseKept, CitySame, ReleaseSame, released, Files
  <2>8. QED
    BY <1>2, <2>6, <2>7 DEF Inductive
<1>5. QED
  BY <1>3, <1>4

\* The graph: it is only replaced while it is of no use.
LEMMA GraphStep ==
    ASSUME Inductive, Rebuild
    PROVE  Inductive'
<1>1. SchemaSame /\ ReleaseSame /\ zones' = zones /\ people' = people
  BY DEF Rebuild, Restore, RestoreWays, RestoreCorners, SchemaSame, ReleaseSame, schema, released
<1>2. graph \in {"ways", "whole"} => graph' \in {"ways", "whole"}
  BY DEF Rebuild, Restore, RestoreWays, RestoreCorners
<1>3. pc \in {"restore", "restore_ways", "again_ways", "restore_corners", "again_corners"}
      /\ pc' \in {"database", "restore_ways", "again_ways", "restore_corners", "again_corners", "off"}
  BY DEF Rebuild, Restore, RestoreWays, RestoreCorners
<1>4. SchemaKept'
  BY <1>1, <1>3 DEF Inductive, SchemaKept, SchemaSame, schema, Files
<1>5. CityKept'
  BY <1>1, <1>2, <1>3 DEF Inductive, CityKept, ReleaseSame, released, Open, Late
<1>6. ReleaseKept'
  BY <1>1 DEF Inductive, ReleaseKept, SchemaSame, ReleaseSame, schema, released, Files
<1>7. QED
  BY <1>4, <1>5, <1>6 DEF Inductive

\* A zone whose lookup answers is near a road.
LEMMA RoadOrNone ==
    ASSUME NEW network, NEW place, NEW limit, NEW failures,
           NearestRoadPoint(network, place, limit, failures) # NoPoint
    PROVE  MetresTo[place] <= limit
BY DEF NearestRoadPoint, QueryWithRetry

\* The zones: all are inserted together, and those that stay open have a road.
LEMMA ZonesStep ==
    ASSUME Inductive, InsertZones \/ CloseZones
    PROVE  Inductive'
<1>1. SchemaSame /\ ReleaseSame /\ graph' = graph /\ people' = people
      /\ pc \in {"zones", "close"} /\ pc' \in {"close", "people", "off"}
  BY DEF InsertZones, CloseZones, Fail, SchemaSame, ReleaseSame, schema, released
<1>2. SchemaKept'
  BY <1>1 DEF Inductive, SchemaKept, SchemaSame, schema, Files
<1>3. (\A z \in Zones : zones[z] # "none") => \A z \in Zones : zones'[z] # "none"
  BY DEF InsertZones, CloseZones
<1>4. ReleaseKept'
  <2>1. (\E z \in Zones : zones[z] # "none") => \E z \in Zones : zones'[z] # "none"
    BY <1>3 DEF Inductive, CityKept
  <2>2. QED
    BY <1>1, <2>1 DEF Inductive, ReleaseKept, SchemaSame, ReleaseSame, schema, released, Files
<1>5. \A z \in Zones : zones'[z] # "none" =>
         graph \in {"ways", "whole"} /\ \A y \in Zones : zones'[y] # "none"
  <2> SUFFICES ASSUME NEW z \in Zones, zones'[z] # "none"
               PROVE  graph \in {"ways", "whole"} /\ \A y \in Zones : zones'[y] # "none"
    OBVIOUS
  <2>1. CASE zones[z] # "none"
    BY <1>3, <2>1 DEF Inductive, CityKept
  <2>2. CASE zones[z] = "none"
    <3>1. InsertZones /\ z \in SourceZones
      BY <2>2 DEF InsertZones, CloseZones, Inductive, CityKept
    <3>2. graph \in {"ways", "whole"} /\ SourceZones = Zones
      BY <3>1 DEF SourceZones
    <3>3. QED
      BY <3>1, <3>2 DEF InsertZones
  <2>3. QED
    BY <2>1, <2>2
<1>6. CASE InsertZones
  <2>1. marker => zones' = zones \/ \A z \in Zones : zones'[z] = zones[z]
    BY <1>6 DEF InsertZones, Inductive, ReleaseKept, CityKept
  <2>2. pc' \in {"close", "off"} /\ marker' = marker
    BY <1>6 DEF InsertZones, Fail, released
  <2>3. marker' => \A z \in Open' : MetresTo[CentreOf[z]] <= MaxSnap
    BY <2>1, <2>2 DEF Inductive, CityKept, Open
  <2>4. pc' = "close" => \A z \in SourceZones' : zones'[z] # "none"
    BY <1>1, <1>6 DEF InsertZones, Fail, SourceZones
  <2>5. CityKept'
    BY <1>1, <1>5, <2>2, <2>3, <2>4 DEF CityKept, Late
  <2>6. QED
    BY <1>2, <1>4, <2>5 DEF Inductive
<1>7. CASE CloseZones
  <2>1. PICK L : zones' = [z \in Zones |->
                 IF z \in SourceZones
                    /\ NearestRoadPoint(Network, CentreOf[z], MaxSnap,
                                        IF z \in L THEN Down ELSE Up) = NoPoint
                 THEN "closed" ELSE zones[z]]
    BY <1>7 DEF CloseZones
  <2>2. ASSUME NEW z \in Open'
        PROVE  MetresTo[CentreOf[z]] <= MaxSnap
    <3>1. z \in Zones /\ zones'[z] = "open"
      BY DEF Open
    <3>2. zones[z] = "open"
      BY <2>1, <3>1
    <3>3. z \in SourceZones
      BY <3>1, <3>2 DEF Inductive, CityKept, SourceZones
    <3>4. NearestRoadPoint(Network, CentreOf[z], MaxSnap, IF z \in L THEN Down ELSE Up) # NoPoint
      BY <2>1, <3>1, <3>3
    <3>5. QED
      BY <3>4, RoadOrNone
  <2>3. pc' = "people"
    BY <1>7 DEF CloseZones
  <2>4. CityKept'
    BY <1>1, <1>5, <2>2, <2>3 DEF CityKept, Late
  <2>5. QED
    BY <1>2, <1>4, <2>4 DEF Inductive
<1>8. QED
  BY <1>6, <1>7

\* The people: they are there when the next stage starts, and so is a zone.
LEMMA PeopleStep ==
    ASSUME Inductive, SeedPeople
    PROVE  Inductive'
<1>1. SchemaSame /\ ReleaseSame /\ graph' = graph /\ zones' = zones /\ pc = "people"
  BY DEF SeedPeople, SchemaSame, ReleaseSame, schema, released
<1>2. (pc' = "off" /\ people' = people)
      \/ (pc' = "calibrate" /\ DOMAIN people' = Drivers /\ \E z \in Zones : zones[z] = "open")
  BY DEF SeedPeople, Fail
<1>3. SchemaKept'
  BY <1>1, <1>2 DEF Inductive, SchemaKept, SchemaSame, schema, Files
<1>4. CityKept'
  BY <1>1, <1>2 DEF Inductive, CityKept, ReleaseSame, released, Open, Late
<1>5. ReleaseKept'
  BY <1>1, <1>2 DEF Inductive, ReleaseKept, SchemaSame, ReleaseSame, schema, released, Files
<1>6. QED
  BY <1>3, <1>4, <1>5 DEF Inductive

\* The marker: everything before it is in store.
LEMMA MarkerStep ==
    ASSUME Inductive, SetMarker
    PROVE  Inductive'
<1>1. SchemaSame /\ CitySame /\ service' = service /\ marker' /\ pc = "marker_set"
      /\ pc' \in {"restore", "off"}
  BY DEF SetMarker, EndPhase, SchemaSame, CitySame, schema, city
<1>2. SchemaKept'
  BY <1>1 DEF Inductive, SchemaKept, SchemaSame, schema, Files
<1>3. CityKept'
  BY <1>1 DEF Inductive, CityKept, CitySame, Open, Late
<1>4. ReleaseKept'
  BY <1>1 DEF Inductive, SchemaKept, CityKept, ReleaseKept, SchemaSame, CitySame, schema, Files, Late
<1>5. QED
  BY <1>2, <1>3, <1>4 DEF Inductive

LEMMA StutterStep ==
    ASSUME Inductive, UNCHANGED vars
    PROVE  Inductive'
<1>1. SchemaSame /\ CitySame /\ ReleaseSame /\ pc' = pc
  BY DEF vars, SchemaSame, CitySame, ReleaseSame, city, schema, released
<1>2. QED
  BY <1>1, StageStep DEF Inductive, SchemaKept

\* However often bootstrap dies and is run again, what is stored says how far
\* it got, and no stage is reached without what it needs in store.
THEOREM BootstrapInductive == Spec => []Inductive
<1>1. Inductive /\ [Next]_vars => Inductive'
  <2> SUFFICES ASSUME Inductive, [Next]_vars PROVE Inductive'
    OBVIOUS
  <2>1. CASE Make \/ Die \/ NewDay \/ Serve
    BY <2>1, MakeOrDie
  <2>2. CASE Prepare
    BY <2>2, SchemaStep, OtherStep DEF Prepare
  <2>3. CASE Rebuild
    BY <2>3, GraphStep
  <2>4. CASE Populate
    BY <2>4, ZonesStep, PeopleStep, OtherStep DEF Populate
  <2>5. CASE GenerateWeek \/ Fill
    BY <2>5, OtherStep, MarkerStep DEF Fill
  <2>6. CASE UNCHANGED vars
    BY <2>6, StutterStep
  <2>7. QED
    BY <2>1, <2>2, <2>3, <2>4, <2>5, <2>6 DEF Next
<1>2. QED
  BY <1>1, InitInductive, PTL DEF Spec

\* No service runs on databases that are not prepared, whenever bootstrap
\* died before.
THEOREM ReleasedIsPrepared == Spec => []ReleasedMeansPrepared
<1>1. Inductive => ReleasedMeansPrepared
  BY DEF Inductive, ReleaseKept, CityKept, ReleasedMeansPrepared
<1>2. QED
  BY <1>1, BootstrapInductive, PTL

\* No migration takes effect twice or before an earlier one.
THEOREM MigrationsLandOnce == Spec => []MigratedOnce
<1>1. Inductive => MigratedOnce
  <2> SUFFICES ASSUME Inductive, NEW f \in Files
               PROVE  /\ applied[f] <= 1
                      /\ f \in recorded => applied[f] = 1
                      /\ applied[f] = 1 => \A g \in 1..(f - 1) : applied[g] = 1
    BY DEF MigratedOnce
  <2>1. \A g \in Files : applied[g] = IF g \in recorded THEN 1 ELSE 0
    BY DEF Inductive, SchemaKept
  <2>2. f \in recorded => \A g \in 1..(f - 1) : g \in recorded /\ g \in Files
    BY DEF Inductive, SchemaKept
  <2>3. QED
    BY <2>1, <2>2
<1>2. QED
  BY <1>1, BootstrapInductive, PTL

\* Once the services are released, no open zone has its centre off the roads.
THEOREM OpenZonesHaveRoads ==
    Spec => [](marker => \A z \in Open : MetresTo[CentreOf[z]] <= MaxSnap)
<1>1. Inductive => (marker => \A z \in Open : MetresTo[CentreOf[z]] <= MaxSnap)
  BY DEF Inductive, CityKept
<1>2. QED
  BY <1>1, BootstrapInductive, PTL

-----------------------------------------------------------------------------
(* The streets: where cars stand and trips begin.                           *)

NatLess == {ss \in Nat \X Nat : ss[1] < ss[2]}
LEMMA NatLessIsWellFounded == IsWellFoundedOn(NatLess, Nat)
  BY NatLessThanWellFounded, Zenon DEF OpToRel, NatLess
LEMMA LeastIsThere ==
    ASSUME NEW S \in SUBSET Nat, S # {}
    PROVE  Min(S) \in S
<1>1. PICK x \in S : \A y \in S : ~(<<y, x>> \in NatLess)
  BY NatLessIsWellFounded, WFMin, Zenon
<1>2. \A y \in S : x <= y
  <2> SUFFICES ASSUME NEW y \in S PROVE x <= y
    OBVIOUS
  <2>1. x \in Nat /\ y \in Nat
    OBVIOUS
  <2>2. ~(y < x)
    BY <1>1, <2>1 DEF NatLess
  <2> QED BY <2>1, <2>2
<1>3. QED
  BY <1>2 DEF Min
LEMMA GreatestIsThere ==
    ASSUME NEW n \in Nat, NEW S \in SUBSET (0..n), S # {}
    PROVE  Max(S) \in S
<1> DEFINE T == {k \in Nat : n - k \in S}
<1>1. T # {}
  <2>1. PICK x \in S : TRUE
    OBVIOUS
  <2>2. n - x \in Nat /\ n - (n - x) = x
    OBVIOUS
  <2>3. QED
    BY <2>1, <2>2
<1>2. PICK k \in T : \A l \in T : ~(<<l, k>> \in NatLess)
  <2>1. T \subseteq Nat
    OBVIOUS
  <2> HIDE DEF T
  <2> QED BY <2>1, <1>1, NatLessIsWellFounded, WFMin, Zenon
<1>3. \A y \in S : n - k >= y
  <2> SUFFICES ASSUME NEW y \in S PROVE n - k >= y
    OBVIOUS
  <2>1. n - y \in T
    <3>1. n - y \in Nat /\ n - (n - y) = y
      OBVIOUS
    <3> QED BY <3>1
  <2>2. ~(n - y < k)
    BY <1>2, <2>1 DEF NatLess
  <2> QED BY <2>2
<1>4. n - k \in S
  BY <1>2
<1> HIDE DEF T
<1> QED BY <1>3, <1>4 DEF Max

\* With the network in store, a zone's point is a corner unless the call raises.
LEMMA PointIsCorner ==
    ASSUME NEW zone \in Zones, NEW down, RandomRoadPointInZone(TRUE, zone, down) # Refused
    PROVE  RandomRoadPointInZone(TRUE, zone, down) \in Corners
<1> DEFINE snapped == {i \in DOMAIN DrawnIn[zone] :
                          NearestRoadPoint(TRUE, DrawnIn[zone][i], MaxSnap, Up) # NoPoint}
           drawn == NearestTo[DrawnIn[zone][Min(snapped)]]
           centre == NearestRoadPoint(TRUE, CentreOf[zone], MaxSnap, Up)
           last == NearestRoadPoint(TRUE, CentreOf[zone], Anywhere, Up)
           inside == CHOOSE c \in Inside[zone] : TRUE
<1>1. snapped # {} => drawn \in Corners
  <2> SUFFICES ASSUME snapped # {} PROVE drawn \in Corners
    OBVIOUS
  <2>1. DrawnIn[zone] \in Seq(Points)
    BY RoutingAssumption
  <2>2. \A i \in DOMAIN DrawnIn[zone] : i \in Nat /\ DrawnIn[zone][i] \in Points
    BY <2>1
  <2>3. snapped \in SUBSET Nat /\ snapped \subseteq DOMAIN DrawnIn[zone]
    BY <2>2
  <2> HIDE DEF snapped
  <2>4. Min(snapped) \in snapped
    BY <2>3, LeastIsThere
  <2>5. DrawnIn[zone][Min(snapped)] \in Points
    BY <2>2, <2>3, <2>4
  <2> QED BY <2>5, RoutingAssumption
<1>2. \A limit : NearestRoadPoint(TRUE, CentreOf[zone], limit, Up) \in Corners \cup {NoPoint}
  BY RoutingAssumption DEF NearestRoadPoint, QueryWithRetry
<1>3. centre \in Corners \cup {NoPoint} /\ last \in Corners \cup {NoPoint}
  BY <1>2
<1>4. Inside[zone] # {} => inside \in Corners
  BY RoutingAssumption
<1>5. RandomRoadPointInZone(TRUE, zone, down) \in
        (IF snapped # {} THEN {drawn} ELSE {}) \cup ({centre, last} \ {NoPoint})
          \cup (IF Inside[zone] # {} THEN {inside} ELSE {}) \cup {Refused}
  BY DEF RandomRoadPointInZone
<1> QED BY <1>1, <1>3, <1>4, <1>5

\* Whatever is drawn, the zone picked is one of those there are.
LEMMA PickedIsOpen ==
    ASSUME NEW open \in SUBSET Zones, open # {}, NEW share
    PROVE  PickZone(open, share) \in open
<1> DEFINE places == {i \in DOMAIN ZoneOrder : ZoneOrder[i] \in open}
<1>1. ZoneOrder \in Seq(Zones) /\ places # {}
  BY HistoryAssumption
<1>2. places \in SUBSET Nat /\ places \in SUBSET (0..Len(ZoneOrder)) /\ Len(ZoneOrder) \in Nat
  BY <1>1
<1>3. Min(places) \in places /\ Max(places) \in places
  BY <1>1, <1>2, LeastIsThere, GreatestIsThere
<1> QED BY <1>3 DEF PickZone

\* A half restored graph closes every zone that there is.
LEMMA OpenNeedsNetwork ==
    ASSUME Inductive, CloseZones
    PROVE  Open' # {} => Network'
<1>1. graph' = graph
  BY DEF CloseZones
<1>2. PICK L : zones' = [z \in Zones |->
                 IF z \in SourceZones
                    /\ NearestRoadPoint(Network, CentreOf[z], MaxSnap,
                                        IF z \in L THEN Down ELSE Up) = NoPoint
                 THEN "closed" ELSE zones[z]]
  BY DEF CloseZones
<1> SUFFICES ASSUME NEW z \in Zones, zones'[z] = "open", ~Network PROVE FALSE
  BY <1>1 DEF Open, Network
<1>3. zones[z] = "open"
  BY <1>2
<1>4. z \in SourceZones
  BY <1>3 DEF Inductive, CityKept, SourceZones
<1>5. NearestRoadPoint(Network, CentreOf[z], MaxSnap, IF z \in L THEN Down ELSE Up) = NoPoint
  BY DEF NearestRoadPoint, QueryWithRetry
<1> QED BY <1>2, <1>4, <1>5

\* The people are put where a road is, or nobody is.
LEMMA PeopleOnCorners ==
    ASSUME Streets, SeedPeople
    PROVE  Streets'
<1> DEFINE open == {z \in Zones : zones[z] = "open"}
           points(L) == BuildRoadPointPools(Network, open,
                            [z \in open |-> {q \in PointQueries : <<z, q>> \in L}])
<1>1. open = Open /\ pc = "people"
  BY DEF Open, SeedPeople
<1>2. CASE Fail /\ people' = people
  BY <1>2 DEF Fail, Forget, Streets
<1>3. CASE \E L : /\ open # {} /\ \A z \in open : points(L)[z] # Refused
                  /\ people' = IF DOMAIN people = Drivers THEN people
                               ELSE [d \in Drivers |-> points(L)[PickZone(open, seed.home[d])]]
                  /\ pools' = points(L) /\ pc' = "calibrate"
  <2>1. PICK L : /\ open # {} /\ \A z \in open : points(L)[z] # Refused
                 /\ people' = IF DOMAIN people = Drivers THEN people
                              ELSE [d \in Drivers |-> points(L)[PickZone(open, seed.home[d])]]
                 /\ pools' = points(L) /\ pc' = "calibrate"
    BY <1>3
  <2>2. Network
    BY <1>1, <2>1 DEF Streets
  <2>3. \A z \in open : points(L)[z] \in Corners
    BY <2>1, <2>2, PointIsCorner DEF BuildRoadPointPools
  <2>4. DOMAIN points(L) = open
    BY DEF BuildRoadPointPools
  <2>5. \A share : PickZone(open, share) \in open
    BY <2>1, PickedIsOpen
  <2> HIDE DEF open, points
  <2>6. \A d \in DOMAIN people' : people'[d] \in Corners
    BY <2>1, <2>3, <2>5 DEF Streets
  <2> QED BY <2>1, <2>3, <2>4, <2>6 DEF Streets
<1>4. \E L : \/ Fail /\ people' = people
             \/ /\ open # {} /\ \A z \in open : points(L)[z] # Refused
                /\ people' = IF DOMAIN people = Drivers THEN people
                             ELSE [d \in Drivers |-> points(L)[PickZone(open, seed.home[d])]]
                /\ pools' = points(L) /\ pc' = "calibrate"
  <2>1. PICK L \in MayLose(open \X PointQueries) :
          IF open = {} \/ (\E z \in open : points(L)[z] = Refused)
          THEN Fail /\ people' = people
          ELSE /\ people' = IF DOMAIN people = Drivers THEN people
                            ELSE [d \in Drivers |-> points(L)[PickZone(open, seed.home[d])]]
               /\ grid' = open /\ pools' = points(L)
               /\ pc' = "calibrate" /\ UNCHANGED <<week, done>>
    BY Zenon DEF SeedPeople
  <2> HIDE DEF open, points
  <2> QED BY <2>1
<1>5. QED
  BY <1>2, <1>3, <1>4

LEMMA StreetsStep ==
    ASSUME Inductive, Streets, [Next]_vars
    PROVE  Streets'
<1>1. CASE SeedPeople
  BY <1>1, PeopleOnCorners
<1>2. CASE CloseZones
  <2>1. people' = people /\ pools' = pools
    BY <1>2 DEF CloseZones, memory
  <2> QED BY <1>2, <2>1, OpenNeedsNetwork DEF Streets
<1>3. CASE ~SeedPeople /\ ~CloseZones
  <2>1. people' = people /\ (pools' = pools \/ pools' = <<>>)
    BY <1>3 DEF Next, Make, Prepare, Rebuild, Populate, Fill, vars, city, memory, Forget, Fail,
       EndPhase, CreateDatabase, CreateSchema, CheckMarker, Migrate, Migrated, Restore,
       RestoreWays, RestoreCorners, ImportMap, InsertZones, Calibrate, SeedTraffic, GenerateWeek,
       CheckDuplicates, StoreTrips, StoreOffers, StoreRatings, CheckWarehouse, LoadWarehouse,
       SetMarker, Serve, Die, NewDay
  <2>2. pc' = "people" => pc = "people" /\ graph' = graph /\ zones' = zones
    BY <1>3 DEF Next, Make, Prepare, Rebuild, Populate, Fill, vars, city, memory, Forget, Fail,
       EndPhase, CreateDatabase, CreateSchema, CheckMarker, Migrate, Migrated, Restore,
       RestoreWays, RestoreCorners, ImportMap, InsertZones, Calibrate, SeedTraffic, GenerateWeek,
       CheckDuplicates, StoreTrips, StoreOffers, StoreRatings, CheckWarehouse, LoadWarehouse,
       SetMarker, Serve, Die, NewDay, NextRow
  <2> QED BY <2>1, <2>2 DEF Streets, Open, Network
<1>4. QED
  BY <1>1, <1>2, <1>3

\* No car stands off the streets, no trip of the week begins or ends off them,
\* and no service is released into a zone without a road.
THEOREM CarsOnTheStreets == Spec => []OnTheStreets
<1>1. Init => Streets
  BY DEF Init, Streets
<1>2. Inductive /\ Streets => OnTheStreets
  BY DEF Inductive, CityKept, Streets, OnTheStreets
<1>3. QED
  BY <1>1, <1>2, StreetsStep, BootstrapInductive, PTL DEF Spec

-----------------------------------------------------------------------------
(* The warehouse: ClickHouse would take the same row twice, so what keeps    *)
(* tables without repetition is the order of the load and the look at       *)
(* trip_events before it, over any number of deaths and runs.               *)

AllEmpty == \A t \in DOMAIN Empty : warehouse[t] = <<>>

\* While a table is loaded, each of its rows is a batch that was sent; at any
\* other time, an empty trip_events means that nothing was ever loaded.
Loading ==
    /\ done \in Nat
    /\ pc \notin {"trips", "offers", "ratings", "load"} => done = 0
    /\ DOMAIN warehouse = DOMAIN Empty
    /\ \A t \in DOMAIN Empty : \E R : warehouse[t] \in Seq(R)
    /\ pc # "load" => warehouse["trip_events"] # <<>> \/ AllEmpty
    /\ pc = "load" =>
          /\ done <= Len(Batches)
          /\ IF done = 0 THEN AllEmpty ELSE warehouse["trip_events"] # <<>>
          /\ \A t \in DOMAIN Empty : \A k \in DOMAIN warehouse[t] :
                \E j \in 1..done : Batches[j] = [table |-> t, row |-> warehouse[t][k]]

\* A sequence of batches of these tables, none twice.
Distinct(s, tables) ==
    /\ \E R : s \in Seq(R)
    /\ \A i \in DOMAIN s : \E t \in tables : \E x : s[i] = [table |-> t, row |-> x]
    /\ \A i, j \in DOMAIN s : s[i] = s[j] => i = j

LEMMA ConcatDistinct ==
    ASSUME NEW s, NEW u, NEW T, NEW U, Distinct(s, T), Distinct(u, U), T \cap U = {}
    PROVE  /\ Distinct(s \o u, T \cup U)
           /\ s # <<>> => s \o u # <<>> /\ (s \o u)[1] = s[1]
<1>1. PICK R : s \in Seq(R)
  BY DEF Distinct
<1>2. PICK Q : u \in Seq(Q)
  BY DEF Distinct
<1>3. Len(s) \in Nat /\ Len(u) \in Nat /\ DOMAIN s = 1..Len(s) /\ DOMAIN u = 1..Len(u)
  BY <1>1, <1>2
<1>4. s \in Seq(R \cup Q) /\ u \in Seq(R \cup Q)
  BY <1>1, <1>2
<1>5. /\ s \o u \in Seq(R \cup Q) /\ Len(s \o u) = Len(s) + Len(u)
      /\ \A i \in 1..Len(s) : (s \o u)[i] = s[i]
      /\ \A i \in (Len(s) + 1)..(Len(s) + Len(u)) : (s \o u)[i] = u[i - Len(s)]
  BY <1>4
<1>6. DOMAIN (s \o u) = 1..(Len(s) + Len(u))
  BY <1>5
<1>7. ASSUME NEW i \in DOMAIN (s \o u)
      PROVE  \/ i \in DOMAIN s /\ (s \o u)[i] = s[i]
             \/ i > Len(s) /\ i - Len(s) \in DOMAIN u /\ (s \o u)[i] = u[i - Len(s)]
  <2>1. i \in 1..Len(s) \/ (i \in (Len(s) + 1)..(Len(s) + Len(u)) /\ i - Len(s) \in 1..Len(u))
    BY <1>3, <1>6
  <2> QED BY <1>3, <1>5, <2>1
<1>8. ASSUME NEW i \in DOMAIN (s \o u)
      PROVE  \E t \in T \cup U : \E x : (s \o u)[i] = [table |-> t, row |-> x]
  <2>1. \A k \in DOMAIN s : \E t \in T \cup U : \E x : s[k] = [table |-> t, row |-> x]
    BY DEF Distinct
  <2>2. \A k \in DOMAIN u : \E t \in T \cup U : \E x : u[k] = [table |-> t, row |-> x]
    BY DEF Distinct
  <2>3. CASE i \in DOMAIN s /\ (s \o u)[i] = s[i]
    BY <2>1, <2>3, Zenon
  <2>4. CASE i > Len(s) /\ i - Len(s) \in DOMAIN u /\ (s \o u)[i] = u[i - Len(s)]
    BY <2>2, <2>4, Zenon
  <2> QED BY <1>7, <2>3, <2>4
<1>9. ASSUME NEW i \in DOMAIN (s \o u), NEW j \in DOMAIN (s \o u), (s \o u)[i] = (s \o u)[j]
      PROVE  i = j
  <2>1. i \in Nat /\ j \in Nat
    BY <1>3, <1>6
  <2>2. CASE i \in DOMAIN s /\ (s \o u)[i] = s[i] /\ j \in DOMAIN s /\ (s \o u)[j] = s[j]
    BY <1>9, <2>2 DEF Distinct
  <2>3. CASE /\ i - Len(s) \in DOMAIN u /\ (s \o u)[i] = u[i - Len(s)]
             /\ j - Len(s) \in DOMAIN u /\ (s \o u)[j] = u[j - Len(s)]
    <3>1. i - Len(s) = j - Len(s)
      BY <1>9, <2>3 DEF Distinct
    <3> QED BY <3>1, <2>1, <1>3
  <2>4. \A a \in DOMAIN s, b \in DOMAIN u : s[a] # u[b]
    <3> SUFFICES ASSUME NEW a \in DOMAIN s, NEW b \in DOMAIN u, s[a] = u[b] PROVE FALSE
      OBVIOUS
    <3>1. (\E t \in T : s[a].table = t) /\ (\E t \in U : u[b].table = t)
      BY DEF Distinct
    <3> QED BY <3>1
  <2> QED BY <1>7, <1>9, <2>2, <2>3, <2>4
<1>10. s # <<>> => (s \o u)[1] = s[1] /\ s \o u # <<>>
  <2> SUFFICES ASSUME s # <<>> PROVE (s \o u)[1] = s[1] /\ s \o u # <<>>
    OBVIOUS
  <2>1. Len(s) >= 1
    BY <1>1
  <2>2. Len(s \o u) >= 1
    BY <1>3, <1>5, <2>1
  <2> QED BY <1>3, <1>5, <2>1, <2>2
<1> QED BY <1>5, <1>8, <1>9, <1>10 DEF Distinct

TableNames == {"trip_events", "dispatch_offers", "driver_positions", "rider_positions",
               "hotspot_history"}

LEMMA TablesAre ==
    /\ DOMAIN Empty = TableNames
    /\ Tables[1] = "trip_events" /\ Tables[2] = "dispatch_offers"
    /\ Tables[3] = "driver_positions" /\ Tables[4] = "rider_positions"
    /\ Tables[5] = "hotspot_history"
<1>1. DOMAIN Tables = 1..5
  BY DEF Tables
<1>2. 1..5 = {1, 2, 3, 4, 5}
  OBVIOUS
<1>3. /\ Tables[1] = "trip_events" /\ Tables[2] = "dispatch_offers"
      /\ Tables[3] = "driver_positions" /\ Tables[4] = "rider_positions"
      /\ Tables[5] = "hotspot_history"
  BY DEF Tables
<1>4. {Tables[i] : i \in DOMAIN Tables} = TableNames
  BY <1>1, <1>2, <1>3 DEF TableNames
<1> QED BY <1>3, <1>4 DEF Empty

\* The batches of a week without repetition: none is sent twice, and the first
\* is one of trip_events.
LEMMA BatchesAreDistinct ==
    ASSUME WeekHasNoRowTwice, pc = "load"
    PROVE  /\ Distinct(Batches, TableNames)
           /\ Batches # <<>> /\ Batches[1].table = "trip_events"
<1>1. ASSUME NEW t \in TableNames
      PROVE  Distinct(RowsFor(t), {t})
  <2>1. PICK R : week[t] \in Seq(R)
    BY TablesAre DEF WeekHasNoRowTwice, NoRowTwice
  <2>2. RowsFor(t) \in Seq([table : {t}, row : R]) /\ DOMAIN RowsFor(t) = DOMAIN week[t]
    <3>1. Len(week[t]) \in Nat /\ DOMAIN week[t] = 1..Len(week[t])
          /\ \A i \in 1..Len(week[t]) : week[t][i] \in R
      BY <2>1
    <3>2. RowsFor(t) \in [1..Len(week[t]) -> [table : {t}, row : R]]
      BY <3>1 DEF RowsFor
    <3> QED BY <3>1, <3>2, SeqDef DEF RowsFor
  <2>3. \A i \in DOMAIN week[t] : RowsFor(t)[i] = [table |-> t, row |-> week[t][i]]
    BY DEF RowsFor
  <2>4. \A i, j \in DOMAIN week[t] : week[t][i] = week[t][j] => i = j
    BY TablesAre DEF WeekHasNoRowTwice, NoRowTwice
  <2>5. \A i, j \in DOMAIN week[t] : RowsFor(t)[i] = RowsFor(t)[j] => week[t][i] = week[t][j]
    <3> SUFFICES ASSUME NEW i \in DOMAIN week[t], NEW j \in DOMAIN week[t],
                        RowsFor(t)[i] = RowsFor(t)[j]
                 PROVE  week[t][i] = week[t][j]
      OBVIOUS
    <3>1. [table |-> t, row |-> week[t][i]] = [table |-> t, row |-> week[t][j]]
      BY <2>3
    <3> QED BY <3>1
  <2>6. \A i \in DOMAIN RowsFor(t) : \E v \in {t} : \E x : RowsFor(t)[i] = [table |-> v, row |-> x]
    BY <2>2, <2>3
  <2>7. \A i, j \in DOMAIN RowsFor(t) : RowsFor(t)[i] = RowsFor(t)[j] => i = j
    BY <2>2, <2>4, <2>5
  <2>8. \E Q : RowsFor(t) \in Seq(Q)
    BY <2>2
  <2> QED BY <2>6, <2>7, <2>8 DEF Distinct
<1> DEFINE a == RowsFor("trip_events")
           b == a \o RowsFor("dispatch_offers")
           c == b \o RowsFor("driver_positions")
           d == c \o RowsFor("rider_positions")
<1>2. Batches = d \o RowsFor("hotspot_history")
  BY TablesAre DEF Batches
<1>3. a # <<>> /\ a[1].table = "trip_events" /\ Distinct(a, {"trip_events"})
  <2>1. PICK R : week["trip_events"] \in Seq(R)
    BY TablesAre DEF WeekHasNoRowTwice, NoRowTwice, TableNames
  <2>2. 1 \in DOMAIN week["trip_events"]
    BY <2>1 DEF WeekHasNoRowTwice, NoRowTwice
  <2>3. DOMAIN a = DOMAIN week["trip_events"]
    BY DEF RowsFor
  <2> QED BY <1>1, <2>2, <2>3 DEF RowsFor, TableNames
<1>4. \A t \in TableNames : Distinct(RowsFor(t), {t})
  BY <1>1
<1> HIDE DEF a
<1>5. Distinct(b, {"trip_events", "dispatch_offers"}) /\ b # <<>> /\ b[1] = a[1]
  <2>1. {"trip_events", "dispatch_offers"} = {"trip_events"} \cup {"dispatch_offers"}
    OBVIOUS
  <2> QED BY <1>3, <1>4, <2>1, ConcatDistinct DEF TableNames
<1> HIDE DEF b
<1>6. Distinct(c, {"trip_events", "dispatch_offers", "driver_positions"}) /\ c # <<>> /\ c[1] = b[1]
  <2>1. {"trip_events", "dispatch_offers", "driver_positions"}
          = {"trip_events", "dispatch_offers"} \cup {"driver_positions"}
    OBVIOUS
  <2> QED BY <1>5, <1>4, <2>1, ConcatDistinct DEF TableNames
<1> HIDE DEF c
<1>7. /\ Distinct(d, {"trip_events", "dispatch_offers", "driver_positions", "rider_positions"})
      /\ d # <<>> /\ d[1] = c[1]
  <2>1. {"trip_events", "dispatch_offers", "driver_positions", "rider_positions"}
          = {"trip_events", "dispatch_offers", "driver_positions"} \cup {"rider_positions"}
    OBVIOUS
  <2> QED BY <1>6, <1>4, <2>1, ConcatDistinct DEF TableNames
<1> HIDE DEF d
<1>8. Distinct(Batches, TableNames) /\ Batches # <<>> /\ Batches[1] = d[1]
  <2>1. TableNames
          = {"trip_events", "dispatch_offers", "driver_positions", "rider_positions"}
              \cup {"hotspot_history"}
    BY DEF TableNames
  <2>2. "hotspot_history" \in TableNames
    BY DEF TableNames
  <2> QED BY <1>7, <1>4, <1>2, <2>1, <2>2, ConcatDistinct
<1> QED BY <1>3, <1>5, <1>6, <1>7, <1>8

\* One more batch sent: its row is new to its table.
LEMMA BatchIsNew ==
    ASSUME Loading, NothingDoubled, WeekHasNoRowTwice, LoadWarehouse
    PROVE  Loading' /\ NothingDoubled'
<1>1. pc = "load" /\ week' = week /\ done \in Nat /\ done <= Len(Batches)
  BY DEF LoadWarehouse, Loading
<1>2. Distinct(Batches, TableNames) /\ Batches # <<>> /\ Batches[1].table = "trip_events"
  BY <1>1, BatchesAreDistinct
<1>3. Batches' = Batches
  BY <1>1 DEF Batches, RowsFor
<1>4. Len(Batches) \in Nat /\ Len(Batches) # 0 /\ DOMAIN Batches = 1..Len(Batches)
  BY <1>2 DEF Distinct
<1>5. CASE done = Len(Batches)
  <2>1. warehouse' = warehouse /\ pc' = "marker_set" /\ done' = 0
    BY <1>4, <1>5 DEF LoadWarehouse, NextRow
  <2>2. warehouse["trip_events"] # <<>>
    BY <1>1, <1>4, <1>5 DEF Loading
  <2> QED BY <2>1, <2>2 DEF Loading, NothingDoubled
<1>6. CASE done < Len(Batches)
  <2> DEFINE batch == Batches[done + 1]
  <2>1. pc' = "load" /\ done' = done + 1 /\ done + 1 \in DOMAIN Batches
    <3>1. pc' = pc /\ done' = done + 1
      BY <1>6 DEF LoadWarehouse, NextRow
    <3>2. done + 1 \in 1..Len(Batches)
      BY <1>1, <1>4, <1>6
    <3> QED BY <1>1, <1>4, <3>1, <3>2
  <2>2. warehouse' = [warehouse EXCEPT ![batch.table] = Append(@, batch.row)]
    BY <1>6 DEF LoadWarehouse
  <2>3. batch.table \in DOMAIN Empty /\ batch = [table |-> batch.table, row |-> batch.row]
    <3>1. PICK t \in TableNames : \E x : batch = [table |-> t, row |-> x]
      BY <1>2, <2>1 DEF Distinct
    <3> QED BY <3>1, TablesAre
  <2>4. \A j \in 1..done : Batches[j] # batch
    <3> SUFFICES ASSUME NEW j \in 1..done, Batches[j] = batch PROVE FALSE
      OBVIOUS
    <3>1. j \in DOMAIN Batches /\ j # done + 1
      BY <1>1, <1>4, <1>6
    <3> QED BY <3>1, <1>2, <2>1 DEF Distinct
  <2> DEFINE old == warehouse[batch.table]
  <2>5. PICK R : old \in Seq(R)
    BY <2>3 DEF Loading
  <2>6. old \in Seq(R \cup {batch.row})
    BY <2>5
  <2>7. /\ Append(old, batch.row) \in Seq(R \cup {batch.row})
        /\ DOMAIN Append(old, batch.row) = DOMAIN old \cup {Len(old) + 1}
        /\ \A k \in DOMAIN old : Append(old, batch.row)[k] = old[k]
        /\ Append(old, batch.row)[Len(old) + 1] = batch.row
        /\ Append(old, batch.row) # <<>>
    BY <2>6
  <2>8. /\ DOMAIN warehouse' = DOMAIN Empty
        /\ warehouse'[batch.table] = Append(old, batch.row)
        /\ \A t \in DOMAIN Empty \ {batch.table} : warehouse'[t] = warehouse[t]
    BY <2>2, <2>3 DEF Loading
  <2>9. \A k \in DOMAIN old : \E j \in 1..done : Batches[j] = [table |-> batch.table, row |-> old[k]]
    BY <1>1, <2>3 DEF Loading
  <2> HIDE DEF batch, old
  <2>11. \A k \in DOMAIN old : old[k] # batch.row
    BY <2>3, <2>4, <2>9
  <2>12. \A t \in DOMAIN Empty : \E Q : warehouse'[t] \in Seq(Q)
    BY <2>7, <2>8 DEF Loading
  <2>13. warehouse'["trip_events"] # <<>>
    <3>1. CASE done = 0
      BY <3>1, <1>2, <2>7, <2>8 DEF batch
    <3>2. CASE done # 0
      <4>1. warehouse["trip_events"] # <<>> /\ "trip_events" \in DOMAIN Empty
        BY <1>1, <3>2, TablesAre DEF Loading, TableNames
      <4> QED BY <4>1, <2>7, <2>8
    <3> QED BY <3>1, <3>2
  <2>14. ASSUME NEW t \in DOMAIN Empty, NEW k \in DOMAIN warehouse'[t]
         PROVE  \E j \in 1..(done + 1) : Batches[j] = [table |-> t, row |-> warehouse'[t][k]]
    <3>1. CASE t # batch.table
      <4>1. warehouse'[t] = warehouse[t]
        BY <3>1, <2>8
      <4>2. PICK j \in 1..done : Batches[j] = [table |-> t, row |-> warehouse[t][k]]
        BY <1>1, <4>1 DEF Loading
      <4>3. j \in 1..(done + 1)
        BY <1>1
      <4> QED BY <4>1, <4>2, <4>3
    <3>2. CASE t = batch.table /\ k \in DOMAIN old
      <4>1. PICK j \in 1..done : Batches[j] = [table |-> t, row |-> old[k]]
        BY <2>9, <3>2
      <4>2. j \in 1..(done + 1)
        BY <1>1
      <4>3. warehouse'[t][k] = old[k]
        BY <2>7, <2>8, <3>2
      <4> QED BY <4>1, <4>2, <4>3
    <3>3. CASE t = batch.table /\ k = Len(old) + 1
      <4>1. warehouse'[t][k] = batch.row /\ Batches[done + 1] = [table |-> t, row |-> batch.row]
        BY <2>3, <2>7, <2>8, <3>3 DEF batch
      <4>2. done + 1 \in 1..(done + 1)
        BY <1>1
      <4> QED BY <4>1, <4>2
    <3> QED BY <2>7, <2>8, <3>1, <3>2, <3>3
  <2>15. ASSUME NEW t \in DOMAIN Empty, NEW i \in DOMAIN warehouse'[t], NEW j \in DOMAIN warehouse'[t],
                warehouse'[t][i] = warehouse'[t][j]
         PROVE  i = j
    <3>1. CASE t # batch.table
      BY <3>1, <2>8, <2>15 DEF NothingDoubled, Loading
    <3>2. CASE t = batch.table
      <4>1. \A m, n \in DOMAIN old : old[m] = old[n] => m = n
        BY <2>3 DEF NothingDoubled, Loading, old
      <4>2. i \in DOMAIN old \cup {Len(old) + 1} /\ j \in DOMAIN old \cup {Len(old) + 1}
            /\ Append(old, batch.row)[i] = Append(old, batch.row)[j]
        BY <3>2, <2>7, <2>8, <2>15
      <4> QED BY <4>1, <4>2, <2>7, <2>11
    <3> QED BY <3>1, <3>2
  <2>16. done + 1 <= Len(Batches) /\ done + 1 \in Nat /\ done + 1 # 0
    BY <1>1, <1>4, <1>6
  <2>17. Loading'
    BY <1>3, <2>1, <2>8, <2>12, <2>13, <2>14, <2>16 DEF Loading
  <2>18. NothingDoubled'
    BY <2>8, <2>15 DEF NothingDoubled
  <2> QED BY <2>17, <2>18
<1>7. done = Len(Batches) \/ done < Len(Batches)
  <2>1. \A m, n \in Nat : m <= n => m = n \/ m < n
    OBVIOUS
  <2> QED BY <1>1, <1>4, <2>1
<1> QED BY <1>5, <1>6, <1>7

\* Every other step leaves the warehouse alone.
LEMMA LoadingStep ==
    ASSUME Loading, NothingDoubled, WeekHasNoRowTwice, [Next]_vars
    PROVE  Loading' /\ NothingDoubled'
<1>1. CASE LoadWarehouse
  BY <1>1, BatchIsNew
<1>2. CASE ~LoadWarehouse
  <2>1. warehouse' = warehouse
    BY <1>2 DEF Next, Make, Prepare, Rebuild, Populate, Fill, vars, CreateDatabase, CreateSchema,
       CheckMarker, Migrate, Migrated, Restore, RestoreWays, RestoreCorners, ImportMap,
       InsertZones, CloseZones, SeedPeople, Calibrate, SeedTraffic, GenerateWeek,
       CheckDuplicates, StoreTrips, StoreOffers, StoreRatings, CheckWarehouse, SetMarker, Serve,
       Die, NewDay
  <2>2. NothingDoubled'
    BY <2>1 DEF NothingDoubled
  <2>3. /\ done' \in Nat
        /\ pc' \notin {"trips", "offers", "ratings", "load"} => done' = 0
    <3>1. done \in Nat /\ done + 1 \in Nat
          /\ (pc \notin {"trips", "offers", "ratings", "load"} => done = 0)
      BY DEF Loading
    <3>2. CASE StoreTrips \/ StoreOffers \/ StoreRatings
      BY <3>1, <3>2 DEF StoreTrips, StoreOffers, StoreRatings, NextRow, Fail, Forget
    <3>3. CASE ~(StoreTrips \/ StoreOffers \/ StoreRatings)
      <4>1. done' = 0 \/ (done' = done /\ (pc' = pc \/ pc \notin {"trips", "offers", "ratings", "load"}))
        BY <1>2, <3>3 DEF Next, Make, Prepare, Rebuild, Populate, Fill, vars, memory, Forget, Fail,
           EndPhase, CreateDatabase, CreateSchema,
           CheckMarker, Migrate, Migrated, Restore, RestoreWays, RestoreCorners, ImportMap,
           InsertZones, CloseZones, SeedPeople, Calibrate, SeedTraffic, GenerateWeek,
           CheckDuplicates, CheckWarehouse, SetMarker, Serve, Die, NewDay
      <4> QED BY <3>1, <4>1
    <3> QED BY <3>2, <3>3
  <2>4. pc' = "load" => \/ pc = "load" /\ week' = week /\ done' = done
                        \/ pc = "warehouse" /\ warehouse["trip_events"] = <<>> /\ done' = done
    BY <1>2 DEF Next, Make, Prepare, Rebuild, Populate, Fill, vars, memory, Forget, Fail,
       EndPhase, NextRow, CreateDatabase, CreateSchema,
       CheckMarker, Migrate, Migrated, Restore, RestoreWays, RestoreCorners, ImportMap,
       InsertZones, CloseZones, SeedPeople, Calibrate, SeedTraffic, GenerateWeek,
       CheckDuplicates, StoreTrips, StoreOffers, StoreRatings, CheckWarehouse, SetMarker, Serve,
       Die, NewDay
  <2>5. warehouse["trip_events"] # <<>> \/ AllEmpty
    BY DEF Loading
  <2>6. CASE pc' = "load" /\ pc = "load" /\ week' = week /\ done' = done
    <3>1. Batches' = Batches
      BY <2>6 DEF Batches, RowsFor
    <3> QED BY <3>1, <2>1, <2>2, <2>3, <2>6 DEF Loading, AllEmpty
  <2>7. CASE pc' = "load" /\ pc = "warehouse" /\ warehouse["trip_events"] = <<>> /\ done' = done
    <3>1. AllEmpty /\ done' = 0
      BY <2>5, <2>7 DEF Loading
    <3>2. week' = week
      BY <1>2, <2>7 DEF Next, Make, Prepare, Rebuild, Populate, Fill, vars, memory, Forget, Fail,
         EndPhase, NextRow, CreateDatabase, CreateSchema,
         CheckMarker, Migrate, Migrated, Restore, RestoreWays, RestoreCorners, ImportMap,
         InsertZones, CloseZones, SeedPeople, Calibrate, SeedTraffic, GenerateWeek,
         CheckDuplicates, StoreTrips, StoreOffers, StoreRatings, CheckWarehouse, SetMarker, Serve,
         Die, NewDay
    <3> QED BY <3>1, <2>1, <2>2, <2>7 DEF Loading, AllEmpty
  <2>8. CASE pc' # "load"
    BY <2>1, <2>2, <2>3, <2>5, <2>8 DEF Loading, AllEmpty
  <2> QED BY <2>4, <2>6, <2>7, <2>8
<1> QED BY <1>1, <1>2

-----------------------------------------------------------------------------
(* Lists put end to end: what FlattenSeq gives, shown by induction over how   *)
(* many of its lists have been put there.                                    *)

\* Induction, about a set of numbers.
LEMMA AllNumbers ==
    ASSUME NEW S, 0 \in S, \A n \in Nat : n \in S => n + 1 \in S
    PROVE  \A n \in Nat : n \in S
<1> DEFINE T == Nat \ S
<1> SUFFICES ASSUME T # {} PROVE FALSE
  OBVIOUS
<1>1. T \subseteq Nat
  OBVIOUS
<1>2. PICK m \in T : \A n \in T : ~(<<n, m>> \in NatLess)
  <2> HIDE DEF T
  <2> QED BY <1>1, NatLessIsWellFounded, WFMin, Zenon
<1>3. m \in Nat /\ m # 0 /\ m \notin S
  BY <1>2
<1>4. m - 1 \in Nat /\ (m - 1) + 1 = m /\ m - 1 < m
  BY <1>3
<1>5. m - 1 \in T
  BY <1>3, <1>4
<1>6. <<m - 1, m>> \in NatLess
  BY <1>3, <1>4 DEF NatLess
<1> QED BY <1>2, <1>5, <1>6

\* The same up to n.
LEMMA AllUpTo ==
    ASSUME NEW n \in Nat, NEW S, 0 \in S, \A k \in 0..(n - 1) : k \in S => k + 1 \in S
    PROVE  \A k \in 0..n : k \in S
<1> DEFINE T == {k \in Nat : k <= n => k \in S}
<1>1. 0 \in T
  OBVIOUS
<1>2. \A k \in Nat : k \in T => k + 1 \in T
  <2> SUFFICES ASSUME NEW k \in Nat, k \in T, k + 1 <= n PROVE k + 1 \in S
    OBVIOUS
  <2>1. k \in 0..(n - 1) /\ k \in S
    OBVIOUS
  <2> QED BY <2>1
<1> HIDE DEF T
<1>3. \A k \in Nat : k \in T
  BY <1>1, <1>2, AllNumbers
<1> QED BY <1>3 DEF T

\* FlattenSeq's own recursion: the list of what is there after each list.
Flattens(f, s) == f = [i \in 1..Len(s) |-> IF i = 1 THEN s[i] ELSE f[i - 1] \o s[i]]

LEMMA FlattenIsLast ==
    ASSUME NEW s
    PROVE  FlattenSeq(s) = IF Len(s) = 0 THEN s ELSE (CHOOSE f : Flattens(f, s))[Len(s)]
  BY Zenon DEF FlattenSeq, Flattens

LEMMA FlattensExists ==
    ASSUME NEW s, Len(s) \in Nat
    PROVE  \E f : Flattens(f, s)
<1> DEFINE Part(f, n) == f = [i \in 1..n |-> IF i = 1 THEN s[i] ELSE f[i - 1] \o s[i]]
           S == {n \in Nat : \E f : Part(f, n)}
<1>1. 0 \in S
  <2>1. Part([i \in 1..0 |-> 0], 0)
    OBVIOUS
  <2> QED BY <2>1
<1>2. ASSUME NEW n \in Nat, n \in S
      PROVE  n + 1 \in S
  <2>1. PICK f : Part(f, n)
    BY <1>2
  <2> DEFINE g == [i \in 1..(n + 1) |-> IF i = 1 THEN s[i] ELSE f[i - 1] \o s[i]]
  <2>2. \A i \in 1..n : g[i] = f[i]
    <3>1. \A i \in 1..n : f[i] = IF i = 1 THEN s[i] ELSE f[i - 1] \o s[i]
      BY <2>1
    <3>2. \A i \in 1..n : i \in 1..(n + 1)
      OBVIOUS
    <3> QED BY <3>1, <3>2
  <2>3. \A i \in 1..(n + 1) : i # 1 => g[i - 1] = f[i - 1]
    <3>1. \A i \in 1..(n + 1) : i # 1 => i - 1 \in 1..n
      OBVIOUS
    <3> HIDE DEF g
    <3> QED BY <2>2, <3>1
  <2>4. Part(g, n + 1)
    <3>1. [i \in 1..(n + 1) |-> IF i = 1 THEN s[i] ELSE f[i - 1] \o s[i]]
            = [i \in 1..(n + 1) |-> IF i = 1 THEN s[i] ELSE g[i - 1] \o s[i]]
      <4> HIDE DEF g
      <4> QED BY <2>3
    <3> QED BY <3>1
  <2> HIDE DEF Part
  <2> QED BY <2>4
<1> HIDE DEF S
<1>3. \A n \in Nat : n \in S
  BY <1>1, <1>2, AllNumbers
<1>4. Len(s) \in S
  BY <1>3
<1> QED BY <1>4 DEF S, Flattens

\* What is there after each list, from nothing to everything.
Grows(p, s, R) ==
    /\ p \in [0..Len(s) -> Seq(R)] /\ p[0] = <<>> /\ p[Len(s)] = FlattenSeq(s)
    /\ \A i \in 1..Len(s) : p[i] = p[i - 1] \o s[i]

LEMMA FlattenGrows ==
    ASSUME NEW R, NEW s \in Seq(Seq(R))
    PROVE  \E p : Grows(p, s, R)
<1>1. Len(s) \in Nat /\ \A i \in 1..Len(s) : s[i] \in Seq(R)
  OBVIOUS
<1> DEFINE f == CHOOSE g : Flattens(g, s)
<1>2. Flattens(f, s)
  BY <1>1, FlattensExists, Zenon
<1>3. FlattenSeq(s) = IF Len(s) = 0 THEN s ELSE f[Len(s)]
  BY FlattenIsLast
<1> HIDE DEF f
<1>4. \A i \in 1..Len(s) : f[i] = IF i = 1 THEN s[i] ELSE f[i - 1] \o s[i]
  BY <1>2 DEF Flattens
<1> DEFINE p == [i \in 0..Len(s) |-> IF i = 0 THEN <<>> ELSE f[i]]
<1>5. p[0] = <<>> /\ \A i \in 1..Len(s) : p[i] = f[i]
  BY <1>1
<1>6. \A x \in Seq(R) : <<>> \o x = x
  OBVIOUS
<1>7. \A i \in 1..Len(s) : p[i] = p[i - 1] \o s[i]
  <2> SUFFICES ASSUME NEW i \in 1..Len(s) PROVE p[i] = p[i - 1] \o s[i]
    OBVIOUS
  <2>1. CASE i = 1
    <3>1. p[1] = s[1] /\ p[0] = <<>> /\ s[1] \in Seq(R) /\ i - 1 = 0
      BY <1>1, <1>4, <1>5, <2>1
    <3> HIDE DEF p
    <3> QED BY <1>6, <2>1, <3>1
  <2>2. CASE i # 1
    <3>1. i - 1 \in 1..Len(s)
      BY <1>1, <2>2
    <3> HIDE DEF p
    <3> QED BY <1>4, <1>5, <2>2, <3>1
  <2> QED BY <2>1, <2>2
<1>8. p[Len(s)] = FlattenSeq(s)
  <2>1. CASE Len(s) = 0
    <3>1. s = <<>>
      BY <2>1
    <3> HIDE DEF p
    <3> QED BY <1>3, <1>5, <2>1, <3>1
  <2>2. CASE Len(s) # 0
    <3>1. Len(s) \in 1..Len(s)
      BY <1>1, <2>2
    <3> HIDE DEF p
    <3> QED BY <1>3, <1>5, <2>2, <3>1
  <2> QED BY <2>1, <2>2
<1>9. DOMAIN p = 0..Len(s) /\ p = [i \in 0..Len(s) |-> p[i]]
  OBVIOUS
<1> HIDE DEF p
<1>10. \A i \in 0..Len(s) : p[i] \in Seq(R)
  <2> DEFINE S == {i \in 0..Len(s) : p[i] \in Seq(R)}
  <2>1. 0 \in S
    <3>1. 0 \in 0..Len(s) /\ <<>> \in Seq(R)
      BY <1>1
    <3> QED BY <1>5, <3>1
  <2>2. ASSUME NEW i \in 0..(Len(s) - 1), i \in S
        PROVE  i + 1 \in S
    <3>1. i + 1 \in 1..Len(s) /\ i + 1 \in 0..Len(s) /\ (i + 1) - 1 = i
      BY <1>1
    <3>2. p[i + 1] = p[i] \o s[i + 1]
      BY <1>7, <3>1
    <3>3. p[i] \in Seq(R) /\ s[i + 1] \in Seq(R)
      BY <1>1, <2>2, <3>1
    <3>4. \A a, b \in Seq(R) : a \o b \in Seq(R)
      OBVIOUS
    <3>5. p[i + 1] \in Seq(R)
      BY <3>2, <3>3, <3>4
    <3> QED BY <3>1, <3>5
  <2> HIDE DEF S
  <2>3. \A i \in 0..Len(s) : i \in S
    BY <1>1, <2>1, <2>2, AllUpTo
  <2> QED BY <2>3 DEF S
<1>11. p \in [0..Len(s) -> Seq(R)]
  BY <1>9, <1>10
<1>12. Grows(p, s, R)
  BY <1>5, <1>7, <1>8, <1>11 DEF Grows
<1> QED BY <1>12
LEMMA Concats ==
    ASSUME NEW R, NEW a \in Seq(R), NEW b \in Seq(R)
    PROVE  /\ a \o b \in Seq(R) /\ Len(a \o b) = Len(a) + Len(b)
           /\ Len(a) \in Nat /\ Len(b) \in Nat /\ DOMAIN (a \o b) = 1..(Len(a) + Len(b))
           /\ \A i \in DOMAIN a : i \in DOMAIN (a \o b) /\ (a \o b)[i] = a[i]
           /\ \A i \in DOMAIN (a \o b) :
                 \/ i \in DOMAIN a /\ (a \o b)[i] = a[i]
                 \/ i - Len(a) \in DOMAIN b /\ (a \o b)[i] = b[i - Len(a)]
           /\ \A j \in DOMAIN b : Len(a) + j \in DOMAIN (a \o b) /\ (a \o b)[Len(a) + j] = b[j]
<1>1. /\ a \o b \in Seq(R) /\ Len(a \o b) = Len(a) + Len(b) /\ Len(a) \in Nat /\ Len(b) \in Nat
      /\ DOMAIN a = 1..Len(a) /\ DOMAIN b = 1..Len(b)
      /\ \A i \in 1..(Len(a) + Len(b)) :
            (a \o b)[i] = IF i <= Len(a) THEN a[i] ELSE b[i - Len(a)]
  OBVIOUS
<1>2. DOMAIN (a \o b) = 1..(Len(a) + Len(b))
  BY <1>1
<1>3. ASSUME NEW i \in DOMAIN (a \o b)
      PROVE  \/ i \in DOMAIN a /\ (a \o b)[i] = a[i]
             \/ i - Len(a) \in DOMAIN b /\ (a \o b)[i] = b[i - Len(a)]
  <2>1. CASE i <= Len(a)
    BY <1>1, <1>2, <2>1
  <2>2. CASE ~(i <= Len(a))
    BY <1>1, <1>2, <2>2
  <2> QED BY <2>1, <2>2
<1>4. ASSUME NEW j \in DOMAIN b
      PROVE  Len(a) + j \in DOMAIN (a \o b) /\ (a \o b)[Len(a) + j] = b[j]
  <2>1. Len(a) + j \in 1..(Len(a) + Len(b)) /\ ~(Len(a) + j <= Len(a)) /\ (Len(a) + j) - Len(a) = j
    BY <1>1
  <2> QED BY <1>1, <1>2, <2>1
<1>5. \A i \in DOMAIN a : i \in DOMAIN (a \o b) /\ (a \o b)[i] = a[i]
  BY <1>1, <1>2
<1> QED BY <1>1, <1>2, <1>3, <1>4, <1>5

\* A list without repetition.
Once(x) ==
    /\ x \in Seq({x[i] : i \in DOMAIN x})
    /\ \A i, j \in DOMAIN x : x[i] = x[j] => i = j

LEMMA IsOnce ==
    ASSUME NEW R, NEW x \in Seq(R), \A i, j \in DOMAIN x : x[i] = x[j] => i = j
    PROVE  Once(x)
<1>1. Len(x) \in Nat /\ DOMAIN x = 1..Len(x) /\ x = [i \in 1..Len(x) |-> x[i]]
  OBVIOUS
<1>2. x \in [1..Len(x) -> {x[i] : i \in DOMAIN x}]
  BY <1>1
<1> QED BY <1>1, <1>2, SeqDef DEF Once

LEMMA ConcatOnce ==
    ASSUME NEW R, NEW a \in Seq(R), NEW b \in Seq(R), Once(a), Once(b),
           \A i \in DOMAIN a, j \in DOMAIN b : a[i] # b[j]
    PROVE  Once(a \o b)
<1>1. ASSUME NEW i \in DOMAIN (a \o b), NEW j \in DOMAIN (a \o b), (a \o b)[i] = (a \o b)[j]
      PROVE  i = j
  <2>1. /\ i \in Nat /\ j \in Nat /\ Len(a) \in Nat
        /\ \/ i \in DOMAIN a /\ (a \o b)[i] = a[i]
           \/ i - Len(a) \in DOMAIN b /\ (a \o b)[i] = b[i - Len(a)]
        /\ \/ j \in DOMAIN a /\ (a \o b)[j] = a[j]
           \/ j - Len(a) \in DOMAIN b /\ (a \o b)[j] = b[j - Len(a)]
    BY Concats
  <2>2. CASE i \in DOMAIN a /\ (a \o b)[i] = a[i] /\ j \in DOMAIN a /\ (a \o b)[j] = a[j]
    BY <1>1, <2>2 DEF Once
  <2>3. CASE /\ i - Len(a) \in DOMAIN b /\ (a \o b)[i] = b[i - Len(a)]
             /\ j - Len(a) \in DOMAIN b /\ (a \o b)[j] = b[j - Len(a)]
    <3>1. i - Len(a) = j - Len(a)
      BY <1>1, <2>3 DEF Once
    <3> QED BY <2>1, <3>1
  <2> QED BY <1>1, <2>1, <2>2, <2>3
<1>2. a \o b \in Seq(R)
  BY Concats
<1> QED BY <1>1, <1>2, IsOnce

\* What is there after n lists comes from one of them.
LEMMA GrowsFrom ==
    ASSUME NEW R, NEW s \in Seq(Seq(R)), NEW p, Grows(p, s, R)
    PROVE  \A n \in 0..Len(s) : \A k \in DOMAIN p[n] :
              \E i \in 1..n : \E j \in DOMAIN s[i] : p[n][k] = s[i][j]
<1> DEFINE S == {n \in 0..Len(s) : \A k \in DOMAIN p[n] :
                                    \E i \in 1..n : \E j \in DOMAIN s[i] : p[n][k] = s[i][j]}
<1>1. Len(s) \in Nat /\ \A i \in 1..Len(s) : s[i] \in Seq(R)
  OBVIOUS
<1>2. 0 \in S
  <2>1. p[0] = <<>> /\ 0 \in 0..Len(s)
    BY <1>1 DEF Grows
  <2> QED BY <2>1
<1>3. ASSUME NEW n \in 0..(Len(s) - 1), n \in S
      PROVE  n + 1 \in S
  <2>1. n + 1 \in 1..Len(s) /\ n + 1 \in 0..Len(s) /\ (n + 1) - 1 = n /\ n \in 0..Len(s)
        /\ n + 1 \in 1..(n + 1) /\ \A i \in 1..n : i \in 1..(n + 1)
    BY <1>1
  <2>2. p[n + 1] = p[n] \o s[n + 1] /\ p[n] \in Seq(R) /\ s[n + 1] \in Seq(R)
    BY <1>1, <2>1 DEF Grows
  <2>3. \A k \in DOMAIN p[n] : \E i \in 1..n : \E j \in DOMAIN s[i] : p[n][k] = s[i][j]
    BY <1>3
  <2>4. ASSUME NEW k \in DOMAIN p[n + 1]
        PROVE  \E i \in 1..(n + 1) : \E j \in DOMAIN s[i] : p[n + 1][k] = s[i][j]
    <3>1. \/ k \in DOMAIN p[n] /\ (p[n] \o s[n + 1])[k] = p[n][k]
          \/ /\ k - Len(p[n]) \in DOMAIN s[n + 1]
             /\ (p[n] \o s[n + 1])[k] = s[n + 1][k - Len(p[n])]
      <4>1. k \in DOMAIN (p[n] \o s[n + 1])
        BY <2>2
      <4>2. \A a, b \in Seq(R) : \A m \in DOMAIN (a \o b) :
               \/ m \in DOMAIN a /\ (a \o b)[m] = a[m]
               \/ m - Len(a) \in DOMAIN b /\ (a \o b)[m] = b[m - Len(a)]
        BY Concats
      <4> HIDE DEF S
      <4> QED BY <2>2, <4>1, <4>2, Zenon
    <3>2. CASE k \in DOMAIN p[n] /\ (p[n] \o s[n + 1])[k] = p[n][k]
      <4>1. PICK i \in 1..n : \E j \in DOMAIN s[i] : p[n][k] = s[i][j]
        BY <2>3, <3>2
      <4> QED BY <2>1, <2>2, <3>2, <4>1
    <3>3. CASE /\ k - Len(p[n]) \in DOMAIN s[n + 1]
               /\ (p[n] \o s[n + 1])[k] = s[n + 1][k - Len(p[n])]
      BY <2>1, <2>2, <3>3
    <3> QED BY <3>1, <3>2, <3>3
  <2> QED BY <2>1, <2>4
<1> HIDE DEF S
<1>4. \A n \in 0..Len(s) : n \in S
  BY <1>1, <1>2, <1>3, AllUpTo
<1> QED BY <1>4 DEF S

\* What is put end to end comes from one of the lists.
LEMMA FlattenFrom ==
    ASSUME NEW R, NEW s \in Seq(Seq(R))
    PROVE  /\ FlattenSeq(s) \in Seq(R)
           /\ \A k \in DOMAIN FlattenSeq(s) :
                 \E i \in DOMAIN s : \E j \in DOMAIN s[i] : FlattenSeq(s)[k] = s[i][j]
<1>1. PICK p : Grows(p, s, R)
  BY FlattenGrows
<1>2. Len(s) \in Nat /\ DOMAIN s = 1..Len(s) /\ Len(s) \in 0..Len(s)
  OBVIOUS
<1>3. p[Len(s)] = FlattenSeq(s) /\ p[Len(s)] \in Seq(R)
  BY <1>1, <1>2 DEF Grows
<1>4. \A k \in DOMAIN p[Len(s)] :
         \E i \in 1..Len(s) : \E j \in DOMAIN s[i] : p[Len(s)][k] = s[i][j]
  BY <1>1, <1>2, GrowsFrom
<1>5. ASSUME NEW k \in DOMAIN FlattenSeq(s)
      PROVE  \E i \in DOMAIN s : \E j \in DOMAIN s[i] : FlattenSeq(s)[k] = s[i][j]
  <2>1. PICK i \in 1..Len(s) : \E j \in DOMAIN s[i] : p[Len(s)][k] = s[i][j]
    BY <1>3, <1>4
  <2>2. i \in DOMAIN s
    BY <1>2
  <2> QED BY <1>3, <2>1, <2>2
<1> QED BY <1>3, <1>5

\* Lists without repetition that share nothing, end to end, repeat nothing.
LEMMA FlattenOnce ==
    ASSUME NEW R, NEW s \in Seq(Seq(R)), \A i \in DOMAIN s : Once(s[i]),
           \A i, j \in DOMAIN s : i # j =>
              \A k \in DOMAIN s[i], l \in DOMAIN s[j] : s[i][k] # s[j][l]
    PROVE  Once(FlattenSeq(s))
<1>1. PICK p : Grows(p, s, R)
  BY FlattenGrows
<1>0. \A n \in 0..Len(s) : \A m \in DOMAIN p[n] :
         \E i \in 1..n : \E j \in DOMAIN s[i] : p[n][m] = s[i][j]
  BY <1>1, GrowsFrom
<1> DEFINE S == {n \in 0..Len(s) : Once(p[n])}
<1>2. Len(s) \in Nat /\ DOMAIN s = 1..Len(s) /\ \A i \in 1..Len(s) : s[i] \in Seq(R)
  OBVIOUS
<1>3. 0 \in S
  <2>1. p[0] = <<>> /\ 0 \in 0..Len(s) /\ <<>> \in Seq(R)
    BY <1>1, <1>2 DEF Grows
  <2>2. Once(<<>>)
    <3>1. \A k, l \in DOMAIN <<>> : <<>>[k] = <<>>[l] => k = l
      OBVIOUS
    <3> QED BY <2>1, <3>1, IsOnce
  <2> QED BY <2>1, <2>2
<1>4. ASSUME NEW n \in 0..(Len(s) - 1), n \in S
      PROVE  n + 1 \in S
  <2>1. n + 1 \in 1..Len(s) /\ n + 1 \in 0..Len(s) /\ (n + 1) - 1 = n /\ n \in 0..Len(s)
        /\ \A i \in 1..n : i # n + 1 /\ i \in 1..Len(s)
    BY <1>2
  <2>2. p[n + 1] = p[n] \o s[n + 1] /\ p[n] \in Seq(R) /\ s[n + 1] \in Seq(R)
    BY <1>1, <1>2, <2>1 DEF Grows
  <2>3. \A k \in DOMAIN p[n], l \in DOMAIN s[n + 1] : p[n][k] # s[n + 1][l]
    <3> SUFFICES ASSUME NEW k \in DOMAIN p[n], NEW l \in DOMAIN s[n + 1] PROVE p[n][k] # s[n + 1][l]
      OBVIOUS
    <3>1. PICK i \in 1..n : \E j \in DOMAIN s[i] : p[n][k] = s[i][j]
      BY <1>0, <2>1
    <3>2. PICK j \in DOMAIN s[i] : p[n][k] = s[i][j]
      BY <3>1
    <3>3. i # n + 1 /\ i \in DOMAIN s /\ n + 1 \in DOMAIN s
      BY <1>2, <2>1
    <3> QED BY <3>2, <3>3
  <2>4. Once(s[n + 1]) /\ Once(p[n])
    BY <1>2, <1>4, <2>1
  <2>5. Once(p[n + 1])
    BY <2>2, <2>3, <2>4, ConcatOnce
  <2> QED BY <2>1, <2>5
<1> HIDE DEF S
<1>5. \A n \in 0..Len(s) : n \in S
  BY <1>2, <1>3, <1>4, AllUpTo
<1>6. Len(s) \in S /\ p[Len(s)] = FlattenSeq(s)
  <2>1. Len(s) \in 0..Len(s)
    BY <1>2
  <2> QED BY <1>1, <1>5, <2>1 DEF Grows
<1> QED BY <1>6 DEF S

\* A list that has something puts something there.
LEMMA FlattenSome ==
    ASSUME NEW R, NEW s \in Seq(Seq(R)), NEW i \in DOMAIN s, s[i] # <<>>
    PROVE  FlattenSeq(s) # <<>>
<1>1. PICK p : Grows(p, s, R)
  BY FlattenGrows
<1>2. Len(s) \in Nat /\ i \in 1..Len(s) /\ \A k \in 1..Len(s) : s[k] \in Seq(R)
  OBVIOUS
<1> DEFINE S == {n \in 0..Len(s) : i <= n => p[n] # <<>>}
<1>3. 0 \in S
  BY <1>2
<1>4. ASSUME NEW n \in 0..(Len(s) - 1), n \in S
      PROVE  n + 1 \in S
  <2>0. \A N \in Nat : \A m \in 0..(N - 1) :
           m + 1 \in 1..N /\ m + 1 \in 0..N /\ (m + 1) - 1 = m /\ m \in 0..N
    OBVIOUS
  <2>1. n + 1 \in 1..Len(s) /\ n + 1 \in 0..Len(s) /\ (n + 1) - 1 = n /\ n \in 0..Len(s)
    BY <1>2, <2>0
  <2>2. p[n + 1] = p[n] \o s[n + 1] /\ p[n] \in Seq(R) /\ s[n + 1] \in Seq(R)
    BY <1>1, <1>2, <2>1 DEF Grows
  <2>3. ASSUME i <= n + 1 PROVE p[n] # <<>> \/ s[n + 1] # <<>>
    BY <1>2, <1>4, <2>3
  <2>4. \A a, b \in Seq(R) : a # <<>> \/ b # <<>> => a \o b # <<>>
    <3> SUFFICES ASSUME NEW a \in Seq(R), NEW b \in Seq(R), a # <<>> \/ b # <<>>, a \o b = <<>>
                 PROVE  FALSE
      OBVIOUS
    <3>1. Len(a) + Len(b) = 0 /\ Len(a) \in Nat /\ Len(b) \in Nat
      OBVIOUS
    <3>2. Len(a) = 0 /\ Len(b) = 0
      BY <3>1
    <3> QED BY <3>2
  <2>5. i <= n + 1 => p[n + 1] # <<>>
    BY <2>2, <2>3, <2>4
  <2> QED BY <2>1, <2>5
<1> HIDE DEF S
<1>5. \A n \in 0..Len(s) : n \in S
  BY <1>2, <1>3, <1>4, AllUpTo
<1>6. Len(s) \in S /\ p[Len(s)] = FlattenSeq(s) /\ i <= Len(s)
  <2>1. Len(s) \in 0..Len(s)
    BY <1>2
  <2> QED BY <1>1, <1>2, <1>5, <2>1 DEF Grows
<1> QED BY <1>6 DEF S

LEMMA SameLength ==
    ASSUME NEW R, NEW x \in Seq(R), NEW n \in Nat, DOMAIN x = 1..n
    PROVE  Len(x) = n
<1>1. \A a, b \in Nat : 1..a = 1..b => a <= b
  <2> SUFFICES ASSUME NEW a \in Nat, NEW b \in Nat, 1..a = 1..b, ~(a <= b) PROVE FALSE
    OBVIOUS
  <2>1. a \in 1..a /\ a \notin 1..b
    OBVIOUS
  <2> QED BY <2>1
<1>2. Len(x) \in Nat /\ 1..Len(x) = 1..n
  OBVIOUS
<1>3. Len(x) <= n /\ n <= Len(x)
  BY <1>1, <1>2
<1>4. \A a, b \in Nat : a <= b /\ b <= a => a = b
  OBVIOUS
<1> QED BY <1>2, <1>3, <1>4

\* Lists of one, end to end, are their elements.
LEMMA FlattenOnes ==
    ASSUME NEW R, NEW x \in Seq(R), NEW s, DOMAIN s = DOMAIN x, s \in Seq(Seq(R)),
           \A i \in DOMAIN x : s[i] = <<x[i]>>
    PROVE  FlattenSeq(s) = x
<1>1. PICK p : Grows(p, s, R)
  BY FlattenGrows
<1>2. /\ Len(s) \in Nat /\ DOMAIN s = 1..Len(s) /\ DOMAIN x = 1..Len(x) /\ Len(x) \in Nat
      /\ \A k \in 1..Len(s) : s[k] \in Seq(R) /\ x[k] \in R
  OBVIOUS
<1>3. Len(x) = Len(s)
  BY <1>2, SameLength
<1> DEFINE S == {n \in 0..Len(s) : Len(p[n]) = n /\ \A k \in 1..n : p[n][k] = x[k]}
<1>4. 0 \in S
  <2>1. p[0] = <<>> /\ 0 \in 0..Len(s)
    BY <1>1, <1>2 DEF Grows
  <2> QED BY <2>1
<1>5. ASSUME NEW n \in 0..(Len(s) - 1), n \in S
      PROVE  n + 1 \in S
  <2>1. n + 1 \in 1..Len(s) /\ n + 1 \in 0..Len(s) /\ (n + 1) - 1 = n /\ n \in 0..Len(s) /\ n \in Nat
    BY <1>2
  <2>2. p[n + 1] = p[n] \o <<x[n + 1]>> /\ p[n] \in Seq(R) /\ x[n + 1] \in R
    BY <1>1, <1>2, <2>1 DEF Grows
  <2>3. Len(p[n]) = n /\ \A k \in 1..n : p[n][k] = x[k]
    BY <1>5
  <2>4. Len(p[n] \o <<x[n + 1]>>) = n + 1
    BY <2>2, <2>3
  <2>5. ASSUME NEW k \in 1..(n + 1) PROVE (p[n] \o <<x[n + 1]>>)[k] = x[k]
    <3>1. CASE k <= n
      <4>1. k \in 1..n
        BY <2>1, <3>1
      <4>2. (p[n] \o <<x[n + 1]>>)[k] = p[n][k]
        BY <2>2, <2>3, <4>1
      <4> QED BY <2>3, <4>1, <4>2
    <3>2. CASE k = n + 1
      <4>1. \A a \in Seq(R), y \in R : (a \o <<y>>)[Len(a) + 1] = y
        OBVIOUS
      <4> QED BY <2>2, <2>3, <3>2, <4>1
    <3>3. k <= n \/ k = n + 1
      <4> n \in Nat
        BY <2>1
      <4> QED OBVIOUS
    <3> QED BY <3>1, <3>2, <3>3
  <2> QED BY <2>1, <2>2, <2>4, <2>5
<1> HIDE DEF S
<1>6. \A n \in 0..Len(s) : n \in S
  BY <1>2, <1>4, <1>5, AllUpTo
<1>7. Len(s) \in S /\ p[Len(s)] = FlattenSeq(s) /\ p[Len(s)] \in Seq(R)
  <2>1. Len(s) \in 0..Len(s)
    BY <1>2
  <2> QED BY <1>1, <1>6, <2>1 DEF Grows
<1>8. Len(FlattenSeq(s)) = Len(x) /\ \A k \in 1..Len(x) : FlattenSeq(s)[k] = x[k]
  BY <1>3, <1>7 DEF S
<1>9. FlattenSeq(s) \in Seq(R)
  BY <1>7
<1> QED BY <1>8, <1>9

-----------------------------------------------------------------------------
(* What a trip adds to the week: each row names its trip, and none is there   *)
(* twice.                                                                    *)

\* The trip a warehouse row is about.
IdOf(t, e) ==
    IF t = "trip_events" THEN e.row.id ELSE IF t = "dispatch_offers" THEN e.row.trip ELSE e.trip

\* A list without repetition, all of it about one trip.
About(t, list, id) == Once(list) /\ \A k \in DOMAIN list : IdOf(t, list[k]) = id

Fine(part, id) ==
    /\ \E row : part["rows"] = <<row>> /\ row.id = id
    /\ \A t \in TableNames : About(t, part[t], id)
    /\ part["trip_events"] # <<>> /\ part["hotspot_history"] = <<>>

LEMMA NoneOnce == ASSUME NEW t, NEW id PROVE About(t, <<>>, id)
<1>1. <<>> \in Seq({}) /\ \A k, l \in DOMAIN <<>> : <<>>[k] = <<>>[l] => k = l
  OBVIOUS
<1>2. Once(<<>>)
  BY <1>1, IsOnce
<1> QED BY <1>2 DEF About

LEMMA OneOnce == ASSUME NEW x PROVE Once(<<x>>)
<1>1. <<x>> \in Seq({x}) /\ \A k, l \in DOMAIN <<x>> : <<x>>[k] = <<x>>[l] => k = l
  OBVIOUS
<1> QED BY <1>1, IsOnce

\* A list whose elements say where they stand.
LEMMA NumberedOnce ==
    ASSUME NEW n \in Nat, NEW x, x = [i \in 1..n |-> x[i]], NEW f,
           \A i \in 1..n : f[x[i]] = i
    PROVE  Once(x)
<1>1. x \in [1..n -> {x[i] : i \in 1..n}]
  OBVIOUS
<1>2. x \in Seq({x[i] : i \in 1..n}) /\ DOMAIN x = 1..n
  BY <1>1, SeqDef
<1> QED BY <1>2, IsOnce

\* The event of a trip is about it.
LEMMA EventAbout ==
    ASSUME NEW row, NEW id, row.id = id
    PROVE  About("trip_events", <<EventRow(row)>>, id)
<1>1. Once(<<EventRow(row)>>)
  BY OneOnce
<1>2. \A k \in DOMAIN <<EventRow(row)>> : <<EventRow(row)>>[k] = EventRow(row)
  OBVIOUS
<1>3. EventRow(row).row = row
  BY DEF EventRow
<1> QED BY <1>1, <1>2, <1>3 DEF About, IdOf

LEMMA NoDriverIsFine == ASSUME NEW spec PROVE Fine(FinishNoDriver(spec), spec.id)
<1> DEFINE row == TripRow(spec)
           part == FinishNoDriver(spec)
<1>1. row.id = spec.id
  BY DEF TripRow
<1> HIDE DEF row
<1>2. /\ part["rows"] = <<row>> /\ part["trip_events"] = <<EventRow(row)>>
      /\ part["dispatch_offers"] = <<>> /\ part["driver_positions"] = <<>>
      /\ part["rider_positions"] = <<>> /\ part["hotspot_history"] = <<>>
  BY DEF FinishNoDriver, Nothing, row
<1> HIDE DEF part
<1>3. About("trip_events", part["trip_events"], spec.id)
  BY <1>1, <1>2, EventAbout
<1>4. \A t \in TableNames : About(t, part[t], spec.id)
  BY <1>2, <1>3, NoneOnce DEF TableNames
<1>5. part["trip_events"] # <<>>
  BY <1>2
<1>6. Fine(part, spec.id)
  BY <1>1, <1>2, <1>4, <1>5 DEF Fine
<1> QED BY <1>6 DEF part

\* The drivers asked are some of those who would answer.
LEMMA ChainIsNumbered ==
    ASSUME NEW spec, NEW luck, luck.answers \in Seq(Answers)
    PROVE  \E n \in Nat :
              /\ SeedOffers(spec, luck) = [i \in 1..n |-> SeedOffers(spec, luck)[i]]
              /\ \A i \in 1..n : /\ SeedOffers(spec, luck)[i].trip = spec.id
                                 /\ SeedOffers(spec, luck)[i].offer.sequence = i
<1> DEFINE answers == luck.answers
           n == Cardinality(Asked(answers))
           chain == RunChain(luck.asked, answers, spec.requested)
<1>1. n \in Nat
  <2>1. IsFiniteSet(DOMAIN answers)
    <3>1. DOMAIN answers = 1..Len(answers) /\ Len(answers) \in Nat
      OBVIOUS
    <3>2. IsFiniteSet(1..Len(answers))
      BY <3>1, FS_Interval
    <3> QED BY <3>1, <3>2
  <2>2. Asked(answers) \subseteq DOMAIN answers
    BY DEF Asked
  <2> QED BY <2>1, <2>2, FS_Subset, FS_CardinalityType
<1> HIDE DEF n
<1>2. DOMAIN AskedAnswers(answers) = 1..n
  <2>1. AskedAnswers(answers) = SubSeq(answers, 1, n)
    BY DEF AskedAnswers, n
  <2>2. DOMAIN SubSeq(answers, 1, n) = 1..n
    BY <1>1
  <2> QED BY <2>1, <2>2
<1>3. /\ DOMAIN chain = 1..n
      /\ \A i \in 1..n : chain[i].sequence = i /\ "sequence" \in DOMAIN chain[i]
  BY <1>2 DEF RunChain, LayOut
<1> HIDE DEF chain
<1>4. SeedOffers(spec, luck) = Moved(spec, chain)
  BY DEF SeedOffers, chain
<1>5. Moved(spec, chain) = [i \in 1..n |-> Moved(spec, chain)[i]]
  BY <1>3 DEF Moved
<1>6. ASSUME NEW i \in 1..n
      PROVE  Moved(spec, chain)[i].trip = spec.id /\ Moved(spec, chain)[i].offer.sequence = i
  BY <1>3 DEF Moved
<1> QED BY <1>1, <1>4, <1>5, <1>6

\* An offer comes with its number, a report with its step.
LEMMA OffersAbout ==
    ASSUME NEW id, NEW n \in Nat, NEW chain, chain = [i \in 1..n |-> chain[i]],
           \A i \in 1..n : chain[i].trip = id /\ chain[i].offer.sequence = i
    PROVE  About("dispatch_offers", OfferEvents(chain), id)
<1> DEFINE x == OfferEvents(chain)
           f == [e \in {x[i] : i \in 1..n} |-> e.row.offer.sequence]
<1>1. x = [i \in 1..n |-> x[i]] /\ DOMAIN x = 1..n /\ \A i \in 1..n : x[i].row = chain[i]
  BY DEF OfferEvents
<1> HIDE DEF x
<1>2. \A i \in 1..n : f[x[i]] = i
  BY <1>1
<1> HIDE DEF f
<1>3. Once(x)
  BY <1>1, <1>2, NumberedOnce
<1>4. \A i \in DOMAIN x : IdOf("dispatch_offers", x[i]) = id
  BY <1>1 DEF IdOf
<1> QED BY <1>3, <1>4 DEF About, x

LEMMA ReportsAbout ==
    ASSUME NEW row
    PROVE  /\ About("driver_positions", Reports(row), row.id)
           /\ About("rider_positions", EveryOther(Reports(row)), row.id)
<1> DEFINE x == Reports(row)
           f == [e \in {x[i] : i \in 1..PositionsPerTrip} |-> e.step]
           y == EveryOther(x)
           half == (PositionsPerTrip + 1) \div 2
           g == [e \in {y[i] : i \in 1..half} |-> (e.step + 1) \div 2]
<1>0. PositionsPerTrip \in Nat
  BY HistoryAssumption
<1>1. /\ x = [i \in 1..PositionsPerTrip |-> x[i]] /\ DOMAIN x = 1..PositionsPerTrip
      /\ \A i \in 1..PositionsPerTrip : x[i].step = i /\ x[i].trip = row.id
  BY DEF Reports
<1> HIDE DEF x
<1>2. \A i \in 1..PositionsPerTrip : f[x[i]] = i
  BY <1>1
<1> HIDE DEF f
<1>3. Once(x)
  BY <1>0, <1>1, <1>2, NumberedOnce
<1>4. \A i \in DOMAIN x : IdOf("driver_positions", x[i]) = row.id
  BY <1>1 DEF IdOf
<1>5. Len(x) = PositionsPerTrip
  <2>1. x \in Seq({x[i] : i \in DOMAIN x})
    BY <1>3 DEF Once
  <2> QED BY <1>0, <1>1, <2>1
<1>6. half \in Nat /\ \A i \in 1..half : 2 * i - 1 \in 1..PositionsPerTrip /\ ((2 * i - 1) + 1) \div 2 = i
  BY <1>0
<1>7. y = [i \in 1..half |-> x[2 * i - 1]]
  BY <1>5 DEF EveryOther
<1> HIDE DEF y, half
<1>8. DOMAIN y = 1..half /\ \A i \in 1..half : y[i].step = 2 * i - 1 /\ y[i].trip = row.id
  BY <1>1, <1>6, <1>7
<1>9. \A i \in 1..half : g[y[i]] = i
  BY <1>6, <1>8
<1>10. y = [i \in 1..half |-> y[i]]
  BY <1>7
<1> HIDE DEF g
<1>11. Once(y)
  BY <1>6, <1>9, <1>10, NumberedOnce
<1>12. \A i \in DOMAIN y : IdOf("rider_positions", y[i]) = row.id
  BY <1>8 DEF IdOf
<1> QED BY <1>3, <1>4, <1>11, <1>12 DEF About, x, y

\* Whatever is drawn and whatever the route, what a trip adds is about it.
LEMMA TripIsFine ==
    ASSUME NEW spec, NEW route, NEW luck, luck.answers \in Seq(Answers)
    PROVE  Fine(FinishTrip(spec, route, luck), spec.id)
<1> DEFINE chain == SeedOffers(spec, luck)
           offered == Offered(chain)
           ride == Complete(Matched(spec, chain, luck), route.seconds, luck)
           cancelled == Cancel(Matched(spec, chain, luck), spec.outcome, luck)
<1>1. PICK n \in Nat : /\ chain = [i \in 1..n |-> chain[i]]
                       /\ \A i \in 1..n : chain[i].trip = spec.id /\ chain[i].offer.sequence = i
  BY ChainIsNumbered
<1>2. ride.id = spec.id /\ cancelled.id = spec.id
  BY DEF Complete, Cancel, Matched, TripRow
<1> HIDE DEF ride, cancelled
<1>3. FinishTrip(spec, route, luck) \in
        {Together(offered, FinishNoDriver(spec)), Completed(offered, ride),
         WithTrip(offered, cancelled)}
  BY DEF FinishTrip, FinishChain, ride, cancelled
<1> HIDE DEF chain
<1> DEFINE events == OfferEvents(chain)
<1>4. About("dispatch_offers", events, spec.id)
  BY <1>1, OffersAbout
<1> HIDE DEF events
<1>5. /\ offered["rows"] = <<>> /\ offered["trip_events"] = <<>>
      /\ offered["dispatch_offers"] = events /\ offered["driver_positions"] = <<>>
      /\ offered["rider_positions"] = <<>> /\ offered["hotspot_history"] = <<>>
      /\ DOMAIN offered = DOMAIN Nothing
  BY DEF Offered, Nothing, events
<1> HIDE DEF offered
<1>6. \A row : row.id = spec.id => About("trip_events", <<EventRow(row)>>, spec.id)
  BY EventAbout
<1>7. Fine(Together(offered, FinishNoDriver(spec)), spec.id)
  <2> DEFINE other == FinishNoDriver(spec)
             part == Together(offered, other)
             row == TripRow(spec)
  <2>1. /\ other["rows"] = <<row>> /\ other["trip_events"] = <<EventRow(row)>>
        /\ other["dispatch_offers"] = <<>> /\ other["driver_positions"] = <<>>
        /\ other["rider_positions"] = <<>> /\ other["hotspot_history"] = <<>>
        /\ row.id = spec.id
    BY DEF FinishNoDriver, Nothing, TripRow
  <2> HIDE DEF other, row
  <2>2. \A t \in TableNames \cup {"rows"} : part[t] = offered[t] \o other[t]
    BY DEF Together, Nothing, TableNames
  <2>3. events \o <<>> = events /\ \A e : <<>> \o <<e>> = <<e>>
    <3>1. \E R : events \in Seq(R)
      BY <1>4 DEF About, Once
    <3>2. \A e : <<e>> \in Seq({e}) /\ <<>> \in Seq({e})
      OBVIOUS
    <3>3. \A R : \A x \in Seq(R) : x \o <<>> = x /\ <<>> \o x = x
      OBVIOUS
    <3> QED BY <3>1, <3>2, <3>3, Zenon
  <2>4. <<>> \o <<>> = <<>>
    OBVIOUS
  <2>5. /\ part["rows"] = <<row>> /\ part["trip_events"] = <<EventRow(row)>>
        /\ part["dispatch_offers"] = events /\ part["driver_positions"] = <<>>
        /\ part["rider_positions"] = <<>> /\ part["hotspot_history"] = <<>>
    <3>1. {"rows", "trip_events", "dispatch_offers", "driver_positions", "rider_positions",
           "hotspot_history"} \subseteq TableNames \cup {"rows"}
      BY DEF TableNames
    <3> HIDE DEF part
    <3> QED BY <1>5, <2>1, <2>2, <2>3, <2>4, <3>1
  <2> HIDE DEF part
  <2>6. \A t \in TableNames : About(t, part[t], spec.id)
    BY <1>4, <1>6, <2>1, <2>5, NoneOnce DEF TableNames
  <2>7. part["trip_events"] # <<>>
    BY <2>5
  <2>8. Fine(part, spec.id)
    BY <2>1, <2>5, <2>6, <2>7 DEF Fine
  <2> QED BY <2>8 DEF part, other
<1>8. ASSUME NEW row, row.id = spec.id
      PROVE  Fine(WithTrip(offered, row), spec.id) /\ Fine(Completed(offered, row), spec.id)
  <2> DEFINE part == WithTrip(offered, row)
             whole == Completed(offered, row)
  <2>1. /\ part["rows"] = <<row>> /\ part["trip_events"] = <<EventRow(row)>>
        /\ part["dispatch_offers"] = events /\ part["driver_positions"] = <<>>
        /\ part["rider_positions"] = <<>> /\ part["hotspot_history"] = <<>>
        /\ DOMAIN part = DOMAIN Nothing
    BY <1>5 DEF WithTrip, Nothing
  <2>2. whole = WithRide(part, row)
    BY DEF Completed
  <2> HIDE DEF part
  <2>3. /\ whole["rows"] = <<row>> /\ whole["trip_events"] = <<EventRow(row)>>
        /\ whole["dispatch_offers"] = events /\ whole["driver_positions"] = Reports(row)
        /\ whole["rider_positions"] = EveryOther(Reports(row)) /\ whole["hotspot_history"] = <<>>
    BY <2>1, <2>2 DEF WithRide, Nothing
  <2> HIDE DEF whole
  <2>4. /\ About("driver_positions", Reports(row), spec.id)
        /\ About("rider_positions", EveryOther(Reports(row)), spec.id)
    BY <1>8, ReportsAbout
  <2>5. \A t \in TableNames : About(t, part[t], spec.id) /\ About(t, whole[t], spec.id)
    BY <1>4, <1>6, <1>8, <2>1, <2>3, <2>4, NoneOnce DEF TableNames
  <2>6. part["trip_events"] # <<>> /\ whole["trip_events"] # <<>>
    BY <2>1, <2>3
  <2>7. Fine(part, spec.id) /\ Fine(whole, spec.id)
    BY <1>8, <2>1, <2>3, <2>5, <2>6 DEF Fine
  <2> QED BY <2>7 DEF part, whole
<1> QED BY <1>2, <1>3, <1>7, <1>8

-----------------------------------------------------------------------------
(* How many trips there are: the pieces the workers get cover a day.         *)

LEMMA Division ==
    ASSUME NEW a \in Nat, NEW b \in Nat \ {0}
    PROVE  a \div b \in Nat /\ (a \div b) * b <= a /\ a < (a \div b) * b + b
<1>1. a \div b \in Nat
  OBVIOUS
<1>2. a < (a \div b) * b + b
  OBVIOUS
<1>3. (a \div b) * b <= a
  OBVIOUS
<1> QED BY <1>1, <1>2, <1>3

\* Lists of whatever are lists over one set.
LEMMA ListsOfLists ==
    ASSUME NEW n \in Nat, NEW s, s = [i \in 1..n |-> s[i]], \A i \in 1..n : \E Q : s[i] \in Seq(Q)
    PROVE  \E R : s \in Seq(Seq(R))
<1> DEFINE R == UNION {{s[i][k] : k \in DOMAIN s[i]} : i \in 1..n}
<1>1. ASSUME NEW i \in 1..n
      PROVE  s[i] \in Seq(R)
  <2>1. PICK Q : s[i] \in Seq(Q)
    OBVIOUS
  <2>2. Len(s[i]) \in Nat /\ s[i] = [k \in 1..Len(s[i]) |-> s[i][k]] /\ DOMAIN s[i] = 1..Len(s[i])
    BY <2>1
  <2>3. \A k \in 1..Len(s[i]) : s[i][k] \in R
    BY <2>2
  <2> HIDE DEF R
  <2>4. s[i] \in [1..Len(s[i]) -> R]
    BY <2>2, <2>3
  <2> QED BY <2>2, <2>4, SeqDef
<1> HIDE DEF R
<1>2. s \in [1..n -> Seq(R)]
  BY <1>1
<1> QED BY <1>2, SeqDef

\* Lists end to end are as long as they are together.
LEMMA FlattenLength ==
    ASSUME NEW R, NEW s \in Seq(Seq(R)), NEW m, m[0] = 0,
           \A i \in 1..Len(s) : m[i] = m[i - 1] + Len(s[i])
    PROVE  Len(FlattenSeq(s)) = m[Len(s)]
<1>1. PICK p : Grows(p, s, R)
  BY FlattenGrows
<1>2. Len(s) \in Nat /\ \A k \in 1..Len(s) : s[k] \in Seq(R)
  OBVIOUS
<1> DEFINE S == {n \in 0..Len(s) : Len(p[n]) = m[n]}
<1>3. 0 \in S
  <2>1. p[0] = <<>> /\ 0 \in 0..Len(s)
    BY <1>1, <1>2 DEF Grows
  <2> QED BY <2>1
<1>4. ASSUME NEW n \in 0..(Len(s) - 1), n \in S
      PROVE  n + 1 \in S
  <2>1. n + 1 \in 1..Len(s) /\ n + 1 \in 0..Len(s) /\ (n + 1) - 1 = n /\ n \in 0..Len(s)
    BY <1>2
  <2>2. p[n + 1] = p[n] \o s[n + 1] /\ p[n] \in Seq(R) /\ s[n + 1] \in Seq(R)
    BY <1>1, <1>2, <2>1 DEF Grows
  <2>3. Len(p[n + 1]) = Len(p[n]) + Len(s[n + 1])
    BY <2>2, Concats
  <2>4. m[n + 1] = m[n] + Len(s[n + 1])
    BY <2>1
  <2>5. Len(p[n]) = m[n]
    BY <1>4
  <2> QED BY <2>1, <2>3, <2>4, <2>5
<1> HIDE DEF S
<1>5. \A n \in 0..Len(s) : n \in S
  BY <1>2, <1>3, <1>4, AllUpTo
<1>6. Len(s) \in S /\ p[Len(s)] = FlattenSeq(s)
  <2>1. Len(s) \in 0..Len(s)
    BY <1>2
  <2> QED BY <1>1, <1>5, <2>1 DEF Grows
<1> QED BY <1>6 DEF S

\* The pieces follow one another, from the first trip to the last.
Covers(pieces, total, m) ==
    /\ Len(pieces) \in Nat /\ pieces = [c \in 1..Len(pieces) |-> pieces[c]]
    /\ m \in [0..Len(pieces) -> Nat] /\ m[0] = 0 /\ m[Len(pieces)] = total
    /\ \A c \in 1..Len(pieces) :
          pieces[c].first = m[c - 1] + 1 /\ pieces[c].last = m[c] /\ m[c - 1] <= m[c]
    /\ \A c \in 1..Len(pieces) : m[c] <= total

LEMMA ChunksCover ==
    ASSUME NEW total \in Nat
    PROVE  \E m : Covers(Chunks(total), total, m)
<1> DEFINE workers == IF Workers < total THEN Workers ELSE total
           size == IF total = 0 THEN 1 ELSE (total + workers - 1) \div workers
           n == (total + size - 1) \div size
           m == [c \in 0..n |-> IF c * size < total THEN c * size ELSE total]
           pieces == [c \in 1..n |-> [first |-> (c - 1) * size + 1,
                                      last |-> IF c * size < total THEN c * size ELSE total]]
<1>1. Chunks(total) = pieces
  BY DEF Chunks
<1>2. size \in Nat \ {0}
  <2>1. CASE total = 0
    BY <2>1
  <2>2. CASE total # 0
    <3>1. workers \in Nat \ {0} /\ total + workers - 1 \in Nat /\ total + workers - 1 >= workers
      BY <2>2, HistoryAssumption
    <3> HIDE DEF workers
    <3>2. /\ (total + workers - 1) \div workers \in Nat
          /\ total + workers - 1 < ((total + workers - 1) \div workers) * workers + workers
      BY <3>1, Division
    <3>3. (total + workers - 1) \div workers # 0
      <4> SUFFICES ASSUME (total + workers - 1) \div workers = 0 PROVE FALSE
        OBVIOUS
      <4>1. 0 * workers = 0
        BY <3>1
      <4> QED BY <3>1, <3>2, <4>1
    <3> QED BY <2>2, <3>2, <3>3
  <2> QED BY <2>1, <2>2
<1> HIDE DEF workers, size
<1>3. n \in Nat /\ n * size <= total + size - 1 /\ total <= n * size
  <2>1. total + size - 1 \in Nat
    BY <1>2
  <2>2. n \in Nat /\ n * size <= total + size - 1 /\ total + size - 1 < n * size + size
    BY <1>2, <2>1, Division
  <2>3. n * size \in Nat
    BY <1>2, <2>2
  <2> HIDE DEF n
  <2> QED BY <1>2, <2>2, <2>3
<1> HIDE DEF n
<1>4. \A c \in 0..n : c * size \in Nat
  BY <1>2, <1>3
<1>5. m \in [0..n -> Nat]
  BY <1>4
<1>6. m[0] = 0 /\ m[n] = total
  <2>1. 0 \in 0..n /\ n \in 0..n /\ 0 * size = 0
    BY <1>2, <1>3
  <2>2. ~(n * size < total)
    BY <1>3, <1>4, <2>1
  <2> QED BY <2>1, <2>2
<1>7. ASSUME NEW c \in 1..n
      PROVE  /\ m[c - 1] = (c - 1) * size /\ m[c - 1] <= m[c]
             /\ m[c] = IF c * size < total THEN c * size ELSE total
             /\ m[c] <= total
  <2>1. c \in Nat /\ c - 1 \in 0..n /\ c \in 0..n /\ c * size = (c - 1) * size + size
    BY <1>2, <1>3
  <2>2. c * size <= n * size
    <3>1. \A a, b, k \in Nat : a <= b => a * k <= b * k
      OBVIOUS
    <3> QED BY <1>2, <1>3, <2>1, <3>1
  <2>3. (c - 1) * size \in Nat /\ c * size \in Nat /\ n * size \in Nat
    BY <1>2, <1>3, <1>4, <2>1
  <2>4. (c - 1) * size <= total
    BY <1>2, <1>3, <2>1, <2>2, <2>3
  <2>5. m[c - 1] = (c - 1) * size
    BY <2>1, <2>3, <2>4
  <2>6. m[c] = IF c * size < total THEN c * size ELSE total
    BY <2>1
  <2> HIDE DEF m
  <2>7. m[c - 1] <= m[c]
    BY <1>2, <2>1, <2>3, <2>4, <2>5, <2>6
  <2>8. m[c] <= total
    BY <2>3, <2>6
  <2> QED BY <2>5, <2>6, <2>7, <2>8
<1> HIDE DEF m
<1>8. Len(pieces) = n /\ pieces = [c \in 1..Len(pieces) |-> pieces[c]]
  BY <1>3
<1>9. \A c \in 1..n : pieces[c].first = m[c - 1] + 1 /\ pieces[c].last = m[c]
  BY <1>7
<1> HIDE DEF pieces
<1>10. Covers(pieces, total, m)
  BY <1>3, <1>5, <1>6, <1>7, <1>8, <1>9 DEF Covers
<1> QED BY <1>1, <1>10

\* However the workers share it, a day has the trips it is to have.
LEMMA DayIsWhole ==
    ASSUME NEW draws, NEW daysAgo, NEW date, NEW open, NEW points
    PROVE  /\ Len(SpecsOfDay(draws, daysAgo, date, open, points)) = TripsPerDay
           /\ \E Q : SpecsOfDay(draws, daysAgo, date, open, points) \in Seq(Q)
<1> DEFINE pieces == Chunks(TripsPerDay)
           s == [c \in DOMAIN pieces |->
                    SpecChunk(draws, pieces[c], daysAgo, date, open, points)]
<1>1. PICK m : Covers(pieces, TripsPerDay, m)
  BY HistoryAssumption, ChunksCover
<1>2. SpecsOfDay(draws, daysAgo, date, open, points) = FlattenSeq(s)
  BY DEF SpecsOfDay
<1> HIDE DEF pieces
<1> DEFINE n == Len(pieces)
<1>3. /\ n \in Nat /\ DOMAIN pieces = 1..n /\ m \in [0..n -> Nat] /\ m[0] = 0
      /\ m[n] = TripsPerDay
      /\ \A c \in 1..n :
            pieces[c].first = m[c - 1] + 1 /\ pieces[c].last = m[c] /\ m[c - 1] <= m[c]
  BY <1>1 DEF Covers
<1> HIDE DEF n
<1>4. s = [c \in 1..n |-> s[c]] /\ DOMAIN s = 1..n
  BY <1>3
<1>5. ASSUME NEW c \in 1..n
      PROVE  m[c] = m[c - 1] + Len(s[c]) /\ \E Q : s[c] \in Seq(Q)
  <2>1. m[c - 1] \in Nat /\ m[c] \in Nat /\ m[c - 1] <= m[c]
    <3>1. c - 1 \in 0..n /\ c \in 0..n
      BY <1>3
    <3> QED BY <1>3, <3>1
  <2> DEFINE l == pieces[c].last - pieces[c].first + 1
  <2>2. l \in Nat /\ m[c] = m[c - 1] + l
    BY <1>3, <2>1
  <2>3. s[c] = SpecChunk(draws, pieces[c], daysAgo, date, open, points)
    BY <1>3
  <2> HIDE DEF s
  <2>4. s[c] = [i \in 1..l |-> s[c][i]]
    BY <2>3 DEF SpecChunk
  <2> HIDE DEF l
  <2>5. s[c] \in [1..l -> {s[c][i] : i \in 1..l}]
    BY <2>4
  <2>6. s[c] \in Seq({s[c][i] : i \in 1..l})
    BY <2>2, <2>5, SeqDef
  <2>7. DOMAIN s[c] = 1..l
    BY <2>5
  <2>8. Len(s[c]) = l
    BY <2>2, <2>6, <2>7, SameLength
  <2> QED BY <2>2, <2>6, <2>8
<1> HIDE DEF s
<1>6. PICK R : s \in Seq(Seq(R))
  BY <1>3, <1>4, <1>5, ListsOfLists
<1>7. Len(s) = n
  BY <1>3, <1>4, <1>6
<1>8. Len(FlattenSeq(s)) = TripsPerDay
  BY <1>3, <1>5, <1>6, <1>7, FlattenLength
<1> QED BY <1>2, <1>6, <1>8, FlattenFrom

LEMMA SpecsAreWhole ==
    ASSUME NEW draws, NEW date, NEW open, NEW points
    PROVE  /\ Len(Specs(draws, date, open, points)) = HistoryDays * TripsPerDay
           /\ \E Q : Specs(draws, date, open, points) \in Seq(Q)
<1> DEFINE s == [d \in 1..HistoryDays |->
                    SpecsOfDay(draws.draws[HistoryDays + 1 - d], HistoryDays + 1 - d,
                               date, open, points)]
           m == [d \in 0..HistoryDays |-> d * TripsPerDay]
<1>0. HistoryDays \in Nat /\ TripsPerDay \in Nat
  BY HistoryAssumption
<1>1. Specs(draws, date, open, points) = FlattenSeq(s)
  BY DEF Specs
<1>2. s = [d \in 1..HistoryDays |-> s[d]] /\ DOMAIN s = 1..HistoryDays
  OBVIOUS
<1>3. \A d \in 1..HistoryDays : Len(s[d]) = TripsPerDay /\ \E Q : s[d] \in Seq(Q)
  BY DayIsWhole
<1> HIDE DEF s
<1>4. PICK R : s \in Seq(Seq(R))
  BY <1>0, <1>2, <1>3, ListsOfLists
<1>5. Len(s) = HistoryDays
  BY <1>0, <1>2, <1>4
<1>6. m[0] = 0 /\ m[HistoryDays] = HistoryDays * TripsPerDay
  <2>1. 0 \in 0..HistoryDays /\ HistoryDays \in 0..HistoryDays /\ 0 * TripsPerDay = 0
    BY <1>0
  <2> QED BY <2>1
<1>7. ASSUME NEW d \in 1..HistoryDays
      PROVE  m[d] = m[d - 1] + Len(s[d])
  <2>1. d \in 0..HistoryDays /\ d - 1 \in 0..HistoryDays
        /\ d * TripsPerDay = (d - 1) * TripsPerDay + TripsPerDay
    BY <1>0
  <2> QED BY <1>3, <2>1
<1> HIDE DEF m
<1>8. Len(FlattenSeq(s)) = HistoryDays * TripsPerDay
  BY <1>4, <1>5, <1>6, <1>7, FlattenLength
<1> QED BY <1>1, <1>4, <1>8, FlattenFrom

\* Every trip is either for the router or was never matched.
LEMMA DrivenOrNot ==
    ASSUME NEW Q, NEW specs \in Seq(Q)
    PROVE  /\ ToRoute(specs) \in Seq(Q) /\ Undriven(specs) \in Seq(Q)
           /\ Len(ToRoute(specs)) + Len(Undriven(specs)) = Len(specs)
<1> DEFINE s == [i \in DOMAIN specs |->
                    IF (specs[i].outcome # "no_driver_found") = TRUE THEN <<specs[i]>> ELSE <<>>]
           u == [i \in DOMAIN specs |->
                    IF (specs[i].outcome # "no_driver_found") = FALSE THEN <<specs[i]>> ELSE <<>>]
<1>1. ToRoute(specs) = FlattenSeq(s) /\ Undriven(specs) = FlattenSeq(u)
  BY DEF ToRoute, Undriven, Driven
<1> DEFINE n == Len(specs)
<1>2. n \in Nat /\ DOMAIN specs = 1..n /\ \A i \in 1..n : specs[i] \in Q
  OBVIOUS
<1> HIDE DEF n
<1>3. \A i \in 1..n : \/ s[i] = <<specs[i]>> /\ u[i] = <<>>
                      \/ s[i] = <<>> /\ u[i] = <<specs[i]>>
  BY <1>2
<1>4. \A x \in Q : <<x>> \in Seq(Q) /\ <<>> \in Seq(Q) /\ Len(<<x>>) = 1 /\ Len(<<>>) = 0
  OBVIOUS
<1>5. DOMAIN s = 1..n /\ DOMAIN u = 1..n /\ s = [i \in 1..n |-> s[i]] /\ u = [i \in 1..n |-> u[i]]
  BY <1>2
<1> HIDE DEF s, u
<1>6. \A i \in 1..n : s[i] \in Seq(Q) /\ u[i] \in Seq(Q) /\ Len(s[i]) + Len(u[i]) = 1
                      /\ Len(s[i]) \in Nat /\ Len(u[i]) \in Nat
  <2> SUFFICES ASSUME NEW i \in 1..n
               PROVE  /\ s[i] \in Seq(Q) /\ u[i] \in Seq(Q) /\ Len(s[i]) + Len(u[i]) = 1
                      /\ Len(s[i]) \in Nat /\ Len(u[i]) \in Nat
    OBVIOUS
  <2>1. <<specs[i]>> \in Seq(Q) /\ <<>> \in Seq(Q) /\ Len(<<specs[i]>>) = 1 /\ Len(<<>>) = 0
    BY <1>2, <1>4
  <2>2. CASE s[i] = <<specs[i]>> /\ u[i] = <<>>
    BY <2>1, <2>2
  <2>3. CASE s[i] = <<>> /\ u[i] = <<specs[i]>>
    BY <2>1, <2>3
  <2> QED BY <1>3, <2>2, <2>3
<1>7. s \in [1..n -> Seq(Q)] /\ u \in [1..n -> Seq(Q)]
  BY <1>5, <1>6
<1>8. s \in Seq(Seq(Q)) /\ u \in Seq(Seq(Q)) /\ Len(s) = n /\ Len(u) = n
  BY <1>2, <1>7, SeqDef
<1>9. PICK p : Grows(p, s, Q)
  BY <1>8, FlattenGrows
<1>10. PICK q : Grows(q, u, Q)
  BY <1>8, FlattenGrows
<1> DEFINE S == {i \in 0..n : Len(p[i]) + Len(q[i]) = i}
<1>11. 0 \in S
  <2>1. p[0] = <<>> /\ q[0] = <<>> /\ 0 \in 0..n
    BY <1>2, <1>9, <1>10 DEF Grows
  <2>2. Len(p[0]) = 0 /\ Len(q[0]) = 0
    BY <2>1
  <2>3. Len(p[0]) + Len(q[0]) = 0
    BY <2>2
  <2> QED BY <2>1, <2>3
<1>12. ASSUME NEW i \in 0..(n - 1), i \in S
       PROVE  i + 1 \in S
  <2>1. i + 1 \in 1..n /\ i + 1 \in 0..n /\ (i + 1) - 1 = i /\ i \in 0..n /\ i \in Nat
    BY <1>2
  <2>2. /\ p[i + 1] = p[i] \o s[i + 1] /\ p[i] \in Seq(Q) /\ s[i + 1] \in Seq(Q)
        /\ q[i + 1] = q[i] \o u[i + 1] /\ q[i] \in Seq(Q) /\ u[i + 1] \in Seq(Q)
    BY <1>6, <1>8, <1>9, <1>10, <2>1 DEF Grows
  <2>3. /\ Len(p[i + 1]) = Len(p[i]) + Len(s[i + 1]) /\ Len(p[i]) \in Nat
        /\ Len(q[i + 1]) = Len(q[i]) + Len(u[i + 1]) /\ Len(q[i]) \in Nat
    BY <2>2, Concats
  <2>4. Len(p[i]) + Len(q[i]) = i
    BY <1>12
  <2>5. Len(p[i + 1]) + Len(q[i + 1]) = i + 1
    <3>1. /\ Len(s[i + 1]) + Len(u[i + 1]) = 1
          /\ Len(s[i + 1]) \in Nat /\ Len(u[i + 1]) \in Nat
      BY <1>6, <2>1
    <3>2. \A a, b, c, d \in Nat : a + b = i /\ c + d = 1 => (a + c) + (b + d) = i + 1
      OBVIOUS
    <3>3. (Len(p[i]) + Len(s[i + 1])) + (Len(q[i]) + Len(u[i + 1])) = i + 1
      BY <2>3, <2>4, <3>1, <3>2
    <3> QED BY <2>3, <3>3
  <2> QED BY <2>1, <2>5
<1> HIDE DEF S
<1>13. \A i \in 0..n : i \in S
  BY <1>2, <1>11, <1>12, AllUpTo
<1>14. n \in S
  BY <1>2, <1>13
<1>15. p[n] = FlattenSeq(s) /\ q[n] = FlattenSeq(u)
  BY <1>8, <1>9, <1>10 DEF Grows
<1> QED BY <1>1, <1>8, <1>14, <1>15, FlattenFrom DEF S, n

\* A trip draws in its turn, and there is a draw for each.
LEMMA TurnIsInRange ==
    ASSUME NEW n \in Nat, NEW routed, NEW i \in 1..n, routed[i] # NoRoute
    PROVE  Turn(routed, i) \in 1..n
<1> DEFINE J == {j \in 1..i : routed[j] # NoRoute}
<1>1. IsFiniteSet(1..i) /\ Cardinality(1..i) = i
  <2>1. i \in Int /\ 1 \in Int /\ ~(1 > i)
    OBVIOUS
  <2> QED BY <2>1, FS_Interval
<1>2. J \subseteq 1..i /\ i \in J
  OBVIOUS
<1> HIDE DEF J
<1>3. IsFiniteSet(J) /\ Cardinality(J) \in Nat /\ Cardinality(J) <= i
  BY <1>1, <1>2, FS_Subset, FS_CardinalityType
<1>4. Cardinality(J) # 0
  BY <1>2, <1>3, FS_EmptySet
<1>5. Cardinality(J) \in 1..n
  BY <1>3, <1>4
<1> QED BY <1>5 DEF Turn, J

-----------------------------------------------------------------------------
(* The week: what the trips add, list by list.                               *)

\* Each trip of the week, driven or not, adds what is its own.
LEMMA PartsAreFine ==
    ASSUME NEW Q, NEW specs \in Seq(Q), NEW luck, NEW held, NEW mapAvailable, NEW failures,
           \A i \in 1..Len(specs) : luck[i].answers \in Seq(Answers)
    PROVE  LET parts == Parts(specs, luck, held, mapAvailable, failures)
           IN  /\ parts = [i \in 1..Len(specs) |-> parts[i]]
               /\ \A i \in 1..Len(specs) : \E id : Fine(parts[i], id)
<1> DEFINE undriven == Undriven(specs)
           toRoute == ToRoute(specs)
           routed == Routed(toRoute, held, mapAvailable, failures)
           a == [i \in DOMAIN undriven |-> FinishNoDriver(undriven[i])]
           b == Finished(toRoute, routed, luck)
           k == Len(undriven)
           n == Len(toRoute)
           R == {a[i] : i \in 1..k} \cup {b[i] : i \in 1..n}
<1>1. /\ toRoute \in Seq(Q) /\ undriven \in Seq(Q) /\ n + k = Len(specs)
      /\ Len(specs) \in Nat
  BY DrivenOrNot
<1>2. Parts(specs, luck, held, mapAvailable, failures) = a \o b
  BY DEF Parts
<1> HIDE DEF undriven, toRoute, routed
<1>3. k \in Nat /\ n \in Nat /\ DOMAIN undriven = 1..k /\ DOMAIN toRoute = 1..n
  BY <1>1
<1>4. a = [i \in 1..k |-> a[i]] /\ b = [i \in 1..n |-> b[i]]
  BY <1>3 DEF Finished
<1>5. \A i \in 1..k : Fine(a[i], undriven[i].id)
  BY <1>3, NoDriverIsFine
<1>6. ASSUME NEW i \in 1..n
      PROVE  Fine(b[i], toRoute[i].id)
  <2>1. CASE routed[i] = NoRoute
    BY <1>3, <2>1, NoDriverIsFine DEF Finished
  <2>2. CASE routed[i] # NoRoute
    <3>1. Turn(routed, i) \in 1..n
      BY <1>3, <2>2, TurnIsInRange
    <3>2. Turn(routed, i) \in 1..Len(specs)
      BY <1>1, <1>3, <3>1
    <3>3. Fine(FinishTrip(toRoute[i], routed[i], luck[Turn(routed, i)]), toRoute[i].id)
      BY <3>2, TripIsFine
    <3> QED BY <1>3, <2>2, <3>3 DEF Finished
  <2> QED BY <2>1, <2>2
<1> HIDE DEF a, b, k, n
<1>7. a \in [1..k -> R] /\ b \in [1..n -> R]
  BY <1>4
<1> HIDE DEF R
<1>8. a \in Seq(R) /\ b \in Seq(R)
  BY <1>3, <1>7, SeqDef
<1>9. Len(a) = k /\ Len(b) = n /\ DOMAIN a = 1..k /\ DOMAIN b = 1..n
  <2>1. DOMAIN a = 1..k /\ DOMAIN b = 1..n
    BY <1>7
  <2> QED BY <1>3, <1>8, <2>1, SameLength
<1>10. /\ a \o b \in Seq(R) /\ DOMAIN (a \o b) = 1..(k + n)
       /\ \A i \in 1..(k + n) : \/ i \in DOMAIN a /\ (a \o b)[i] = a[i]
                                \/ i - Len(a) \in DOMAIN b /\ (a \o b)[i] = b[i - Len(a)]
  <2>1. /\ a \o b \in Seq(R) /\ DOMAIN (a \o b) = 1..(Len(a) + Len(b))
        /\ \A i \in DOMAIN (a \o b) :
              \/ i \in DOMAIN a /\ (a \o b)[i] = a[i]
              \/ i - Len(a) \in DOMAIN b /\ (a \o b)[i] = b[i - Len(a)]
    BY <1>8, Concats
  <2>2. DOMAIN (a \o b) = 1..(k + n)
    BY <1>9, <2>1
  <2> QED BY <2>1, <2>2
<1>11. k + n = Len(specs)
  BY <1>1, <1>3
<1>12. a \o b = [i \in 1..(k + n) |-> (a \o b)[i]]
  <2>1. \A x \in Seq(R) : x = [i \in DOMAIN x |-> x[i]]
    OBVIOUS
  <2>2. a \o b = [i \in DOMAIN (a \o b) |-> (a \o b)[i]]
    BY <1>10, <2>1
  <2> QED BY <1>10, <2>2
<1>13. \A i \in 1..(k + n) : \E id : Fine((a \o b)[i], id)
  BY <1>5, <1>6, <1>9, <1>10
<1> QED BY <1>2, <1>11, <1>12, <1>13

\* List by list, the trips' rows are one each, and no two trips share a row of
\* the warehouse unless they share their id.
LEMMA AllAreOnce ==
    ASSUME NEW n \in Nat, NEW parts, parts = [i \in 1..n |-> parts[i]], NEW ids,
           \A i \in 1..n : Fine(parts[i], ids[i])
    PROVE  /\ DOMAIN AllOf(parts)["rows"] = 1..n
           /\ \A i \in 1..n : /\ AllOf(parts)["rows"][i].id = ids[i]
                              /\ parts[i]["rows"] = <<AllOf(parts)["rows"][i]>>
           /\ \E Q : AllOf(parts)["rows"] \in Seq(Q)
           /\ (\A i, j \in 1..n : ids[i] = ids[j] => i = j) =>
                 \A t \in TableNames : Once(AllOf(parts)[t])
           /\ n # 0 => AllOf(parts)["trip_events"] # <<>>
           /\ AllOf(parts)["hotspot_history"] = <<>>
<1> DEFINE Lists(t) == [i \in 1..n |-> parts[i][t]]
<1>1. \A t \in TableNames \cup {"rows"} : AllOf(parts)[t] = FlattenSeq(Lists(t))
  <2>1. DOMAIN parts = 1..n
    OBVIOUS
  <2>2. TableNames \cup {"rows"} \subseteq DOMAIN Nothing
    BY DEF Nothing, TableNames
  <2> QED BY <2>1, <2>2 DEF AllOf
<1>2. ASSUME NEW t \in TableNames
      PROVE  \E R : Lists(t) \in Seq(Seq(R))
  <2>1. \A i \in 1..n : \E Q : Lists(t)[i] \in Seq(Q)
    BY DEF Fine, About, Once
  <2> HIDE DEF Fine
  <2>2. Lists(t) = [i \in 1..n |-> Lists(t)[i]]
    OBVIOUS
  <2> HIDE DEF Lists
  <2> QED BY <2>1, <2>2, ListsOfLists
<1>3. /\ DOMAIN AllOf(parts)["rows"] = 1..n
      /\ \A i \in 1..n : /\ AllOf(parts)["rows"][i].id = ids[i]
                         /\ parts[i]["rows"] = <<AllOf(parts)["rows"][i]>>
      /\ \E Q : AllOf(parts)["rows"] \in Seq(Q)
  <2> DEFINE x == [i \in 1..n |-> CHOOSE row : parts[i]["rows"] = <<row>> /\ row.id = ids[i]]
             s == Lists("rows")
             R == {x[i] : i \in 1..n}
  <2>1. \A i \in 1..n : parts[i]["rows"] = <<x[i]>> /\ x[i].id = ids[i]
    BY DEF Fine
  <2>2. DOMAIN x = 1..n /\ x = [i \in 1..n |-> x[i]]
    OBVIOUS
  <2> HIDE DEF x
  <2>3. x \in [1..n -> R]
    BY <2>2
  <2>4. DOMAIN s = 1..n /\ \A i \in 1..n : s[i] = <<x[i]>>
    BY <2>1
  <2>5. \A i \in 1..n : <<x[i]>> \in Seq(R)
    BY <2>3
  <2> HIDE DEF R
  <2>6. x \in Seq(R)
    BY <2>3, SeqDef
  <2>7. s \in [1..n -> Seq(R)]
    BY <2>4, <2>5
  <2>8. s \in Seq(Seq(R))
    BY <2>7, SeqDef
  <2> HIDE DEF s
  <2>9. FlattenSeq(s) = x
    BY <2>2, <2>4, <2>6, <2>8, FlattenOnes
  <2>10. AllOf(parts)["rows"] = x
    BY <1>1, <2>9 DEF s
  <2> QED BY <2>1, <2>2, <2>6, <2>10
<1>4. ASSUME \A i, j \in 1..n : ids[i] = ids[j] => i = j, NEW t \in TableNames
      PROVE  Once(AllOf(parts)[t])
  <2> DEFINE s == Lists(t)
  <2>1. PICK R : s \in Seq(Seq(R))
    BY <1>2
  <2>2. DOMAIN s = 1..n /\ \A i \in 1..n : s[i] = parts[i][t]
    OBVIOUS
  <2>3. \A i \in 1..n : Once(s[i]) /\ \A k \in DOMAIN s[i] : IdOf(t, s[i][k]) = ids[i]
    BY <2>2 DEF Fine, About
  <2> HIDE DEF s
  <2>4. \A i, j \in DOMAIN s : i # j =>
           \A k \in DOMAIN s[i], l \in DOMAIN s[j] : s[i][k] # s[j][l]
    <3> SUFFICES ASSUME NEW i \in 1..n, NEW j \in 1..n, i # j,
                        NEW k \in DOMAIN s[i], NEW l \in DOMAIN s[j], s[i][k] = s[j][l]
                 PROVE  FALSE
      BY <2>2
    <3>1. IdOf(t, s[i][k]) = ids[i] /\ IdOf(t, s[j][l]) = ids[j]
      BY <2>3
    <3> QED BY <1>4, <3>1
  <2>5. Once(FlattenSeq(s))
    BY <2>1, <2>2, <2>3, <2>4, FlattenOnce
  <2> QED BY <1>1, <2>5 DEF s
<1>5. n # 0 => AllOf(parts)["trip_events"] # <<>>
  <2> SUFFICES ASSUME n # 0 PROVE AllOf(parts)["trip_events"] # <<>>
    OBVIOUS
  <2> DEFINE s == Lists("trip_events")
  <2>1. "trip_events" \in TableNames
    BY DEF TableNames
  <2>2. PICK R : s \in Seq(Seq(R))
    BY <1>2, <2>1
  <2>3. 1 \in DOMAIN s /\ s[1] # <<>>
    BY DEF Fine
  <2> HIDE DEF s
  <2>4. FlattenSeq(s) # <<>>
    BY <2>2, <2>3, FlattenSome
  <2> QED BY <1>1, <2>1, <2>4 DEF s
<1>6. AllOf(parts)["hotspot_history"] = <<>>
  <2> DEFINE s == Lists("hotspot_history")
  <2>1. "hotspot_history" \in TableNames
    BY DEF TableNames
  <2>2. PICK R : s \in Seq(Seq(R))
    BY <1>2, <2>1
  <2>3. \A i \in DOMAIN s : s[i] = <<>>
    BY DEF Fine
  <2> HIDE DEF s
  <2>4. FlattenSeq(s) \in Seq(R)
    BY <2>2, FlattenFrom
  <2>5. ASSUME NEW k \in DOMAIN FlattenSeq(s)
        PROVE  FALSE
    <3>1. PICK i \in DOMAIN s : \E j \in DOMAIN s[i] : FlattenSeq(s)[k] = s[i][j]
      BY <2>2, FlattenFrom
    <3>2. DOMAIN s[i] = {}
      BY <2>3
    <3> QED BY <3>1, <3>2
  <2>6. FlattenSeq(s) = <<>>
    <3>1. Len(FlattenSeq(s)) \in Nat /\ DOMAIN FlattenSeq(s) = 1..Len(FlattenSeq(s))
      BY <2>4
    <3>2. Len(FlattenSeq(s)) = 0
      BY <2>5, <3>1
    <3> QED BY <2>4, <3>2
  <2> QED BY <1>1, <2>1, <2>6 DEF s
<1> QED BY <1>3, <1>4, <1>5, <1>6

\* The scores: a zone stands once in the grid's order, and so do its scores.
LEMMA HotspotsAreOnce ==
    ASSUME NEW date, NEW open
    PROVE  LET scores == HotspotHistory(date, open)
           IN  /\ Once(scores["hotspot_history"])
               /\ \A t \in (TableNames \ {"hotspot_history"}) \cup {"rows"} : scores[t] = <<>>
<1> DEFINE s == [i \in DOMAIN ZoneOrder |->
                    IF ZoneOrder[i] \notin open THEN <<>>
                    ELSE <<[zone |-> ZoneOrder[i], moment |-> date * DayLength]>>]
           scores == HotspotHistory(date, open)
           n == Len(ZoneOrder)
           R == {[zone |-> ZoneOrder[i], moment |-> date * DayLength] : i \in DOMAIN ZoneOrder}
<1>1. scores["hotspot_history"] = FlattenSeq(s)
  BY DEF HotspotHistory, Nothing
<1>2. \A t \in (TableNames \ {"hotspot_history"}) \cup {"rows"} : scores[t] = <<>>
  BY DEF HotspotHistory, Nothing, TableNames
<1> HIDE DEF scores
<1>3. n \in Nat /\ DOMAIN ZoneOrder = 1..n
  BY HistoryAssumption
<1>4. ASSUME NEW i \in 1..n
      PROVE  /\ s[i] \in Seq(R) /\ Once(s[i])
             /\ \A k \in DOMAIN s[i] : s[i][k].zone = ZoneOrder[i]
  <2> DEFINE e == [zone |-> ZoneOrder[i], moment |-> date * DayLength]
  <2>1. s[i] = <<>> \/ s[i] = <<e>>
    BY <1>3
  <2>2. e \in R /\ e.zone = ZoneOrder[i]
    BY <1>3
  <2> HIDE DEF s, e, R
  <2>3. <<>> \in Seq(R) /\ <<e>> \in Seq(R)
    BY <2>2
  <2>4. Once(<<>>) /\ Once(<<e>>)
    BY NoneOnce, OneOnce DEF About
  <2>5. (\A k \in DOMAIN <<>> : FALSE) /\ \A k \in DOMAIN <<e>> : <<e>>[k] = e
    OBVIOUS
  <2> QED BY <2>1, <2>2, <2>3, <2>4, <2>5
<1>5. DOMAIN s = 1..n /\ s = [i \in 1..n |-> s[i]]
  BY <1>3
<1> HIDE DEF s, R, n
<1>6. s \in [1..n -> Seq(R)]
  BY <1>4, <1>5
<1>7. s \in Seq(Seq(R))
  BY <1>3, <1>6, SeqDef
<1>8. \A i, j \in DOMAIN s : i # j => \A k \in DOMAIN s[i], l \in DOMAIN s[j] : s[i][k] # s[j][l]
  <2> SUFFICES ASSUME NEW i \in 1..n, NEW j \in 1..n, i # j,
                      NEW k \in DOMAIN s[i], NEW l \in DOMAIN s[j], s[i][k] = s[j][l]
               PROVE  FALSE
    BY <1>5
  <2>1. ZoneOrder[i] = ZoneOrder[j]
    BY <1>4
  <2> QED BY <1>3, <2>1, HistoryAssumption
<1>9. Once(FlattenSeq(s))
  BY <1>4, <1>5, <1>7, <1>8, FlattenOnce
<1> QED BY <1>1, <1>2, <1>9 DEF scores

\* What the drivers asked for a trip are drawn to answer.
LEMMA AnswersAreDrawn ==
    ASSUME NEW luck \in Lucks
    PROVE  luck.answers \in Seq(Answers)
<1>1. luck.answers \in [1..SeedMaxOffers -> Answers] /\ SeedMaxOffers \in Nat
  BY DEF Lucks, SeedMaxOffers
<1> QED BY <1>1, SeqDef

\* Whatever is drawn and whatever fails, a week with trips has an id twice or
\* no row twice.
LEMMA WeekIsOnce ==
    ASSUME HistoryDays # 0, TripsPerDay # 0, NEW drawn \in Seeds,
           NEW date, NEW open, NEW points, NEW held, NEW mapAvailable, NEW failures
    PROVE  LET w == Generate(drawn, date, open, points, held, mapAvailable, failures)
           IN  HasDuplicates(w) \/ NoRowTwice(w)
<1> DEFINE specs == Specs(drawn, date, open, points)
           parts == Parts(specs, drawn.luck, held, mapAvailable, failures)
           n == HistoryDays * TripsPerDay
           ids == [i \in 1..n |-> CHOOSE id : Fine(parts[i], id)]
           scores == HotspotHistory(date, open)
           w == Generate(drawn, date, open, points, held, mapAvailable, failures)
<1>1. n \in Nat /\ n # 0
  <2>1. HistoryDays \in Nat \ {0} /\ TripsPerDay \in Nat \ {0}
    BY HistoryAssumption
  <2>2. \A a, b \in Nat \ {0} : a * b \in Nat /\ a * b # 0
    OBVIOUS
  <2> QED BY <2>1, <2>2
<1>2. PICK Q : specs \in Seq(Q) /\ Len(specs) = n
  BY SpecsAreWhole
<1>3. \A i \in 1..n : drawn.luck[i].answers \in Seq(Answers)
  <2>1. drawn.luck \in [1..n -> Lucks]
    BY BootstrapAssumption
  <2> QED BY <2>1, AnswersAreDrawn
<1>4. w = Together(AllOf(parts), scores)
  BY DEF Generate
<1> HIDE DEF specs, n
<1>5. parts = [i \in 1..n |-> parts[i]] /\ \A i \in 1..n : \E id : Fine(parts[i], id)
  BY <1>2, <1>3, PartsAreFine
<1> HIDE DEF parts
<1>6. \A i \in 1..n : Fine(parts[i], ids[i])
  BY <1>5
<1> HIDE DEF ids
<1> DEFINE all == AllOf(parts)
<1>7. /\ DOMAIN all["rows"] = 1..n /\ \A i \in 1..n : all["rows"][i].id = ids[i]
      /\ \E P : all["rows"] \in Seq(P)
      /\ (\A i, j \in 1..n : ids[i] = ids[j] => i = j) => \A t \in TableNames : Once(all[t])
      /\ all["trip_events"] # <<>> /\ all["hotspot_history"] = <<>>
  <2>1. /\ DOMAIN AllOf(parts)["rows"] = 1..n
        /\ \A i \in 1..n : /\ AllOf(parts)["rows"][i].id = ids[i]
                           /\ parts[i]["rows"] = <<AllOf(parts)["rows"][i]>>
        /\ \E P : AllOf(parts)["rows"] \in Seq(P)
        /\ (\A i, j \in 1..n : ids[i] = ids[j] => i = j) =>
              \A t \in TableNames : Once(AllOf(parts)[t])
        /\ n # 0 => AllOf(parts)["trip_events"] # <<>>
        /\ AllOf(parts)["hotspot_history"] = <<>>
    BY <1>1, <1>5, <1>6, AllAreOnce, Zenon
  <2> QED BY <1>1, <2>1
<1>8. /\ Once(scores["hotspot_history"])
      /\ \A t \in (TableNames \ {"hotspot_history"}) \cup {"rows"} : scores[t] = <<>>
  BY HotspotsAreOnce
<1> HIDE DEF all, scores
<1>9. \A t \in TableNames \cup {"rows"} : w[t] = all[t] \o scores[t]
  <2>1. TableNames \cup {"rows"} \subseteq DOMAIN Nothing
    BY DEF Nothing, TableNames
  <2> QED BY <1>4, <2>1 DEF Together, all
<1> HIDE DEF w
<1>10. \A P : \A x \in Seq(P) : x \o <<>> = x /\ <<>> \o x = x
  OBVIOUS
<1>11. w["rows"] = all["rows"]
  <2>1. w["rows"] = all["rows"] \o <<>>
    BY <1>8, <1>9
  <2> QED BY <1>7, <1>10, <2>1
<1>12. CASE \E i, j \in 1..n : ids[i] = ids[j] /\ i # j
  <2>1. HasDuplicates(w)
    <3>1. PICK i \in 1..n, j \in 1..n : ids[i] = ids[j] /\ i # j
      BY <1>12
    <3>2. i \in DOMAIN w["rows"] /\ j \in DOMAIN w["rows"] /\ w["rows"][i].id = w["rows"][j].id
      BY <1>7, <1>11, <3>1
    <3> QED BY <3>1, <3>2 DEF HasDuplicates
  <2> QED BY <2>1 DEF w
<1>13. CASE \A i, j \in 1..n : ids[i] = ids[j] => i = j
  <2>1. \A t \in TableNames : Once(all[t])
    BY <1>7, <1>13
  <2>2. \A t \in TableNames \ {"hotspot_history"} : w[t] = all[t]
    <3> SUFFICES ASSUME NEW t \in TableNames \ {"hotspot_history"} PROVE w[t] = all[t]
      OBVIOUS
    <3>1. w[t] = all[t] \o <<>>
      BY <1>8, <1>9
    <3>2. \E P : all[t] \in Seq(P)
      BY <2>1 DEF Once
    <3> QED BY <1>10, <3>1, <3>2
  <2>3. w["hotspot_history"] = scores["hotspot_history"]
    <3>1. w["hotspot_history"] = <<>> \o scores["hotspot_history"]
      BY <1>7, <1>9 DEF TableNames
    <3>2. \E P : scores["hotspot_history"] \in Seq(P)
      BY <1>8 DEF Once
    <3> QED BY <1>10, <3>1, <3>2
  <2>4. \A t \in TableNames : Once(w[t])
    BY <1>8, <2>1, <2>2, <2>3
  <2>5. w["trip_events"] # <<>>
    BY <1>7, <2>2 DEF TableNames
  <2>6. NoRowTwice(w)
    BY <2>4, <2>5, TablesAre DEF NoRowTwice, Once
  <2> QED BY <2>6 DEF w
<1> QED BY <1>12, <1>13

-----------------------------------------------------------------------------
(* What is stored was generated, and looked at before.                       *)
Made == seed \in Seeds /\ WeekHasNoRowTwice

LEMMA MadeStep ==
    ASSUME HistoryDays # 0, TripsPerDay # 0, Made, [Next]_vars
    PROVE  Made'
<1>1. seed' = seed
  BY DEF Next, Make, Prepare, Rebuild, Populate, Fill, vars, world, CreateDatabase, CreateSchema,
     CheckMarker, Migrate, Migrated, Restore, RestoreWays, RestoreCorners, ImportMap,
     InsertZones, CloseZones, SeedPeople, Calibrate, SeedTraffic, GenerateWeek, CheckDuplicates,
     StoreTrips, StoreOffers, StoreRatings, CheckWarehouse, LoadWarehouse, SetMarker, Serve,
     Die, NewDay
<1>2. CASE GenerateWeek
  <2>1. PICK mapAvailable, failures :
           week' = Generate(seed, today, grid, pools, traffic, mapAvailable, failures)
    BY <1>2, Zenon DEF GenerateWeek
  <2>2. HasDuplicates(week') \/ NoRowTwice(week')
    BY <2>1, WeekIsOnce DEF Made
  <2>3. pc' = "duplicates"
    BY <1>2 DEF GenerateWeek
  <2>4. WeekHasNoRowTwice'
    BY <2>2, <2>3 DEF WeekHasNoRowTwice, HasDuplicates, NoRowTwice
  <2> QED BY <1>1, <2>4 DEF Made
<1>3. CASE CheckDuplicates
  <2>1. pc = "duplicates"
        /\ (pc' = "off" \/ (~HasDuplicates(week) /\ pc' = "trips" /\ week' = week))
    BY <1>3 DEF CheckDuplicates, Fail, memory
  <2>2. WeekHasNoRowTwice'
    BY <2>1 DEF Made, WeekHasNoRowTwice, NoRowTwice
  <2> QED BY <1>1, <2>2 DEF Made
<1>4. CASE ~GenerateWeek /\ ~CheckDuplicates
  <2> DEFINE Stored == {"trips", "offers", "ratings", "warehouse", "load"}
  <2>1. \/ pc' \notin Stored \cup {"duplicates"}
        \/ week' = week /\ pc' = pc
        \/ week' = week /\ pc \in Stored /\ pc' \in Stored
    BY <1>4 DEF Next, Make, Prepare, Rebuild, Populate, Fill, vars, memory, Forget, Fail,
       EndPhase, NextRow, CreateDatabase, CreateSchema, CheckMarker, Migrate, Migrated, Restore,
       RestoreWays, RestoreCorners, ImportMap, InsertZones, CloseZones, SeedPeople, Calibrate,
       SeedTraffic, StoreTrips, StoreOffers, StoreRatings, CheckWarehouse, LoadWarehouse,
       SetMarker, Serve, Die, NewDay
  <2>2. WeekHasNoRowTwice'
    BY <2>1 DEF Made, WeekHasNoRowTwice, HasDuplicates, NoRowTwice
  <2> QED BY <1>1, <2>2 DEF Made
<1> QED BY <1>2, <1>3, <1>4

\* Whatever is drawn, dies or is lost, and however often bootstrap is run and
\* forced, no table of the warehouse gets a row twice.  A history without trips
\* is the exception: trip_events stays empty, and the scores are loaded again.
THEOREM LoadedOnce ==
    ASSUME HistoryDays # 0, TripsPerDay # 0
    PROVE  Spec => []NothingDoubled
<1>1. Init => Made /\ Loading /\ NothingDoubled
  <2> SUFFICES ASSUME Init PROVE Made /\ Loading /\ NothingDoubled
    OBVIOUS
  <2>1. warehouse = Empty /\ \A t \in DOMAIN Empty : Empty[t] = <<>>
    BY DEF Init, Empty
  <2>2. \A t \in DOMAIN Empty : warehouse[t] \in Seq({})
    <3>1. <<>> \in Seq({})
      OBVIOUS
    <3> QED BY <2>1, <3>1
  <2>3. Loading
    BY <2>1, <2>2 DEF Init, Loading, AllEmpty
  <2>4. Made
    BY DEF Init, Made, WeekHasNoRowTwice
  <2> QED BY <2>1, <2>3, <2>4 DEF NothingDoubled
<1>2. (Made /\ Loading /\ NothingDoubled) /\ [Next]_vars => (Made /\ Loading /\ NothingDoubled)'
  BY LoadingStep, MadeStep DEF Made
<1> QED BY <1>1, <1>2, PTL DEF Spec

-----------------------------------------------------------------------------
(* The offers of an invented trip, as the service would have laid them.        *)

\* What a driver may answer takes a second at least, and the deadline at most.
LEMMA AnswerTakes ==
    ASSUME NEW a \in Answers
    PROVE  /\ Span(a) \in 1..OfferTimeout
           /\ a.status = "expired" <=> a.response = None
           /\ a.response # None => Span(a) = a.response /\ a.response \in 1..(OfferTimeout - 1)
           /\ a.response = None => Span(a) = OfferTimeout
<1>1. OfferTimeout \in Nat /\ OfferTimeout > 8 /\ \A k \in Int : k # None
  BY OfferAssumption, HistoryAssumption
<1>2. CASE a \in [status : {"accepted"}, response : 1..8]
  BY <1>1, <1>2 DEF Span
<1>3. CASE a \in [status : {"declined"}, response : 2..(OfferTimeout - 1)]
  BY <1>1, <1>3 DEF Span
<1>4. CASE a \in [status : {"expired"}, response : {None}]
  BY <1>1, <1>4 DEF Span
<1> QED BY <1>2, <1>3, <1>4 DEF Answers

\* Sums of the first steps.
RunsUp(f, n, step) == f = [i \in 1..(n + 1) |-> IF i = 1 THEN 0 ELSE f[i - 1] + step[i - 1]]

LEMMA RunsUpExists ==
    ASSUME NEW n \in Nat, NEW step
    PROVE  \E f : RunsUp(f, n, step)
<1> DEFINE S == {m \in Nat : \E f : RunsUp(f, m, step)}
<1>1. 0 \in S
  <2>1. RunsUp([i \in 1..1 |-> 0], 0, step)
    BY DEF RunsUp
  <2> QED BY <2>1
<1>2. ASSUME NEW m \in Nat, m \in S
      PROVE  m + 1 \in S
  <2>1. PICK f : RunsUp(f, m, step)
    BY <1>2
  <2> DEFINE Longer(h) == [i \in 1..((m + 1) + 1) |-> IF i = 1 THEN 0 ELSE h[i - 1] + step[i - 1]]
             g == Longer(f)
  <2>2. \A i \in 1..(m + 1) : g[i] = f[i]
    <3>1. \A i \in 1..(m + 1) : f[i] = IF i = 1 THEN 0 ELSE f[i - 1] + step[i - 1]
      BY <2>1 DEF RunsUp
    <3>2. \A i \in 1..(m + 1) : i \in 1..((m + 1) + 1)
      OBVIOUS
    <3> QED BY <3>1, <3>2
  <2>3. \A i \in 1..((m + 1) + 1) : i # 1 => g[i - 1] = f[i - 1]
    <3>1. \A i \in 1..((m + 1) + 1) : i # 1 => i - 1 \in 1..(m + 1)
      OBVIOUS
    <3> HIDE DEF g
    <3> QED BY <2>2, <3>1
  <2>4. g = Longer(g)
    <3>1. Longer(f) = Longer(g)
      <4> HIDE DEF g
      <4> QED BY <2>3
    <3> QED BY <3>1
  <2> HIDE DEF g
  <2>5. RunsUp(g, m + 1, step)
    BY <2>4 DEF RunsUp
  <2> QED BY <2>5
<1> HIDE DEF S
<1>3. \A m \in Nat : m \in S
  BY <1>1, <1>2, AllNumbers
<1> QED BY <1>3 DEF S

\* They only grow, and by no more than the longest step.
LEMMA RunsUpTo ==
    ASSUME NEW n \in Nat, NEW most \in Nat, NEW step \in [1..n -> 0..most],
           NEW f, RunsUp(f, n, step)
    PROVE  /\ f \in [1..(n + 1) -> Nat] /\ f[1] = 0
           /\ \A i \in 1..n : f[i + 1] = f[i] + step[i]
           /\ \A i \in 1..(n + 1) : f[i] <= (i - 1) * most
<1> DEFINE S == {m \in 0..n : f[m + 1] \in Nat /\ f[m + 1] <= m * most}
<1>1. DOMAIN f = 1..(n + 1) /\ f = [i \in 1..(n + 1) |-> f[i]]
      /\ \A i \in 1..(n + 1) : f[i] = IF i = 1 THEN 0 ELSE f[i - 1] + step[i - 1]
  BY DEF RunsUp
<1>2. f[1] = 0
  <2>1. 1 \in 1..(n + 1)
    OBVIOUS
  <2> QED BY <1>1, <2>1
<1>3. \A i \in 1..n : f[i + 1] = f[i] + step[i]
  <2> SUFFICES ASSUME NEW i \in 1..n PROVE f[i + 1] = f[i] + step[i]
    OBVIOUS
  <2>1. i + 1 \in 1..(n + 1) /\ i + 1 # 1 /\ (i + 1) - 1 = i
    OBVIOUS
  <2> QED BY <1>1, <2>1
<1>4. 0 \in S
  BY <1>2
<1>5. ASSUME NEW m \in 0..(n - 1), m \in S
      PROVE  m + 1 \in S
  <2>1. m + 1 \in 1..n /\ m + 1 \in 0..n /\ step[m + 1] \in 0..most
    OBVIOUS
  <2>2. f[(m + 1) + 1] = f[m + 1] + step[m + 1] /\ f[m + 1] \in Nat /\ f[m + 1] <= m * most
    BY <1>3, <1>5, <2>1
  <2>3. \A a, b, c, k \in Nat : a <= b * c /\ k <= c => a + k \in Nat /\ a + k <= (b + 1) * c
    OBVIOUS
  <2>4. f[(m + 1) + 1] \in Nat /\ f[(m + 1) + 1] <= (m + 1) * most
    BY <2>1, <2>2, <2>3
  <2> QED BY <2>1, <2>4
<1> HIDE DEF S
<1>6. \A m \in 0..n : m \in S
  BY <1>4, <1>5, AllUpTo
<1>7. \A i \in 1..(n + 1) : f[i] \in Nat /\ f[i] <= (i - 1) * most
  <2> SUFFICES ASSUME NEW i \in 1..(n + 1) PROVE f[i] \in Nat /\ f[i] <= (i - 1) * most
    OBVIOUS
  <2>1. i - 1 \in 0..n /\ (i - 1) + 1 = i
    OBVIOUS
  <2> QED BY <1>6, <2>1 DEF S
<1> QED BY <1>1, <1>2, <1>3, <1>7

\* How long a chain has run: nothing at first, and longer by each answer.
LEMMA ElapsedRuns ==
    ASSUME NEW n \in Nat, NEW answers \in [1..n -> Answers]
    PROVE  /\ Elapsed(answers) \in [1..(n + 1) -> Nat] /\ Elapsed(answers)[1] = 0
           /\ \A i \in 1..n : Elapsed(answers)[i + 1] = Elapsed(answers)[i] + Span(answers[i])
           /\ \A i \in 1..(n + 1) : Elapsed(answers)[i] <= (i - 1) * OfferTimeout
<1> DEFINE step == [i \in 1..n |-> Span(answers[i])]
           Runs(f) == f = [i \in 1..(Len(answers) + 1) |->
                             IF i = 1 THEN 0 ELSE f[i - 1] + Span(answers[i - 1])]
<1>1. Len(answers) = n /\ OfferTimeout \in Nat
  <2>1. answers \in Seq(Answers) /\ DOMAIN answers = 1..n
    BY SeqDef
  <2> QED BY <2>1, SameLength, OfferAssumption
<1>2. step \in [1..n -> 0..OfferTimeout]
  <2>1. \A i \in 1..n : Span(answers[i]) \in 0..OfferTimeout
    BY <1>1, AnswerTakes
  <2> QED BY <2>1
<1>3. ASSUME NEW f
      PROVE  Runs(f) <=> RunsUp(f, n, step)
  <2>1. [i \in 1..(Len(answers) + 1) |-> IF i = 1 THEN 0 ELSE f[i - 1] + Span(answers[i - 1])]
          = [i \in 1..(n + 1) |-> IF i = 1 THEN 0 ELSE f[i - 1] + step[i - 1]]
    <3>1. \A i \in 1..(n + 1) : i # 1 => i - 1 \in 1..n
      OBVIOUS
    <3>2. \A i \in 1..(n + 1) : i # 1 => step[i - 1] = Span(answers[i - 1])
      BY <3>1
    <3> HIDE DEF step
    <3> QED BY <1>1, <3>2
  <2> QED BY <2>1 DEF RunsUp
<1> HIDE DEF step
<1>4. Elapsed(answers) = CHOOSE f : Runs(f)
  BY Zenon DEF Elapsed
<1>5. \E f : Runs(f)
  BY <1>3, RunsUpExists
<1> HIDE DEF Runs
<1>6. Runs(Elapsed(answers))
  BY <1>4, <1>5, Zenon
<1>7. RunsUp(Elapsed(answers), n, step)
  BY <1>3, <1>6
<1>8. \A i \in 1..n : step[i] = Span(answers[i])
  BY DEF step
<1> HIDE DEF step
<1>9. /\ Elapsed(answers) \in [1..(n + 1) -> Nat] /\ Elapsed(answers)[1] = 0
      /\ \A i \in 1..n : Elapsed(answers)[i + 1] = Elapsed(answers)[i] + step[i]
      /\ \A i \in 1..(n + 1) : Elapsed(answers)[i] <= (i - 1) * OfferTimeout
  <2>1. \A most \in Nat : step \in [1..n -> 0..most] =>
           /\ Elapsed(answers) \in [1..(n + 1) -> Nat] /\ Elapsed(answers)[1] = 0
           /\ \A i \in 1..n : Elapsed(answers)[i + 1] = Elapsed(answers)[i] + step[i]
           /\ \A i \in 1..(n + 1) : Elapsed(answers)[i] <= (i - 1) * most
    BY <1>7, RunsUpTo
  <2> QED BY <1>1, <1>2, <2>1, Zenon
<1> QED BY <1>8, <1>9

\* Drivers are asked until the first one says yes.
LEMMA AskedUntilYes ==
    ASSUME NEW m \in Nat \ {0}, NEW answers \in [1..m -> Answers]
    PROVE  \E n \in 1..m :
              /\ AskedAnswers(answers) \in [1..n -> Answers]
              /\ \A i \in 1..n : AskedAnswers(answers)[i] = answers[i]
              /\ \A i \in 1..(n - 1) : answers[i].status # "accepted"
<1> DEFINE yes == {i \in 1..m : answers[i].status = "accepted"}
<1>1. \E n \in 1..m : Asked(answers) = 1..n
  <2>1. CASE yes = {}
    <3>1. DOMAIN answers = 1..m /\ \A i \in 1..m : answers[i].status # "accepted"
      BY <2>1
    <3>2. \A i \in 1..m : \A j \in 1..(i - 1) : j \in 1..m
      OBVIOUS
    <3>3. Asked(answers) = 1..m /\ m \in 1..m
      BY <3>1, <3>2 DEF Asked
    <3> QED BY <3>3
  <2>2. CASE yes # {}
    <3>1. Min(yes) \in yes /\ \A i \in yes : Min(yes) <= i
      <4>1. PICK n \in yes : \A i \in yes : n <= i
        <5>1. yes \subseteq Nat
          OBVIOUS
        <5> HIDE DEF yes
        <5>2. PICK n \in yes : \A i \in yes : <<i, n>> \notin NatLess
          BY <2>2, <5>1, NatLessIsWellFounded, WFMin, Zenon
        <5>3. \A i \in yes : n <= i
          <6> SUFFICES ASSUME NEW i \in yes PROVE n <= i
            OBVIOUS
          <6>1. i \in Nat /\ n \in Nat /\ ~(i < n)
            BY <5>1, <5>2 DEF NatLess
          <6> QED BY <6>1
        <5> QED BY <5>3
      <4> HIDE DEF yes
      <4> QED BY <4>1 DEF Min
    <3> DEFINE n == Min(yes)
    <3> HIDE DEF n
    <3>2. n \in 1..m /\ answers[n].status = "accepted"
      BY <3>1 DEF n
    <3>3. \A i \in 1..m : i < n => answers[i].status # "accepted"
      <4> SUFFICES ASSUME NEW i \in 1..m, i < n, answers[i].status = "accepted" PROVE FALSE
        OBVIOUS
      <4>1. i \in yes
        OBVIOUS
      <4> HIDE DEF yes
      <4> QED BY <3>1, <3>2, <4>1 DEF n
    <3>4. ASSUME NEW i
          PROVE  i \in Asked(answers) <=> i \in 1..n
      <4>1. CASE i \in 1..n
        <5>1. i \in 1..m /\ \A j \in 1..(i - 1) : j \in 1..m /\ j < n
          BY <3>2, <4>1
        <5> QED BY <3>3, <4>1, <5>1 DEF Asked
      <4>2. CASE i \notin 1..n /\ i \in 1..m
        <5>1. n \in 1..(i - 1)
          BY <3>2, <4>2
        <5> QED BY <3>2, <4>2, <5>1 DEF Asked
      <4> QED BY <4>1, <4>2 DEF Asked
    <3> QED BY <3>2, <3>4
  <2> QED BY <2>1, <2>2
<1>2. PICK n \in 1..m : Asked(answers) = 1..n
  BY <1>1
<1>3. Cardinality(Asked(answers)) = n
  <2>1. n \in Int /\ 1 \in Int /\ ~(1 > n) /\ n - 1 + 1 = n
    OBVIOUS
  <2> QED BY <1>2, <2>1, FS_Interval
<1>4. AskedAnswers(answers) = SubSeq(answers, 1, n)
  BY <1>3 DEF AskedAnswers
<1>5. SubSeq(answers, 1, n) = [i \in 1..n |-> answers[i]]
  OBVIOUS
<1>6. \A i \in 1..n : i \in 1..m
  OBVIOUS
<1>7. \A i \in 1..(n - 1) : answers[i].status # "accepted"
  <2>1. n \in Asked(answers)
    BY <1>2
  <2> QED BY <2>1 DEF Asked
<1> QED BY <1>4, <1>5, <1>6, <1>7

\* When each offer of a chain is made and over, of a trip that takes this spec.
LaidFrom(rows, spec, n, asked, e) ==
    /\ rows = [i \in 1..n |-> rows[i]]
    /\ \A i \in 1..n :
          /\ rows[i].trip = spec.id
          /\ rows[i].offer.sequence = i /\ rows[i].offer.status = asked[i].status
          /\ rows[i].offer.offered = spec.requested + e[i]
          /\ rows[i].offer.expires = spec.requested + e[i] + OfferTimeout
          /\ rows[i].offer.responded = IF asked[i].response = None THEN None
                                       ELSE spec.requested + e[i] + asked[i].response
          /\ asked[i].status = "accepted" => rows[i].offer.driver = spec.driver

LEMMA SeededFromTheRequest ==
    ASSUME NEW spec, spec.requested \in Int, NEW luck \in Lucks, NEW n \in Nat \ {0},
           AskedAnswers(luck.answers) \in [1..n -> Answers]
    PROVE  LaidFrom(SeedOffers(spec, luck), spec, n, AskedAnswers(luck.answers),
                    Elapsed(AskedAnswers(luck.answers)))
<1> DEFINE asked == AskedAnswers(luck.answers)
           e == Elapsed(asked)
           start == spec.requested - e[n + 1]
           chain == LayOut(luck.asked, asked, e, spec.requested)
           rows == SeedOffers(spec, luck)
<1>1. /\ e \in [1..(n + 1) -> Nat] /\ e[1] = 0
  BY ElapsedRuns
<1>2. Len(asked) = n /\ DOMAIN asked = 1..n
  <2>1. asked \in Seq(Answers) /\ DOMAIN asked = 1..n
    BY SeqDef
  <2> QED BY <2>1, SameLength
<1>3. /\ OfferTimeout \in Nat /\ \A k \in Int : k # None
      /\ \A i \in 1..n : asked[i] \in Answers
  BY OfferAssumption, HistoryAssumption
<1>4. rows = Moved(spec, chain)
  BY DEF SeedOffers, RunChain
<1> HIDE DEF asked, e, rows
<1>5. start \in Int /\ \A i \in 1..n : e[i] \in Nat /\ i \in 1..(n + 1)
  <2>1. n + 1 \in 1..(n + 1) /\ \A i \in 1..n : i \in 1..(n + 1)
    OBVIOUS
  <2> QED BY <1>1, <2>1
<1>6. DOMAIN chain = 1..n /\ \A i \in 1..n : chain[i] =
         [driver |-> luck.asked[i], sequence |-> i, status |-> asked[i].status,
          offered |-> start + e[i], expires |-> start + e[i] + OfferTimeout,
          responded |-> IF asked[i].response = None THEN None
                        ELSE start + e[i] + asked[i].response]
  BY <1>2, Zenon DEF LayOut
<1> HIDE DEF chain, start
<1>7. chain[1].offered = start
  <2>1. 1 \in 1..n
    OBVIOUS
  <2>2. chain[1].offered = start + e[1]
    BY <1>6, <2>1
  <2> QED BY <1>1, <1>5, <2>2
<1>8. ASSUME NEW i \in 1..n
      PROVE  /\ rows[i].trip = spec.id
             /\ rows[i].offer = [chain[i] EXCEPT
                   !.driver = IF chain[i].status = "accepted" THEN spec.driver ELSE @,
                   !.offered = @ + (spec.requested - start),
                   !.expires = @ + (spec.requested - start),
                   !.responded = IF @ = None THEN None ELSE @ + (spec.requested - start)]
  BY <1>4, <1>6, <1>7 DEF Moved
<1>9. rows = [i \in 1..n |-> rows[i]]
  BY <1>4, <1>6 DEF Moved
<1>10. ASSUME NEW i \in 1..n
       PROVE  /\ rows[i].offer.sequence = i /\ rows[i].offer.status = asked[i].status
              /\ rows[i].offer.offered = spec.requested + e[i]
              /\ rows[i].offer.expires = spec.requested + e[i] + OfferTimeout
              /\ rows[i].offer.responded = IF asked[i].response = None THEN None
                                           ELSE spec.requested + e[i] + asked[i].response
              /\ asked[i].status = "accepted" => rows[i].offer.driver = spec.driver
  <2> DEFINE c == chain[i]
             shift == spec.requested - start
  <2>1. c = [driver |-> luck.asked[i], sequence |-> i, status |-> asked[i].status,
             offered |-> start + e[i], expires |-> start + e[i] + OfferTimeout,
             responded |-> IF asked[i].response = None THEN None
                           ELSE start + e[i] + asked[i].response]
    BY <1>6
  <2>2. rows[i].offer = [c EXCEPT
           !.driver = IF c.status = "accepted" THEN spec.driver ELSE @,
           !.offered = @ + shift, !.expires = @ + shift,
           !.responded = IF @ = None THEN None ELSE @ + shift]
    BY <1>8
  <2> HIDE DEF c, shift
  <2>3. /\ rows[i].offer.sequence = c.sequence /\ rows[i].offer.status = c.status
        /\ rows[i].offer.offered = c.offered + shift /\ rows[i].offer.expires = c.expires + shift
        /\ rows[i].offer.responded = IF c.responded = None THEN None ELSE c.responded + shift
        /\ c.status = "accepted" => rows[i].offer.driver = spec.driver
    BY <2>1, <2>2
  <2>4. /\ c.sequence = i /\ c.status = asked[i].status /\ c.offered = start + e[i]
        /\ c.expires = start + e[i] + OfferTimeout
        /\ c.responded = IF asked[i].response = None THEN None ELSE start + e[i] + asked[i].response
    BY <2>1
  <2>5. e[i] \in Nat /\ start \in Int /\ shift = spec.requested - start
        /\ (asked[i].response # None => asked[i].response \in Nat)
    <3>1. asked[i].response # None => asked[i].response \in 1..(OfferTimeout - 1)
      BY <1>3, AnswerTakes
    <3> QED BY <1>3, <1>5, <3>1 DEF shift
  <2>6. \A a, b, r \in Int : (a + b) + (r - a) = r + b
    OBVIOUS
  <2>7. c.offered + shift = spec.requested + e[i]
        /\ c.expires + shift = spec.requested + e[i] + OfferTimeout
    BY <1>3, <2>4, <2>5
  <2>8. IF c.responded = None THEN asked[i].response = None
        ELSE asked[i].response # None /\ c.responded + shift = spec.requested + e[i] + asked[i].response
    <3>1. CASE asked[i].response = None
      BY <2>4, <3>1
    <3>2. CASE asked[i].response # None
      <4>1. c.responded = start + e[i] + asked[i].response /\ c.responded \in Int
        BY <2>4, <2>5, <3>2
      <4>2. c.responded + shift = spec.requested + e[i] + asked[i].response
        BY <2>5, <3>2, <4>1
      <4> QED BY <1>3, <3>2, <4>1, <4>2
    <3> QED BY <3>1, <3>2
  <2> QED BY <2>3, <2>4, <2>7, <2>8
<1> QED BY <1>8, <1>9, <1>10 DEF LaidFrom, asked, e, rows

\* A set with a last element has it as its Max.
LEMMA LastIsGreatest ==
    ASSUME NEW S \in SUBSET Int, NEW x \in S, \A y \in S : y <= x
    PROVE  Max(S) = x
<1>1. \A y \in S : (\A z \in S : y >= z) => y = x
  OBVIOUS
<1>2. \E y \in S : \A z \in S : y >= z
  OBVIOUS
<1>3. Max(S) \in S /\ \A z \in S : Max(S) >= z
  BY <1>2 DEF Max
<1> QED BY <1>1, <1>3

\* A chain of a trip: what WellLaid says, from its request on, over in time
\* for the trip to end, and accepted by nobody else.
Chained(rows, spec, n) ==
    /\ rows = [i \in 1..n |-> rows[i]]
    /\ \A i \in 1..n : rows[i].trip = spec.id
    /\ EndOfChain(rows) \in Int
    /\ spec.requested <= EndOfChain(rows) /\ EndOfChain(rows) <= spec.requested + NoDriverAfter
    /\ WellLaid([i \in 1..n |-> rows[i].offer], spec.requested, EndOfChain(rows))
    /\ rows[n].offer.status = "accepted" => rows[n].offer.driver = spec.driver

LEMMA ChainIsLaid ==
    ASSUME NEW spec, spec.requested \in Int, NEW luck \in Lucks
    PROVE  \E n \in 1..SeedMaxOffers : Chained(SeedOffers(spec, luck), spec, n)
<1> DEFINE asked == AskedAnswers(luck.answers)
           e == Elapsed(asked)
           rows == SeedOffers(spec, luck)
           r == spec.requested
<1>1. PICK n \in 1..SeedMaxOffers :
          /\ asked \in [1..n -> Answers]
          /\ \A i \in 1..n : asked[i] = luck.answers[i]
          /\ \A i \in 1..(n - 1) : luck.answers[i].status # "accepted"
  <2>1. luck.answers \in [1..SeedMaxOffers -> Answers] /\ SeedMaxOffers \in Nat \ {0}
    BY DEF Lucks, SeedMaxOffers
  <2> QED BY <2>1, AskedUntilYes
<1>2. n \in Nat \ {0} /\ n <= SeedMaxOffers /\ n \in 1..n /\ 1 \in 1..n
      /\ \A i \in 1..n : i \in 1..(n + 1) /\ i + 1 \in 1..(n + 1) /\ i \in Nat
  BY DEF SeedMaxOffers
<1>3. LaidFrom(rows, spec, n, asked, e)
  BY <1>1, <1>2, SeededFromTheRequest
<1>4. /\ e \in [1..(n + 1) -> Nat] /\ e[1] = 0
      /\ \A i \in 1..n : e[i + 1] = e[i] + Span(asked[i])
      /\ \A i \in 1..(n + 1) : e[i] <= (i - 1) * OfferTimeout
  BY <1>1, <1>2, ElapsedRuns
<1> HIDE DEF asked, e, rows
<1>5. /\ OfferTimeout \in Nat /\ SeedMaxOffers * OfferTimeout <= NoDriverAfter
      /\ \A k \in Int : k # None
  BY OfferAssumption, HistoryAssumption
<1>6. ASSUME NEW i \in 1..n
      PROVE  /\ EndOf(rows[i].offer) = r + e[i + 1]
             /\ e[i] \in Nat /\ e[i + 1] \in Nat /\ e[i] < e[i + 1]
             /\ rows[i].offer.status = "expired" <=> rows[i].offer.responded = None
             /\ rows[i].offer.responded # None => rows[i].offer.responded \in
                    (rows[i].offer.offered + 1)..(rows[i].offer.expires - 1)
  <2>1. /\ Span(asked[i]) \in 1..OfferTimeout
        /\ asked[i].status = "expired" <=> asked[i].response = None
        /\ asked[i].response # None =>
              Span(asked[i]) = asked[i].response /\ asked[i].response \in 1..(OfferTimeout - 1)
        /\ asked[i].response = None => Span(asked[i]) = OfferTimeout
    <3>1. asked[i] \in Answers
      BY <1>1
    <3> QED BY <3>1, AnswerTakes
  <2>2. /\ rows[i].offer.status = asked[i].status
        /\ rows[i].offer.offered = r + e[i]
        /\ rows[i].offer.expires = r + e[i] + OfferTimeout
        /\ rows[i].offer.responded = IF asked[i].response = None THEN None
                                     ELSE r + e[i] + asked[i].response
    BY <1>3 DEF LaidFrom
  <2>3. e[i] \in Nat /\ e[i + 1] = e[i] + Span(asked[i]) /\ r \in Int
    BY <1>2, <1>4
  <2>4. e[i + 1] \in Nat /\ e[i] < e[i + 1]
    BY <1>5, <2>1, <2>3
  <2>5. CASE asked[i].response = None
    <3>1. EndOf(rows[i].offer) = r + e[i + 1]
      BY <1>5, <2>1, <2>2, <2>3, <2>5 DEF EndOf
    <3> QED BY <2>1, <2>2, <2>3, <2>4, <2>5, <3>1
  <2>6. CASE asked[i].response # None
    <3>1. rows[i].offer.responded = r + e[i] + asked[i].response /\ asked[i].response \in Nat
          /\ 1 <= asked[i].response /\ asked[i].response <= OfferTimeout - 1
      BY <1>5, <2>1, <2>2, <2>6
    <3>2. r + e[i] + asked[i].response \in Int
      BY <2>3, <3>1
    <3>3. rows[i].offer.responded # None
      BY <1>5, <3>1, <3>2
    <3>4. EndOf(rows[i].offer) = r + e[i + 1]
      BY <2>1, <2>3, <2>6, <3>1, <3>3 DEF EndOf
    <3>5. rows[i].offer.responded \in (rows[i].offer.offered + 1)..(rows[i].offer.expires - 1)
      BY <1>5, <2>2, <2>3, <3>1, <3>2
    <3> QED BY <2>1, <2>2, <2>3, <2>4, <2>6, <3>3, <3>4, <3>5
  <2> QED BY <2>5, <2>6
<1>7. \A i \in 1..n : e[i + 1] <= e[n + 1]
  <2> DEFINE S == {k \in 0..(n - 1) : e[n - k + 1] <= e[n + 1]}
  <2>1. 0 \in S
    <3>1. n - 0 + 1 = n + 1 /\ n + 1 \in 1..(n + 1) /\ 0 \in 0..(n - 1)
      BY <1>2
    <3>2. e[n + 1] \in Nat
      BY <1>4, <3>1
    <3> QED BY <3>1, <3>2
  <2>2. ASSUME NEW k \in 0..((n - 1) - 1), k \in S
        PROVE  k + 1 \in S
    <3>1. n - k \in 1..n /\ k + 1 \in 0..(n - 1) /\ n - (k + 1) + 1 = n - k /\ n + 1 \in 1..(n + 1)
      BY <1>2
    <3>2. e[n - k] \in Nat /\ e[n - k + 1] \in Nat /\ e[n - k] < e[n - k + 1]
      BY <1>6, <3>1
    <3>3. e[n + 1] \in Nat /\ e[n - k + 1] <= e[n + 1]
      BY <1>4, <2>2, <3>1
    <3>4. e[n - (k + 1) + 1] <= e[n + 1]
      BY <3>1, <3>2, <3>3
    <3> QED BY <3>1, <3>4
  <2> HIDE DEF S
  <2>3. n - 1 \in Nat
    BY <1>2
  <2>4. \A k \in 0..(n - 1) : k \in S
    BY <2>1, <2>2, <2>3, AllUpTo
  <2> SUFFICES ASSUME NEW i \in 1..n PROVE e[i + 1] <= e[n + 1]
    OBVIOUS
  <2>5. n - i \in 0..(n - 1) /\ n - (n - i) + 1 = i + 1
    BY <1>2
  <2> QED BY <2>4, <2>5 DEF S
<1>8. EndOfChain(rows) = r + e[n + 1]
  <2> DEFINE ends == {EndOf(rows[i].offer) : i \in DOMAIN rows}
  <2>1. DOMAIN rows = 1..n
    BY <1>3 DEF LaidFrom
  <2>2. \A x \in ends : x \in Int /\ x <= r + e[n + 1]
    <3> SUFFICES ASSUME NEW i \in 1..n
                 PROVE  EndOf(rows[i].offer) \in Int /\ EndOf(rows[i].offer) <= r + e[n + 1]
      BY <2>1
    <3>1. EndOf(rows[i].offer) = r + e[i + 1] /\ e[i + 1] \in Nat
      BY <1>6
    <3>2. e[i + 1] <= e[n + 1] /\ e[n + 1] \in Nat
      BY <1>2, <1>6, <1>7
    <3> QED BY <3>1, <3>2
  <2>3. r + e[n + 1] \in ends
    BY <1>2, <1>6, <2>1
  <2> HIDE DEF ends
  <2>4. Max(ends) = r + e[n + 1]
    BY <2>2, <2>3, LastIsGreatest
  <2> QED BY <2>4 DEF EndOfChain, ends
<1>9. EndOfChain(rows) \in Int /\ r <= EndOfChain(rows) /\ EndOfChain(rows) <= r + NoDriverAfter
  <2>1. e[n + 1] \in Nat /\ e[n + 1] <= n * OfferTimeout
    <3>1. n + 1 \in 1..(n + 1) /\ (n + 1) - 1 = n
      BY <1>2
    <3> QED BY <1>4, <3>1
  <2>2. n * OfferTimeout <= SeedMaxOffers * OfferTimeout
    BY <1>2, <1>5 DEF SeedMaxOffers
  <2>3. e[n + 1] <= NoDriverAfter
    BY <1>2, <1>5, <2>1, <2>2 DEF SeedMaxOffers, NoDriverAfter
  <2> QED BY <1>8, <2>1, <2>3 DEF NoDriverAfter
<1>10. ASSUME NEW laid, laid = [i \in 1..n |-> rows[i].offer]
       PROVE  WellLaid(laid, r, EndOfChain(rows))
  <2>1. DOMAIN laid = 1..n /\ Len(laid) = n /\ laid # <<>>
    <3>1. laid \in Seq({rows[i].offer : i \in 1..n}) /\ DOMAIN laid = 1..n
      BY <1>2, <1>10, SeqDef
    <3>2. Len(laid) = n
      BY <1>2, <3>1, SameLength
    <3>3. Len(<<>>) = 0
      OBVIOUS
    <3> QED BY <1>2, <3>1, <3>2, <3>3
  <2>2. \A i \in 1..n : laid[i] = rows[i].offer
    BY <1>10
  <2> HIDE <1>10
  <2>3. ASSUME NEW i \in 1..n
        PROVE  /\ laid[i].sequence = i
               /\ laid[i].offered = (IF i = 1 THEN r ELSE EndOf(laid[i - 1]))
               /\ laid[i].expires = laid[i].offered + OfferTimeout
               /\ laid[i].status = "expired" <=> laid[i].responded = None
               /\ laid[i].responded # None => laid[i].responded \in
                      (laid[i].offered + 1)..(laid[i].expires - 1)
               /\ laid[i].status = "accepted" => i = Len(laid)
    <3>1. /\ rows[i].offer.sequence = i /\ rows[i].offer.status = asked[i].status
          /\ rows[i].offer.offered = r + e[i] /\ rows[i].offer.expires = r + e[i] + OfferTimeout
      BY <1>3 DEF LaidFrom
    <3>2. i = 1 => rows[i].offer.offered = r
      BY <1>4, <3>1
    <3>3. i # 1 => EndOf(laid[i - 1]) = rows[i].offer.offered
      <4> SUFFICES ASSUME i # 1 PROVE EndOf(laid[i - 1]) = rows[i].offer.offered
        OBVIOUS
      <4>1. i - 1 \in 1..n /\ (i - 1) + 1 = i
        OBVIOUS
      <4>2. EndOf(rows[i - 1].offer) = r + e[i]
        BY <1>6, <4>1
      <4> QED BY <2>2, <3>1, <4>1, <4>2
    <3>4. asked[i].status = "accepted" => i = n
      <4> SUFFICES ASSUME i # n PROVE asked[i].status # "accepted"
        OBVIOUS
      <4>1. i \in 1..(n - 1)
        BY <1>2
      <4> QED BY <1>1, <4>1
    <3>5. laid[i] = rows[i].offer
      BY <2>2
    <3>6. /\ laid[i].status = "expired" <=> laid[i].responded = None
          /\ laid[i].responded # None => laid[i].responded \in
                 (laid[i].offered + 1)..(laid[i].expires - 1)
      BY <1>6, <3>5
    <3> QED BY <2>1, <3>1, <3>2, <3>3, <3>4, <3>5, <3>6
  <2>4. EndOf(laid[Len(laid)]) = EndOfChain(rows)
    BY <1>2, <1>6, <1>8, <2>1, <2>2
  <2> QED BY <2>1, <2>3, <2>4 DEF WellLaid
<1>11. /\ rows = [i \in 1..n |-> rows[i]] /\ \A i \in 1..n : rows[i].trip = spec.id
       /\ rows[n].offer.status = "accepted" => rows[n].offer.driver = spec.driver
  BY <1>2, <1>3 DEF LaidFrom
<1>12. WellLaid([i \in 1..n |-> rows[i].offer], r, EndOfChain(rows))
  BY <1>10
<1> QED BY <1>9, <1>11, <1>12 DEF Chained, rows, r

-----------------------------------------------------------------------------
(* The rest of a trip: what each way to finish it leaves.                      *)

\* A share of a whole is between nothing and all of it.
LEMMA ShareIsWithin ==
    ASSUME NEW whole \in Nat, NEW part \in Nat, NEW gaps \in Nat \ {0}, part <= gaps
    PROVE  (whole * part) \div gaps \in 0..whole
<1> DEFINE q == (whole * part) \div gaps
<1>1. whole * part \in Nat
  OBVIOUS
<1>2. q \in Nat /\ q * gaps <= whole * part
  BY <1>1, Division
<1> HIDE DEF q
<1>3. whole * part <= whole * gaps
  OBVIOUS
<1>4. ASSUME q > whole PROVE FALSE
  <2>1. \A a, b, g \in Nat : b >= a + 1 => b * g >= a * g + g
    OBVIOUS
  <2>2. q * gaps >= whole * gaps + gaps
    BY <1>2, <1>4, <2>1
  <2>3. q * gaps \in Nat /\ whole * gaps \in Nat
    BY <1>2
  <2> QED BY <1>1, <1>2, <1>3, <2>2, <2>3
<1>5. q \in 0..whole
  BY <1>2, <1>4
<1> QED BY <1>5 DEF q

\* The reports of a ride that starts and ends come from it.
LEMMA ReportsOfTheRide ==
    ASSUME NEW row, row.started \in Int, row.ended \in Int, row.started <= row.ended
    PROVE  /\ \E Q : Reports(row) \in Seq(Q)
           /\ \A k \in DOMAIN Reports(row) :
                 /\ Reports(row)[k].trip = row.id /\ Reports(row)[k].driver = row.driver
                 /\ Reports(row)[k].moment \in row.started..row.ended
<1> DEFINE gaps == IF PositionsPerTrip > 2 THEN PositionsPerTrip - 1 ELSE 1
           driven == row.ended - row.started
           x == Reports(row)
<1>1. /\ PositionsPerTrip \in Nat /\ gaps \in Nat \ {0} /\ driven \in Nat
      /\ \A k \in 1..PositionsPerTrip : k - 1 \in Nat /\ k - 1 <= gaps
  BY HistoryAssumption
<1>2. /\ x = [k \in 1..PositionsPerTrip |-> x[k]]
      /\ \A k \in 1..PositionsPerTrip :
            /\ x[k].trip = row.id /\ x[k].driver = row.driver
            /\ x[k].moment = row.started + (driven * (k - 1)) \div gaps
  BY DEF Reports
<1>3. ASSUME NEW k \in 1..PositionsPerTrip
      PROVE  x[k].moment \in row.started..row.ended
  <2>1. k - 1 \in Nat /\ k - 1 <= gaps
    BY <1>1
  <2> HIDE DEF gaps, driven, x
  <2>2. (driven * (k - 1)) \div gaps \in 0..driven
    BY <1>1, <2>1, ShareIsWithin
  <2>3. row.started + driven = row.ended
    BY DEF driven
  <2>4. \A a, b, d \in Int : \A q \in 0..d : a + d = b => a + q \in a..b
    OBVIOUS
  <2>5. row.started + (driven * (k - 1)) \div gaps \in row.started..row.ended
    BY <1>1, <2>2, <2>3, <2>4
  <2> QED BY <1>2, <2>5
<1> HIDE DEF x
<1>4. DOMAIN x = 1..PositionsPerTrip
  BY <1>2
<1>5. x \in Seq({x[k] : k \in 1..PositionsPerTrip})
  <2>1. x \in [1..PositionsPerTrip -> {x[k] : k \in 1..PositionsPerTrip}]
    BY <1>2
  <2> QED BY <1>1, <2>1, SeqDef
<1> QED BY <1>2, <1>3, <1>4, <1>5 DEF x

\* The lists a trip adds that say what it was.
Lists(part, row, rows, stars, reports) ==
    /\ part["rows"] = <<row>> /\ part["offers"] = rows /\ part["ratings"] = stars
    /\ part["driver_positions"] = reports /\ part["trip_events"] = <<EventRow(row)>>
    /\ part["hotspot_history"] = <<>>

Stars(row) == <<[trip |-> row.id, rater |-> "rider"], [trip |-> row.id, rater |-> "driver"]>>

LEMMA ListsOfTrips ==
    ASSUME NEW spec, NEW chain, NEW n \in Nat, chain = [i \in 1..n |-> chain[i]], NEW row
    PROVE  /\ Lists(FinishNoDriver(spec), TripRow(spec), <<>>, <<>>, <<>>)
           /\ Lists(Together(Offered(chain), FinishNoDriver(spec)), TripRow(spec), chain, <<>>, <<>>)
           /\ Lists(WithTrip(Offered(chain), row), row, chain, <<>>, <<>>)
           /\ Lists(Completed(Offered(chain), row), row, chain, Stars(row), Reports(row))
<1> DEFINE untaken == FinishNoDriver(spec)
           offered == Offered(chain)
           part == Together(offered, untaken)
           whole == Completed(offered, row)
           names == {"rows", "offers", "ratings", "driver_positions", "trip_events", "hotspot_history"}
<1>1. Lists(untaken, TripRow(spec), <<>>, <<>>, <<>>)
  BY DEF FinishNoDriver, Nothing, Lists
<1>2. /\ offered["rows"] = <<>> /\ offered["offers"] = chain /\ offered["ratings"] = <<>>
      /\ offered["driver_positions"] = <<>> /\ offered["trip_events"] = <<>>
      /\ offered["hotspot_history"] = <<>> /\ DOMAIN offered = DOMAIN Nothing
  BY DEF Offered, Nothing
<1> HIDE DEF offered, untaken
<1>3. Lists(part, TripRow(spec), chain, <<>>, <<>>)
  <2>1. \A t \in names : part[t] = offered[t] \o untaken[t]
    BY DEF Together, Nothing
  <2>2. chain \o <<>> = chain /\ (\A e : <<>> \o <<e>> = <<e>>) /\ <<>> \o <<>> = <<>>
    <3>1. chain \in Seq({chain[i] : i \in 1..n})
      BY SeqDef
    <3>2. \A e : <<e>> \in Seq({e}) /\ <<>> \in Seq({e})
      OBVIOUS
    <3>3. \A R : \A x \in Seq(R) : x \o <<>> = x /\ <<>> \o x = x
      OBVIOUS
    <3> QED BY <3>1, <3>2, <3>3, Zenon
  <2> HIDE DEF part
  <2>3. /\ part["rows"] = <<>> \o <<TripRow(spec)>> /\ part["offers"] = chain \o <<>>
        /\ part["ratings"] = <<>> \o <<>> /\ part["driver_positions"] = <<>> \o <<>>
        /\ part["trip_events"] = <<>> \o <<EventRow(TripRow(spec))>>
        /\ part["hotspot_history"] = <<>> \o <<>>
    BY <1>1, <1>2, <2>1, Zenon DEF Lists
  <2> QED BY <2>2, <2>3, Zenon DEF Lists
<1>4. Lists(WithTrip(offered, row), row, chain, <<>>, <<>>) /\ DOMAIN WithTrip(offered, row) = DOMAIN Nothing
  BY <1>2 DEF WithTrip, Nothing, Lists
<1>5. Lists(whole, row, chain, Stars(row), Reports(row))
  BY <1>4 DEF Completed, WithRide, Nothing, Lists, Stars
<1> QED BY <1>1, <1>3, <1>4, <1>5 DEF untaken, offered

\* What a trip adds is its own, and fits together.
Consistent(part, id) ==
    \E row :
       /\ part["rows"] = <<row>> /\ row.id = id
       /\ part["trip_events"] = <<EventRow(row)>> /\ part["hotspot_history"] = <<>>
       /\ \A list \in {"offers", "ratings", "driver_positions"} :
             /\ \E Q : part[list] \in Seq(Q)
             /\ \A k \in DOMAIN part[list] : part[list][k].trip = id
       /\ TripIsConsistent(part, row, [k \in DOMAIN part["offers"] |-> part["offers"][k].offer])
       /\ row.status = "completed" => \A who \in {"rider", "driver"} :
             \E k \in DOMAIN part["ratings"] : part["ratings"][k] = [trip |-> id, rater |-> who]

\* A trip nobody drove was asked about in vain, or not at all.
LEMMA LostIsConsistent ==
    ASSUME NEW spec, spec.requested \in Int, NEW part, NEW rows, NEW n \in Nat,
           Lists(part, TripRow(spec), rows, <<>>, <<>>), rows = [i \in 1..n |-> rows[i]],
           \/ n = 0
           \/ n # 0 /\ Chained(rows, spec, n) /\ rows[n].offer.status # "accepted"
    PROVE  Consistent(part, spec.id)
<1> DEFINE row == TripRow(spec)
           r == spec.requested
           laid == [k \in DOMAIN rows |-> rows[k].offer]
           end == IF laid = <<>> THEN r ELSE EndOf(laid[Len(laid)])
<1>1. /\ row.id = spec.id /\ row.driver = None /\ row.status = "no_driver_found"
      /\ row.reason = None /\ row.requested = r /\ row.matched = None /\ row.accepted = None
      /\ row.arrived = None /\ row.started = None /\ row.ended = r + NoDriverAfter
  BY DEF TripRow
<1>2. r \in Int /\ (\A k \in Int : k # None) /\ None \notin PostArrivalReasons
  BY HistoryAssumption
<1> HIDE DEF row, r
<1>3. InOrder(Milestones(row))
  <2>1. Milestones(row) = <<r, None, None, None, None, r + NoDriverAfter>>
    BY <1>1 DEF Milestones
  <2> QED BY <1>2, <2>1 DEF InOrder, NoDriverAfter
<1>4. DOMAIN rows = 1..n /\ laid = [k \in 1..n |-> rows[k].offer]
  OBVIOUS
<1>5. Len(laid) = n /\ (laid = <<>> <=> n = 0)
  <2>1. laid \in Seq({rows[k].offer : k \in 1..n}) /\ DOMAIN laid = 1..n
    BY <1>4, SeqDef
  <2>2. Len(laid) = n
    BY <2>1, SameLength
  <2>3. Len(<<>>) = 0
    OBVIOUS
  <2>4. n = 0 => laid = <<>>
    BY <1>4
  <2> QED BY <2>2, <2>3, <2>4
<1>6. WellLaid(laid, r, end) /\ end <= row.ended /\ Accepted(laid) = {}
  <2>1. CASE n = 0
    <3>1. laid = <<>> /\ end = r
      BY <1>5, <2>1
    <3> HIDE DEF laid, end
    <3>2. WellLaid(<<>>, r, r) /\ Accepted(<<>>) = {}
      BY DEF WellLaid, Accepted
    <3> QED BY <1>1, <1>2, <3>1, <3>2 DEF NoDriverAfter
  <2>2. CASE n # 0
    <3>1. /\ WellLaid(laid, r, EndOfChain(rows)) /\ EndOfChain(rows) <= r + NoDriverAfter
          /\ rows[n].offer.status # "accepted"
      BY <1>4, <2>2 DEF Chained, r
    <3>2. laid[n] = rows[n].offer /\ n \in 1..n /\ DOMAIN laid = 1..n
      BY <1>4, <2>2
    <3> HIDE DEF laid
    <3>3. end = EndOfChain(rows)
      BY <1>5, <2>2, <3>1 DEF WellLaid
    <3>4. \A k \in DOMAIN laid : laid[k].status = "accepted" => k = n
      BY <1>5, <3>1 DEF WellLaid
    <3>5. Accepted(laid) = {}
      BY <3>1, <3>2, <3>4 DEF Accepted
    <3> HIDE DEF end
    <3> QED BY <1>1, <3>1, <3>3, <3>5
  <2> QED BY <2>1, <2>2
<1> HIDE DEF laid
<1>7. TripIsConsistent(part, row, laid)
  <2>1. part["driver_positions"] = <<>>
    BY DEF Lists
  <2>2. \A i \in DOMAIN part["driver_positions"] : FALSE
    BY <2>1
  <2> QED BY <1>1, <1>2, <1>3, <1>6, <2>2 DEF TripIsConsistent
<1>8. \A list \in {"offers", "ratings", "driver_positions"} :
         /\ \E Q : part[list] \in Seq(Q)
         /\ \A k \in DOMAIN part[list] : part[list][k].trip = spec.id
  <2>1. rows \in Seq({rows[i] : i \in 1..n})
    BY SeqDef
  <2>2. \A k \in DOMAIN rows : rows[k].trip = spec.id
    BY <1>4 DEF Chained
  <2>3. <<>> \in Seq({}) /\ \A k \in DOMAIN <<>> : FALSE
    OBVIOUS
  <2>4. part["offers"] = rows /\ part["ratings"] = <<>> /\ part["driver_positions"] = <<>>
    BY DEF Lists
  <2>5. \A x : x = <<>> => (\E Q : x \in Seq(Q)) /\ \A k \in DOMAIN x : x[k].trip = spec.id
    BY <2>3
  <2> QED BY <2>1, <2>2, <2>4, <2>5
<1>9. /\ part["rows"] = <<row>> /\ part["offers"] = rows /\ part["hotspot_history"] = <<>>
      /\ part["trip_events"] = <<EventRow(row)>>
  BY DEF Lists, row
<1> QED BY <1>1, <1>7, <1>8, <1>9 DEF Consistent, laid

\* A row for a trip the chain of which somebody took, what the ratings have to
\* say about it, and what the reports may.
Ridden(spec, rows, row) ==
    /\ row.id = spec.id /\ row.driver = spec.driver /\ row.requested = spec.requested
    /\ row.matched = EndOfChain(rows) /\ row.status \in Outcomes \ {"no_driver_found"}
    /\ EndOfChain(rows) <= row.ended /\ InOrder(Milestones(row))
    /\ row.status = "completed" <=> row.started # None
    /\ row.arrived # None <=> row.status = "completed" \/ row.reason \in PostArrivalReasons

Rated(spec, row, stars) ==
    /\ \E Q : stars \in Seq(Q)
    /\ \A k \in DOMAIN stars : stars[k].trip = spec.id
    /\ row.status = "completed" => \A who \in {"rider", "driver"} :
          \E k \in DOMAIN stars : stars[k] = [trip |-> spec.id, rater |-> who]

Reported(spec, row, reports) ==
    /\ \E Q : reports \in Seq(Q)
    /\ \A k \in DOMAIN reports :
          /\ reports[k].trip = spec.id /\ reports[k].driver = spec.driver
          /\ reports[k].moment \in row.started..row.ended

\* Such a trip fits together: its row starts where its chain ends.
LEMMA TakenIsConsistent ==
    ASSUME NEW spec, spec.requested \in Int, spec.driver # None,
           NEW n \in Nat \ {0}, NEW rows, Chained(rows, spec, n),
           rows[n].offer.status = "accepted",
           NEW row, Ridden(spec, rows, row),
           NEW stars, Rated(spec, row, stars), NEW reports, Reported(spec, row, reports),
           NEW part, Lists(part, row, rows, stars, reports)
    PROVE  Consistent(part, spec.id)
<1> DEFINE r == spec.requested
           laid == [k \in DOMAIN rows |-> rows[k].offer]
           end == IF laid = <<>> THEN row.requested ELSE EndOf(laid[Len(laid)])
<1>1. DOMAIN rows = 1..n /\ laid = [k \in 1..n |-> rows[k].offer] /\ n \in 1..n
      /\ rows = [k \in 1..n |-> rows[k]]
  BY DEF Chained
<1>2. Len(laid) = n /\ laid # <<>>
  <2>1. laid \in Seq({rows[k].offer : k \in 1..n}) /\ DOMAIN laid = 1..n
    BY <1>1, SeqDef
  <2>2. Len(laid) = n
    BY <2>1, SameLength
  <2>3. Len(<<>>) = 0
    OBVIOUS
  <2> QED BY <2>2, <2>3
<1>3. WellLaid(laid, r, EndOfChain(rows)) /\ rows[n].offer.driver = spec.driver
  BY <1>1 DEF Chained
<1>4. laid[n] = rows[n].offer /\ DOMAIN laid = 1..n
  BY <1>1
<1> HIDE DEF laid
<1>5. end = EndOfChain(rows)
  BY <1>2, <1>3 DEF WellLaid
<1> HIDE DEF end
<1>6. /\ WellLaid(laid, row.requested, end) /\ end <= row.ended /\ row.matched = end
      /\ Accepted(laid) # {} /\ laid[Len(laid)].driver = row.driver
  <2>1. n \in Accepted(laid)
    BY <1>1, <1>4 DEF Accepted
  <2> QED BY <1>2, <1>3, <1>4, <1>5, <2>1 DEF Ridden
<1>7. \A i \in DOMAIN part["driver_positions"] :
         /\ part["driver_positions"][i].driver = row.driver
         /\ part["driver_positions"][i].moment \in row.started..row.ended
  BY DEF Lists, Reported, Ridden
<1>8. TripIsConsistent(part, row, laid)
  <2> USE DEF Ridden
  <2>1. row.status # "no_driver_found" /\ InOrder(Milestones(row))
    OBVIOUS
  <2>2. /\ row.driver # None
        /\ row.status = "completed" <=> row.started # None
        /\ row.arrived # None <=> row.status = "completed" \/ row.reason \in PostArrivalReasons
    OBVIOUS
  <2> QED BY <1>6, <1>7, <2>1, <2>2 DEF TripIsConsistent, end
<1>9. \A list \in {"offers", "ratings", "driver_positions"} :
         /\ \E Q : part[list] \in Seq(Q)
         /\ \A k \in DOMAIN part[list] : part[list][k].trip = spec.id
  <2>1. rows \in Seq({rows[i] : i \in 1..n})
    <3>1. rows \in [1..n -> {rows[i] : i \in 1..n}] /\ n \in Nat
      BY <1>1
    <3> QED BY <3>1, SeqDef
  <2>2. \A k \in DOMAIN rows : rows[k].trip = spec.id
    BY <1>1 DEF Chained
  <2>3. part["offers"] = rows /\ part["ratings"] = stars /\ part["driver_positions"] = reports
    BY DEF Lists
  <2> QED BY <2>1, <2>2, <2>3 DEF Rated, Reported
<1>10. /\ part["rows"] = <<row>> /\ part["offers"] = rows /\ part["hotspot_history"] = <<>>
       /\ part["trip_events"] = <<EventRow(row)>> /\ part["ratings"] = stars
  BY DEF Lists
<1> QED BY <1>8, <1>9, <1>10 DEF Consistent, laid, Rated, Ridden

\* Everything drawn for a trip is a length of time, or a choice by number.
LEMMA LuckIsWhole ==
    ASSUME NEW luck \in Lucks
    PROVE  /\ luck.accept \in Nat /\ luck.arrive \in Nat /\ luck.late \in Nat /\ luck.early \in Nat
           /\ luck.board \in Nat /\ luck.pace \in Nat
<1>1. luck.accept \in 1..6
  BY DEF Lucks
<1>2. luck.arrive \in 90..720
  BY DEF Lucks
<1>3. luck.late \in 120..420
  BY DEF Lucks
<1>4. luck.early \in 30..300
  BY DEF Lucks
<1>5. luck.board \in 20..180
  BY DEF Lucks
<1>6. luck.pace \in 75..160
  BY DEF Lucks
<1>11. luck.accept \in Nat BY <1>1
<1>12. luck.arrive \in Nat BY <1>2
<1>13. luck.late \in Nat BY <1>3
<1>14. luck.early \in Nat BY <1>4
<1>15. luck.board \in Nat BY <1>5
<1>16. luck.pace \in Nat BY <1>6
<1> QED BY <1>11, <1>12, <1>13, <1>14, <1>15, <1>16

\* What a trip that was matched looks like before it is known how it ends.
MatchedAt(spec, m, luck, row) ==
    /\ DOMAIN row = {"id", "driver", "status", "reason", "requested", "matched", "accepted",
                     "arrived", "started", "ended"}
    /\ row.id = spec.id /\ row.driver = spec.driver /\ row.reason = None
    /\ row.requested = spec.requested /\ row.matched = m
    /\ row.accepted = m + luck.accept /\ row.arrived = None /\ row.started = None

\* A completed trip was driven after it was accepted, and for half a minute at
\* least.
LEMMA RideIsInTime ==
    ASSUME NEW spec, spec.requested \in Int, NEW m \in Int, spec.requested <= m,
           NEW luck \in Lucks, NEW matched, MatchedAt(spec, m, luck, matched),
           NEW rows, EndOfChain(rows) = m, NEW predicted \in Nat,
           NEW ride, ride = Complete(matched, predicted, luck)
    PROVE  /\ Ridden(spec, rows, ride) /\ ride.status = "completed"
           /\ ride.started \in Int /\ ride.ended \in Int /\ ride.started <= ride.ended
<1> DEFINE a == m + luck.accept
           b == a + luck.arrive
           x == b + luck.board
           drifted == (predicted * luck.pace) \div 100
           took == IF drifted > 30 THEN drifted ELSE 30
<1>1. /\ luck.accept \in Nat /\ luck.arrive \in Nat /\ luck.board \in Nat /\ luck.pace \in Nat
  BY LuckIsWhole
<1>2. took \in Nat
  <2>1. predicted * luck.pace \in Nat /\ 100 \in Nat \ {0}
    BY <1>1
  <2>2. drifted \in Nat
    BY <2>1, Division
  <2> HIDE DEF drifted
  <2> QED BY <2>2
<1>3. /\ ride.id = spec.id /\ ride.driver = spec.driver /\ ride.status = "completed"
      /\ ride.reason = None /\ ride.requested = spec.requested /\ ride.matched = m
      /\ ride.accepted = a /\ ride.arrived = b /\ ride.started = x /\ ride.ended = x + took
  BY DEF Complete, MatchedAt
<1>4. \A i \in Int : \A p \in Nat : i + p \in Int /\ i <= i + p
  OBVIOUS
<1> HIDE DEF took
<1>5. a \in Int /\ m <= a
  BY <1>1, <1>4
<1> HIDE DEF a
<1>6. b \in Int /\ a <= b
  BY <1>1, <1>4, <1>5
<1> HIDE DEF b
<1>7. x \in Int /\ b <= x
  BY <1>1, <1>4, <1>6
<1> HIDE DEF x
<1>8. x + took \in Int /\ x <= x + took
  BY <1>2, <1>4, <1>7
<1> DEFINE y == x + took
<1>9. y \in Int /\ x <= y
  BY <1>8
<1>10. ride.ended = y
  BY <1>3
<1> HIDE DEF y
<1>11. InOrder(Milestones(ride)) /\ m <= y
  <2>1. Milestones(ride) = <<spec.requested, m, a, b, x, y>>
    BY <1>3, <1>10 DEF Milestones
  <2>2. /\ spec.requested <= m /\ spec.requested <= a /\ spec.requested <= b
        /\ spec.requested <= x /\ spec.requested <= y
    BY <1>5, <1>6, <1>7, <1>9
  <2>3. m <= a /\ m <= b /\ m <= x /\ m <= y /\ a <= b /\ a <= x /\ a <= y
    BY <1>5, <1>6, <1>7, <1>9
  <2>4. b <= x /\ b <= y /\ x <= y
    BY <1>6, <1>7, <1>9
  <2> QED BY <2>1, <2>2, <2>3, <2>4 DEF InOrder
<1>12. ride.started # None /\ ride.arrived # None /\ ride.status \in Outcomes \ {"no_driver_found"}
  BY <1>3, <1>6, <1>7, HistoryAssumption DEF Outcomes
<1> QED BY <1>3, <1>7, <1>9, <1>10, <1>11, <1>12 DEF Ridden

\* A trip cancelled after the match never started, and the car had arrived
\* only for a reason that takes one.
LEMMA CancelIsInTime ==
    ASSUME NEW spec, spec.requested \in Int, NEW m \in Int, spec.requested <= m,
           NEW luck \in Lucks, NEW matched, MatchedAt(spec, m, luck, matched),
           NEW rows, EndOfChain(rows) = m,
           NEW outcome \in Outcomes \ {"no_driver_found", "completed"},
           NEW row, row = Cancel(matched, outcome, luck)
    PROVE  Ridden(spec, rows, row) /\ row.status # "completed"
<1> DEFINE a == m + luck.accept
           b == a + luck.arrive
           why == CancelReasons(outcome)[luck.reason]
<1>1. /\ luck.accept \in Nat /\ luck.arrive \in Nat /\ luck.late \in Nat /\ luck.early \in Nat
  BY LuckIsWhole
<1>2. /\ row.id = spec.id /\ row.driver = spec.driver /\ row.status = outcome
      /\ row.reason = why /\ row.requested = spec.requested /\ row.matched = m
      /\ row.accepted = a /\ row.started = None
      /\ IF why \in PostArrivalReasons
         THEN row.arrived = b /\ row.ended = b + luck.late
         ELSE row.arrived = None /\ row.ended = a + luck.early
  BY DEF Cancel, MatchedAt
<1>3. \A i \in Int : \A p \in Nat : i + p \in Int /\ i <= i + p
  OBVIOUS
<1>4. \A i \in Int : i # None
  BY HistoryAssumption
<1> HIDE DEF why
<1>5. a \in Int /\ m <= a
  BY <1>1, <1>3
<1> HIDE DEF a
<1>6. b \in Int /\ a <= b
  BY <1>1, <1>3, <1>5
<1> HIDE DEF b
<1> DEFINE y == row.ended
<1>7. Milestones(row) = <<spec.requested, m, a, row.arrived, None, y>>
  BY <1>2 DEF Milestones
<1>8. /\ row.arrived # None <=> why \in PostArrivalReasons
      /\ row.arrived # None => row.arrived = b /\ b <= y
      /\ y \in Int /\ a <= y
  <2>1. CASE why \in PostArrivalReasons
    <3>1. row.arrived = b /\ y = b + luck.late
      BY <1>2, <2>1
    <3>2. b + luck.late \in Int /\ b <= b + luck.late
      BY <1>1, <1>3, <1>6
    <3>3. y \in Int /\ b <= y /\ a <= y
      BY <1>5, <1>6, <3>1, <3>2
    <3> QED BY <1>4, <1>6, <2>1, <3>1, <3>3
  <2>2. CASE why \notin PostArrivalReasons
    <3>1. row.arrived = None /\ y = a + luck.early
      BY <1>2, <2>2
    <3>2. a + luck.early \in Int /\ a <= a + luck.early
      BY <1>1, <1>3, <1>5
    <3> QED BY <2>2, <3>1, <3>2
  <2> QED BY <2>1, <2>2
<1> HIDE DEF y
<1>9. InOrder(Milestones(row)) /\ m <= y
  <2>1. spec.requested <= a /\ spec.requested <= b /\ spec.requested <= y /\ m <= b /\ m <= y
    BY <1>5, <1>6, <1>8
  <2> DEFINE c == row.arrived
  <2>2. c # None => spec.requested <= c /\ m <= c /\ a <= c /\ c <= y
    BY <1>5, <1>6, <1>8, <2>1
  <2> HIDE DEF c
  <2>3. Milestones(row) = <<spec.requested, m, a, c, None, y>>
    BY <1>7 DEF c
  <2> QED BY <1>5, <1>8, <2>1, <2>2, <2>3 DEF InOrder
<1>10. row.reason = why /\ row.status \in Outcomes \ {"no_driver_found"}
       /\ row.status # "completed" /\ row.started = None
  BY <1>2
<1>11. row.id = spec.id /\ row.driver = spec.driver /\ row.requested = spec.requested
       /\ row.matched = EndOfChain(rows)
  BY <1>2
<1>12. EndOfChain(rows) <= row.ended
  BY <1>9 DEF y
<1> QED BY <1>8, <1>9, <1>10, <1>11, <1>12 DEF Ridden

\* A trip that was routed, whatever was drawn for it.
LEMMA FinishedIsConsistent ==
    ASSUME NEW spec, spec.requested \in Int, spec.driver # None,
           spec.outcome \in Outcomes \ {"no_driver_found"},
           NEW route, route.seconds \in Nat, NEW luck \in Lucks
    PROVE  Consistent(FinishTrip(spec, route, luck), spec.id)
<1> DEFINE rows == SeedOffers(spec, luck)
           m == EndOfChain(rows)
           matched == Matched(spec, rows, luck)
           ride == Complete(matched, route.seconds, luck)
           cancelled == Cancel(matched, spec.outcome, luck)
           part == FinishTrip(spec, route, luck)
<1>1. PICK n \in 1..SeedMaxOffers : Chained(rows, spec, n)
  BY ChainIsLaid
<1>2. n \in Nat \ {0} /\ rows = [i \in 1..n |-> rows[i]] /\ Len(rows) = n
  <2>1. n \in Nat \ {0} /\ rows = [i \in 1..n |-> rows[i]]
    BY <1>1 DEF Chained, SeedMaxOffers
  <2> HIDE DEF rows
  <2>2. rows \in Seq({rows[i] : i \in 1..n}) /\ DOMAIN rows = 1..n
    BY <2>1, SeqDef
  <2> QED BY <2>1, <2>2, SameLength
<1> HIDE DEF rows
<1>3. m \in Int /\ spec.requested <= m
  BY <1>1 DEF Chained, m
<1>4. MatchedAt(spec, m, luck, matched)
  BY DEF Matched, MatchedAt, TripRow
<1>5. part = IF rows[n].offer.status # "accepted" THEN Together(Offered(rows), FinishNoDriver(spec))
             ELSE IF spec.outcome = "completed" THEN Completed(Offered(rows), ride)
             ELSE WithTrip(Offered(rows), cancelled)
  BY <1>2 DEF FinishTrip, FinishChain, rows
<1>6. EndOfChain(rows) = m
  OBVIOUS
<1> HIDE DEF rows, part, m, matched, ride, cancelled
<1>7. CASE rows[n].offer.status # "accepted"
  <2>1. part = Together(Offered(rows), FinishNoDriver(spec))
    BY <1>5, <1>7
  <2>2. Lists(part, TripRow(spec), rows, <<>>, <<>>)
    BY <1>2, <2>1, ListsOfTrips
  <2>3. Consistent(part, spec.id)
    BY <1>1, <1>2, <1>7, <2>2, LostIsConsistent
  <2> QED BY <2>3 DEF part
<1>8. CASE rows[n].offer.status = "accepted" /\ spec.outcome = "completed"
  <2>1. /\ Ridden(spec, rows, ride) /\ ride.status = "completed"
        /\ ride.started \in Int /\ ride.ended \in Int /\ ride.started <= ride.ended
    BY <1>3, <1>4, <1>6, RideIsInTime DEF ride
  <2>2. ride.id = spec.id /\ ride.driver = spec.driver
    BY <2>1 DEF Ridden
  <2>3. Lists(part, ride, rows, Stars(ride), Reports(ride))
    BY <1>2, <1>5, <1>8, ListsOfTrips
  <2>4. Reported(spec, ride, Reports(ride))
    BY <2>1, <2>2, ReportsOfTheRide DEF Reported
  <2>5. Rated(spec, ride, Stars(ride))
    <3> DEFINE one == [trip |-> spec.id, rater |-> "rider"]
               two == [trip |-> spec.id, rater |-> "driver"]
               stars == Stars(ride)
    <3>1. Stars(ride) = <<one, two>>
      BY <2>2 DEF Stars
    <3>2. one.trip = spec.id /\ two.trip = spec.id
      OBVIOUS
    <3>3. \A e, f : <<e, f>> \in Seq({e, f}) /\ DOMAIN <<e, f>> = 1..2
                    /\ <<e, f>>[1] = e /\ <<e, f>>[2] = f
      OBVIOUS
    <3> HIDE DEF one, two
    <3>4. stars \in Seq({one, two}) /\ DOMAIN stars = 1..2 /\ stars[1] = one /\ stars[2] = two
      BY <3>1, <3>3, Zenon
    <3> HIDE DEF stars
    <3>5. \A k \in DOMAIN stars : stars[k].trip = spec.id
      <4>1. \A k \in 1..2 : k = 1 \/ k = 2
        OBVIOUS
      <4> QED BY <3>2, <3>4, <4>1
    <3>6. ASSUME NEW who \in {"rider", "driver"}
          PROVE  \E k \in DOMAIN stars : stars[k] = [trip |-> spec.id, rater |-> who]
      <4>1. 1 \in DOMAIN stars /\ 2 \in DOMAIN stars
        BY <3>4
      <4> QED BY <3>4, <4>1 DEF one, two
    <3>7. \E Q : stars \in Seq(Q)
      BY <3>4
    <3> QED BY <3>5, <3>6, <3>7 DEF Rated, stars
  <2>6. Consistent(part, spec.id)
    BY <1>1, <1>2, <1>8, <2>1, <2>3, <2>4, <2>5, TakenIsConsistent
  <2> QED BY <2>6 DEF part
<1>9. CASE rows[n].offer.status = "accepted" /\ spec.outcome # "completed"
  <2>1. Ridden(spec, rows, cancelled) /\ cancelled.status # "completed"
    BY <1>3, <1>4, <1>6, <1>9, CancelIsInTime DEF cancelled
  <2>2. Lists(part, cancelled, rows, <<>>, <<>>)
    BY <1>2, <1>5, <1>9, ListsOfTrips
  <2>3. <<>> \in Seq({}) /\ DOMAIN <<>> = {}
    OBVIOUS
  <2>4. Rated(spec, cancelled, <<>>)
    BY <2>1, <2>3, Zenon DEF Rated
  <2>5. Reported(spec, cancelled, <<>>)
    BY <2>3, Zenon DEF Reported
  <2>6. Consistent(part, spec.id)
    BY <1>1, <1>2, <1>9, <2>1, <2>2, <2>4, <2>5, TakenIsConsistent
  <2> QED BY <2>6 DEF part
<1> QED BY <1>7, <1>8, <1>9

-----------------------------------------------------------------------------
(* What is decided before routing, and what a route is.                        *)

\* What is decided about a trip before it is routed.
Decided(spec) ==
    /\ spec.requested \in Int /\ spec.outcome \in Outcomes
    /\ spec.outcome # "no_driver_found" => spec.driver # None
    /\ spec.from \in Corners /\ spec.to \in Corners

\* A grid trips can be invented on.
Servicable(open, points) ==
    open \subseteq Zones /\ open # {} /\ \A z \in open : points[z] \in Corners

LEMMA NextIsDecided ==
    ASSUME NEW draw \in Draws, NEW daysAgo \in Int, NEW date \in Int,
           NEW open, NEW points, Servicable(open, points)
    PROVE  Decided(NextSpec(draw, daysAgo, date, open, points))
<1> DEFINE spec == NextSpec(draw, daysAgo, date, open, points)
<1>1. draw.outcome \in Outcomes /\ draw.driver \in Drivers /\ draw.second \in 0..(DayLength - 1)
  BY DEF Draws
<1>2. draw.second \in Int
  <2>1. DayLength \in Int
    BY DEF DayLength
  <2>2. \A l \in Int : \A k \in 0..(l - 1) : k \in Int
    OBVIOUS
  <2> QED BY <1>1, <2>1, <2>2
<1>3. (date - daysAgo) * DayLength + draw.second \in Int
  BY <1>2 DEF DayLength
<1>4. draw.driver # None
  BY <1>1, OfferAssumption
<1>5. \A share : points[PickZone(open, share)] \in Corners
  BY PickedIsOpen DEF Servicable
<1>6. /\ spec.requested = (date - daysAgo) * DayLength + draw.second
      /\ spec.outcome = draw.outcome
      /\ spec.outcome # "no_driver_found" => spec.driver = draw.driver
      /\ spec.from = points[PickZone(open, draw.pickup)]
      /\ spec.to = points[PickZone(open, draw.dropoff)]
  BY DEF NextSpec
<1> HIDE DEF spec
<1>7. Decided(spec)
  BY <1>1, <1>3, <1>4, <1>5, <1>6 DEF Decided
<1> QED BY <1>7 DEF spec

LEMMA DayIsDecided ==
    ASSUME NEW draws \in [1..TripsPerDay -> Draws], NEW daysAgo \in Int, NEW date \in Int,
           NEW open, NEW points, Servicable(open, points)
    PROVE  LET day == SpecsOfDay(draws, daysAgo, date, open, points)
           IN  \A k \in DOMAIN day : Decided(day[k])
<1> DEFINE pieces == Chunks(TripsPerDay)
           s == [c \in DOMAIN pieces |->
                    SpecChunk(draws, pieces[c], daysAgo, date, open, points)]
           day == SpecsOfDay(draws, daysAgo, date, open, points)
<1>1. PICK m : Covers(pieces, TripsPerDay, m)
  BY HistoryAssumption, ChunksCover
<1>2. day = FlattenSeq(s)
  BY DEF SpecsOfDay
<1> HIDE DEF pieces, day
<1> DEFINE n == Len(pieces)
<1>3. /\ n \in Nat /\ DOMAIN pieces = 1..n /\ m \in [0..n -> Nat]
      /\ \A c \in 1..n : /\ pieces[c].first = m[c - 1] + 1 /\ pieces[c].last = m[c]
                         /\ m[c - 1] <= m[c] /\ m[c] <= TripsPerDay
  BY <1>1 DEF Covers
<1> HIDE DEF n
<1>4. s = [c \in 1..n |-> s[c]] /\ DOMAIN s = 1..n
  BY <1>3
<1>5. ASSUME NEW c \in 1..n
      PROVE  (\E Q : s[c] \in Seq(Q)) /\ \A i \in DOMAIN s[c] : Decided(s[c][i])
  <2>1. m[c - 1] \in Nat /\ m[c] \in Nat /\ m[c - 1] <= m[c] /\ m[c] <= TripsPerDay
    <3>1. c - 1 \in 0..n /\ c \in 0..n
      BY <1>3
    <3> QED BY <1>3, <3>1
  <2> DEFINE l == pieces[c].last - pieces[c].first + 1
  <2>2. l \in Nat /\ l = m[c] - m[c - 1] /\ pieces[c].first = m[c - 1] + 1
    BY <1>3, <2>1
  <2>3. s[c] = SpecChunk(draws, pieces[c], daysAgo, date, open, points)
    BY <1>3
  <2> HIDE DEF s
  <2>4. s[c] = [i \in 1..l |-> NextSpec(draws[pieces[c].first + i - 1], daysAgo, date, open, points)]
    BY <2>3 DEF SpecChunk
  <2> HIDE DEF l
  <2>5. \A i \in 1..l : pieces[c].first + i - 1 \in 1..TripsPerDay
    BY <2>1, <2>2, HistoryAssumption
  <2>6. \A i \in 1..l : Decided(s[c][i])
    <3> SUFFICES ASSUME NEW i \in 1..l PROVE Decided(s[c][i])
      OBVIOUS
    <3>1. draws[pieces[c].first + i - 1] \in Draws
      BY <2>5
    <3> QED BY <2>4, <3>1, NextIsDecided
  <2>7. s[c] \in [1..l -> {s[c][i] : i \in 1..l}]
    BY <2>4
  <2>8. s[c] \in Seq({s[c][i] : i \in 1..l}) /\ DOMAIN s[c] = 1..l
    BY <2>2, <2>7, SeqDef
  <2> QED BY <2>6, <2>8
<1> HIDE DEF s
<1>6. PICK R : s \in Seq(Seq(R))
  BY <1>3, <1>4, <1>5, ListsOfLists
<1>7. \A k \in DOMAIN day : \E c \in DOMAIN s : \E i \in DOMAIN s[c] : day[k] = s[c][i]
  BY <1>2, <1>6, FlattenFrom
<1>8. \A k \in DOMAIN day : Decided(day[k])
  BY <1>4, <1>5, <1>7
<1> QED BY <1>8 DEF day

LEMMA SpecsAreDecided ==
    ASSUME NEW drawn \in Seeds, NEW date \in Int, NEW open, NEW points, Servicable(open, points)
    PROVE  LET specs == Specs(drawn, date, open, points)
           IN  \A k \in DOMAIN specs : Decided(specs[k])
<1> DEFINE s == [d \in 1..HistoryDays |->
                    SpecsOfDay(drawn.draws[HistoryDays + 1 - d], HistoryDays + 1 - d,
                               date, open, points)]
           specs == Specs(drawn, date, open, points)
<1>0. HistoryDays \in Nat /\ drawn.draws \in [1..HistoryDays -> [1..TripsPerDay -> Draws]]
  BY HistoryAssumption, BootstrapAssumption
<1>1. specs = FlattenSeq(s)
  BY DEF Specs
<1>2. s = [d \in 1..HistoryDays |-> s[d]] /\ DOMAIN s = 1..HistoryDays
  OBVIOUS
<1>3. \A d \in 1..HistoryDays : \E Q : s[d] \in Seq(Q)
  BY DayIsWhole
<1>4. \A d \in 1..HistoryDays : \A i \in DOMAIN s[d] : Decided(s[d][i])
  <2> SUFFICES ASSUME NEW d \in 1..HistoryDays PROVE \A i \in DOMAIN s[d] : Decided(s[d][i])
    OBVIOUS
  <2>1. HistoryDays + 1 - d \in Int /\ HistoryDays + 1 - d \in 1..HistoryDays
    BY <1>0
  <2>2. drawn.draws[HistoryDays + 1 - d] \in [1..TripsPerDay -> Draws]
    BY <1>0, <2>1
  <2> QED BY <2>1, <2>2, DayIsDecided
<1> HIDE DEF s, specs
<1>5. PICK R : s \in Seq(Seq(R))
  BY <1>0, <1>2, <1>3, ListsOfLists
<1>6. \A k \in DOMAIN specs : \E d \in DOMAIN s : \E i \in DOMAIN s[d] : specs[k] = s[d][i]
  BY <1>1, <1>5, FlattenFrom
<1>7. \A k \in DOMAIN specs : Decided(specs[k])
  BY <1>2, <1>4, <1>6
<1> QED BY <1>7 DEF specs

\* And those that are routed have a driver.
LEMMA DrivenAreDecided ==
    ASSUME NEW Q, NEW specs \in Seq(Q), \A k \in DOMAIN specs : Decided(specs[k])
    PROVE  /\ \A k \in DOMAIN ToRoute(specs) :
                 Decided(ToRoute(specs)[k]) /\ ToRoute(specs)[k].outcome # "no_driver_found"
           /\ \A k \in DOMAIN Undriven(specs) : Decided(Undriven(specs)[k])
<1> DEFINE s(driven) == [i \in DOMAIN specs |->
              IF (specs[i].outcome # "no_driver_found") = driven THEN <<specs[i]>> ELSE <<>>]
<1>1. ToRoute(specs) = FlattenSeq(s(TRUE)) /\ Undriven(specs) = FlattenSeq(s(FALSE))
  BY DEF ToRoute, Undriven, Driven
<1>2. ASSUME NEW driven \in BOOLEAN
      PROVE  \A k \in DOMAIN FlattenSeq(s(driven)) :
                \E i \in DOMAIN specs : /\ FlattenSeq(s(driven))[k] = specs[i]
                                        /\ (specs[i].outcome # "no_driver_found") = driven
  <2> DEFINE list == s(driven)
  <2>1. \A x \in Q : <<x>> \in Seq(Q) /\ <<>> \in Seq(Q)
    OBVIOUS
  <2>2. DOMAIN specs = 1..Len(specs) /\ Len(specs) \in Nat /\ \A i \in DOMAIN specs : specs[i] \in Q
    OBVIOUS
  <2>3. \A i \in DOMAIN specs :
           \/ (specs[i].outcome # "no_driver_found") = driven /\ list[i] = <<specs[i]>>
           \/ list[i] = <<>>
    OBVIOUS
  <2>4. DOMAIN list = 1..Len(specs) /\ list = [i \in 1..Len(specs) |-> list[i]]
    BY <2>2
  <2> HIDE DEF list
  <2>5. list \in [1..Len(specs) -> Seq(Q)]
    BY <2>1, <2>2, <2>3, <2>4
  <2>6. list \in Seq(Seq(Q))
    BY <2>2, <2>5, SeqDef
  <2>7. ASSUME NEW k \in DOMAIN FlattenSeq(list)
        PROVE  \E i \in DOMAIN specs : /\ FlattenSeq(list)[k] = specs[i]
                                       /\ (specs[i].outcome # "no_driver_found") = driven
    <3>1. PICK i \in DOMAIN list : \E j \in DOMAIN list[i] : FlattenSeq(list)[k] = list[i][j]
      BY <2>6, FlattenFrom
    <3>2. DOMAIN <<>> = {} /\ \A x : DOMAIN <<x>> = {1} /\ <<x>>[1] = x
      OBVIOUS
    <3>3. i \in DOMAIN specs
      BY <2>2, <2>4
    <3> QED BY <2>3, <3>1, <3>2, <3>3
  <2> QED BY <2>7 DEF list
<1> HIDE DEF s
<1> QED BY <1>1, <1>2

\* A sum of whole numbers is one.
LEMMA TotalIsWhole ==
    ASSUME NEW costs \in Seq(Nat)
    PROVE  Total(costs) \in Nat
<1> DEFINE n == Len(costs)
           f == CHOOSE f : RunsUp(f, n, costs)
           S == {m \in 0..n : f[m + 1] \in Nat}
<1>0. n \in Nat /\ \A i \in 1..n : costs[i] \in Nat
  OBVIOUS
<1>1. Total(costs) = f[n + 1]
  BY Zenon DEF Total, RunsUp
<1> HIDE DEF n
<1>2. RunsUp(f, n, costs)
  BY <1>0, RunsUpExists
<1> HIDE DEF f
<1>3. \A i \in 1..(n + 1) : f[i] = IF i = 1 THEN 0 ELSE f[i - 1] + costs[i - 1]
  BY <1>2 DEF RunsUp
<1>4. 0 \in S
  <2>1. 1 \in 1..(n + 1) /\ 0 + 1 = 1 /\ 0 \in 0..n
    BY <1>0
  <2> QED BY <1>3, <2>1
<1>5. ASSUME NEW m \in 0..(n - 1), m \in S
      PROVE  m + 1 \in S
  <2>1. /\ m + 1 \in 0..n /\ (m + 1) + 1 \in 1..(n + 1) /\ (m + 1) + 1 # 1
        /\ ((m + 1) + 1) - 1 = m + 1 /\ m + 1 \in 1..n
    BY <1>0
  <2>2. f[(m + 1) + 1] = f[m + 1] + costs[m + 1]
    BY <1>3, <2>1
  <2>3. f[m + 1] \in Nat /\ costs[m + 1] \in Nat
    BY <1>0, <1>5, <2>1
  <2>4. f[(m + 1) + 1] \in Nat
    BY <2>2, <2>3
  <2> QED BY <2>1, <2>4
<1> HIDE DEF S
<1>6. \A m \in 0..n : m \in S
  BY <1>0, <1>4, <1>5, AllUpTo
<1>7. n \in S
  BY <1>0, <1>6
<1> QED BY <1>1, <1>7 DEF S

\* A way that was found takes a whole number of seconds, however it is found.
LEMMA WayTakesSeconds ==
    ASSUME NEW way \in Seq([seconds : Nat, metres : Nat])
    PROVE  SecondsOf(way) \in Nat /\ Metres(way) \in Nat
<1> DEFINE seconds == [i \in DOMAIN way |-> way[i].seconds]
           metres == [i \in DOMAIN way |-> way[i].metres]
<1>1. seconds \in Seq(Nat) /\ metres \in Seq(Nat)
  <2>1. Len(way) \in Nat /\ DOMAIN way = 1..Len(way)
        /\ \A i \in DOMAIN way : way[i].seconds \in Nat /\ way[i].metres \in Nat
    <3> DEFINE Edges == [seconds : Nat, metres : Nat]
    <3>1. \A e \in Edges : e.seconds \in Nat /\ e.metres \in Nat
      OBVIOUS
    <3>2. way \in Seq(Edges)
      OBVIOUS
    <3> HIDE DEF Edges
    <3>3. \A i \in DOMAIN way : way[i] \in Edges
      BY <3>2
    <3> QED BY <3>1, <3>2, <3>3
  <2>2. seconds \in [1..Len(way) -> Nat] /\ metres \in [1..Len(way) -> Nat]
    BY <2>1
  <2> QED BY <2>1, <2>2, SeqDef
<1>2. Seconds(way) \in Nat /\ Metres(way) \in Nat
  BY <1>1, TotalIsWhole DEF Seconds, Metres
<1>3. Metres(way) * 36 \in Nat /\ 250 \in Nat \ {0}
  BY <1>2
<1>4. (Metres(way) * 36) \div 250 \in Nat
  BY <1>3, Division
<1> QED BY <1>2, <1>4 DEF SecondsOf

LEMMA RouteTakesSeconds ==
    ASSUME NEW held \in SUBSET TrafficRows, NEW from \in Corners, NEW to \in Corners,
           NEW failures, Route(TRUE, held, from, to, failures) # NoRoute
    PROVE  Route(TRUE, held, from, to, failures).seconds \in Nat
<1> DEFINE ends == Ends(TRUE, from, to, failures)
           way == WayBetween(held, ends, failures)
           metres == QueryWithRetry(failures["geometry"], Metres(way), 0)
<1>1. Route(TRUE, held, from, to, failures) = RouteAlong(way, metres)
  BY DEF Route
<1>2. \A place \in {from, to} : \A n :
         NearestRoadPoint(TRUE, place, MaxSnap, n) \in Corners \cup {NoPoint}
  BY RoutingAssumption DEF NearestRoadPoint, QueryWithRetry
<1>3. ends[1] \in Corners \cup {NoPoint} /\ ends[2] \in Corners \cup {NoPoint}
      /\ ends = <<ends[1], ends[2]>>
  BY <1>2 DEF Ends
<1> HIDE DEF ends
<1>4. way \in Seq([seconds : Nat, metres : Nat])
  <2>1. <<>> \in Seq([seconds : Nat, metres : Nat])
    OBVIOUS
  <2>2. NoPoint \notin {ends[1], ends[2]} => ends \in Corners \X Corners
    BY <1>3
  <2>3. ends \in Corners \X Corners => Ways[held][ends] \in Seq([seconds : Nat, metres : Nat])
    BY RoutingAssumption
  <2> QED BY <2>1, <2>2, <2>3, Zenon DEF WayBetween, QueryWithRetry
<1> HIDE DEF way, metres
<1>5. RouteAlong(way, metres) = [metres |-> metres, seconds |-> SecondsOf(way)]
  <2>1. RouteAlong(way, metres) # NoRoute
    BY <1>1
  <2>2. RouteAlong(way, metres) = IF metres = 0 THEN NoRoute
                                  ELSE [metres |-> metres, seconds |-> SecondsOf(way)]
    BY DEF RouteAlong
  <2> QED BY <2>1, <2>2, Zenon
<1>6. SecondsOf(way) \in Nat
  BY <1>4, WayTakesSeconds
<1>7. Route(TRUE, held, from, to, failures).seconds = SecondsOf(way)
  <2>1. \A x, y : [metres |-> x, seconds |-> y].seconds = y
    OBVIOUS
  <2> QED BY <1>1, <1>5, <2>1, Zenon
<1> QED BY <1>6, <1>7

LEMMA FallbackTakesSeconds ==
    ASSUME NEW spec, Decided(spec)
    PROVE  FallbackRoute(spec).seconds \in Nat
<1> DEFINE metres == (Straight[<<spec.from, spec.to>>] * 14) \div 10
           seconds == (metres * 36) \div 260
<1>1. Straight[<<spec.from, spec.to>>] \in Nat
  BY HistoryAssumption DEF Decided
<1>2. Straight[<<spec.from, spec.to>>] * 14 \in Nat /\ 10 \in Nat \ {0} /\ 260 \in Nat \ {0}
  BY <1>1
<1>3. metres \in Nat
  BY <1>2, Division
<1> HIDE DEF metres
<1>4. metres * 36 \in Nat
  BY <1>3
<1>5. seconds \in Nat
  BY <1>2, <1>4, Division
<1>6. FallbackRoute(spec).seconds = IF seconds > 120 THEN seconds ELSE 120
  BY DEF FallbackRoute, metres
<1> HIDE DEF seconds
<1> QED BY <1>5, <1>6

-----------------------------------------------------------------------------
(* The whole week: each trip fits together, and still so among the others.     *)

\* A trip with no driver, asked about by nobody.
LEMMA UndrivenIsConsistent ==
    ASSUME NEW spec, spec.requested \in Int
    PROVE  Consistent(FinishNoDriver(spec), spec.id)
<1> DEFINE part == FinishNoDriver(spec)
           rows == [i \in 1..0 |-> i]
<1>1. rows = [i \in 1..0 |-> rows[i]] /\ rows = <<>>
  OBVIOUS
<1> HIDE DEF rows
<1>2. Lists(part, TripRow(spec), rows, <<>>, <<>>)
  BY <1>1, ListsOfTrips
<1> HIDE DEF part
<1>3. Consistent(part, spec.id)
  BY <1>1, <1>2, LostIsConsistent
<1> QED BY <1>3 DEF part

\* Each trip of the week fits together by itself, whatever was drawn for it and
\* whichever queries failed.
LEMMA PartsAreConsistent ==
    ASSUME NEW Q, NEW specs \in Seq(Q), \A k \in DOMAIN specs : Decided(specs[k]),
           NEW luck, \A i \in 1..Len(specs) : luck[i] \in Lucks,
           NEW held \in SUBSET TrafficRows, NEW mapAvailable \in BOOLEAN, NEW failures
    PROVE  LET parts == Parts(specs, luck, held, mapAvailable, failures)
           IN  /\ parts = [i \in 1..Len(specs) |-> parts[i]]
               /\ \A i \in 1..Len(specs) : \E id : Fine(parts[i], id) /\ Consistent(parts[i], id)
<1> DEFINE undriven == Undriven(specs)
           toRoute == ToRoute(specs)
           routed == Routed(toRoute, held, mapAvailable, failures)
           a == [i \in DOMAIN undriven |-> FinishNoDriver(undriven[i])]
           b == Finished(toRoute, routed, luck)
           k == Len(undriven)
           n == Len(toRoute)
           R == {a[i] : i \in 1..k} \cup {b[i] : i \in 1..n}
           Good(part, id) == Fine(part, id) /\ Consistent(part, id)
<1>1. /\ toRoute \in Seq(Q) /\ undriven \in Seq(Q) /\ n + k = Len(specs)
      /\ Len(specs) \in Nat
  BY DrivenOrNot
<1>2. Parts(specs, luck, held, mapAvailable, failures) = a \o b
  BY DEF Parts
<1>14. /\ \A i \in DOMAIN toRoute : Decided(toRoute[i]) /\ toRoute[i].outcome # "no_driver_found"
       /\ \A i \in DOMAIN undriven : Decided(undriven[i])
  BY DrivenAreDecided
<1>15. \A i \in DOMAIN toRoute :
          routed[i] = IF mapAvailable THEN Route(TRUE, held, toRoute[i].from, toRoute[i].to, failures[i])
                      ELSE FallbackRoute(toRoute[i])
  BY DEF Routed
<1> HIDE DEF undriven, toRoute, routed
<1>3. k \in Nat /\ n \in Nat /\ DOMAIN undriven = 1..k /\ DOMAIN toRoute = 1..n
  BY <1>1
<1>4. a = [i \in 1..k |-> a[i]] /\ b = [i \in 1..n |-> b[i]]
  BY <1>3 DEF Finished
<1>5. \A i \in 1..k : Good(a[i], undriven[i].id)
  <2> SUFFICES ASSUME NEW i \in 1..k PROVE Good(a[i], undriven[i].id)
    OBVIOUS
  <2>1. undriven[i].requested \in Int /\ a[i] = FinishNoDriver(undriven[i])
    BY <1>3, <1>14 DEF Decided
  <2> QED BY <2>1, NoDriverIsFine, UndrivenIsConsistent
<1>6. ASSUME NEW i \in 1..n
      PROVE  Good(b[i], toRoute[i].id)
  <2> DEFINE spec == toRoute[i]
  <2>0. Decided(spec) /\ spec.outcome # "no_driver_found" /\ i \in DOMAIN toRoute
    BY <1>3, <1>14
  <2>9. b[i] = IF routed[i] = NoRoute THEN FinishNoDriver(spec)
               ELSE FinishTrip(spec, routed[i], luck[Turn(routed, i)])
    BY <1>3 DEF Finished
  <2>8. routed[i] = IF mapAvailable THEN Route(TRUE, held, spec.from, spec.to, failures[i])
                    ELSE FallbackRoute(spec)
    BY <1>3, <1>15
  <2> HIDE DEF b, spec
  <2>1. CASE routed[i] = NoRoute
    <3>1. Good(FinishNoDriver(spec), spec.id)
      BY <2>0, NoDriverIsFine, UndrivenIsConsistent DEF Decided
    <3> QED BY <2>1, <2>9, <3>1 DEF spec
  <2>2. CASE routed[i] # NoRoute
    <3> DEFINE route == routed[i]
               mine == luck[Turn(routed, i)]
    <3>1. Turn(routed, i) \in 1..n
      BY <1>3, <2>2, TurnIsInRange
    <3>2. Turn(routed, i) \in 1..Len(specs)
      BY <1>1, <1>3, <3>1
    <3>3. mine \in Lucks
      BY <3>2
    <3>4. route.seconds \in Nat
      <4>1. CASE mapAvailable
        BY <2>0, <2>2, <2>8, <4>1, RouteTakesSeconds DEF Decided
      <4>2. CASE ~mapAvailable
        BY <2>0, <2>8, <4>2, FallbackTakesSeconds
      <4> QED BY <4>1, <4>2
    <3> HIDE DEF route, mine
    <3>5. Fine(FinishTrip(spec, route, mine), spec.id)
      BY <3>3, AnswersAreDrawn, TripIsFine
    <3>6. Consistent(FinishTrip(spec, route, mine), spec.id)
      BY <2>0, <3>3, <3>4, FinishedIsConsistent DEF Decided
    <3>7. b[i] = FinishTrip(spec, route, mine)
      BY <2>2, <2>9 DEF route, mine
    <3> QED BY <3>5, <3>6, <3>7 DEF spec
  <2> QED BY <2>1, <2>2
<1> HIDE DEF a, b, k, n
<1>7. a \in [1..k -> R] /\ b \in [1..n -> R]
  BY <1>4
<1> HIDE DEF R, Good
<1>8. a \in Seq(R) /\ b \in Seq(R)
  BY <1>3, <1>7, SeqDef
<1>9. Len(a) = k /\ Len(b) = n /\ DOMAIN a = 1..k /\ DOMAIN b = 1..n
  <2>1. DOMAIN a = 1..k /\ DOMAIN b = 1..n
    BY <1>7
  <2> QED BY <1>3, <1>8, <2>1, SameLength
<1>10. /\ a \o b \in Seq(R) /\ DOMAIN (a \o b) = 1..(k + n)
       /\ \A i \in 1..(k + n) : \/ i \in DOMAIN a /\ (a \o b)[i] = a[i]
                                \/ i - Len(a) \in DOMAIN b /\ (a \o b)[i] = b[i - Len(a)]
  <2>1. /\ a \o b \in Seq(R) /\ DOMAIN (a \o b) = 1..(Len(a) + Len(b))
        /\ \A i \in DOMAIN (a \o b) :
              \/ i \in DOMAIN a /\ (a \o b)[i] = a[i]
              \/ i - Len(a) \in DOMAIN b /\ (a \o b)[i] = b[i - Len(a)]
    BY <1>8, Concats
  <2>2. DOMAIN (a \o b) = 1..(k + n)
    BY <1>9, <2>1
  <2> QED BY <2>1, <2>2
<1>11. k + n = Len(specs)
  BY <1>1, <1>3 DEF k, n
<1>12. a \o b = [i \in 1..(k + n) |-> (a \o b)[i]]
  <2>1. \A x \in Seq(R) : x = [i \in DOMAIN x |-> x[i]]
    OBVIOUS
  <2>2. a \o b = [i \in DOMAIN (a \o b) |-> (a \o b)[i]]
    BY <1>10, <2>1
  <2> QED BY <1>10, <2>2
<1>13. \A i \in 1..(k + n) : \E id : Good((a \o b)[i], id)
  BY <1>5, <1>6, <1>9, <1>10
<1> QED BY <1>2, <1>11, <1>12, <1>13 DEF Good

\* Two lists of lists, one after the other, flatten to what each does.
LEMMA FlattenTwo ==
    ASSUME NEW R, NEW s \in Seq(Seq(R)), NEW t \in Seq(Seq(R))
    PROVE  FlattenSeq(s \o t) = FlattenSeq(s) \o FlattenSeq(t)
<1> DEFINE st == s \o t
           a == Len(s)
           b == Len(t)
<1>1. /\ st \in Seq(Seq(R)) /\ Len(st) = a + b /\ a \in Nat /\ b \in Nat
      /\ \A i \in 1..a : st[i] = s[i]
      /\ \A j \in 1..b : st[a + j] = t[j]
  <2> DEFINE Q == Seq(R)
  <2>1. s \in Seq(Q) /\ t \in Seq(Q) /\ DOMAIN s = 1..a /\ DOMAIN t = 1..b
    OBVIOUS
  <2> HIDE DEF Q
  <2>2. /\ st \in Seq(Q) /\ Len(st) = a + b /\ a \in Nat /\ b \in Nat
        /\ \A i \in DOMAIN s : st[i] = s[i]
        /\ \A j \in DOMAIN t : st[a + j] = t[j]
    BY <2>1, Concats
  <2> QED BY <2>1, <2>2 DEF Q
<1> HIDE DEF st
<1>2. PICK p : Grows(p, s, R)
  BY FlattenGrows
<1>3. PICK q : Grows(q, t, R)
  BY FlattenGrows
<1>4. PICK u : Grows(u, st, R)
  BY <1>1, FlattenGrows
<1>5. /\ p \in [0..a -> Seq(R)] /\ p[0] = <<>> /\ p[a] = FlattenSeq(s)
      /\ \A i \in 1..a : p[i] = p[i - 1] \o s[i]
  BY <1>2 DEF Grows
<1>6. /\ q \in [0..b -> Seq(R)] /\ q[0] = <<>> /\ q[b] = FlattenSeq(t)
      /\ \A i \in 1..b : q[i] = q[i - 1] \o t[i]
  BY <1>3 DEF Grows
<1>7. /\ u[0] = <<>> /\ u[a + b] = FlattenSeq(st)
      /\ \A i \in 1..(a + b) : u[i] = u[i - 1] \o st[i]
  BY <1>1, <1>4 DEF Grows
<1>8. (\A i \in 1..a : s[i] \in Seq(R)) /\ \A i \in 1..b : t[i] \in Seq(R)
  OBVIOUS
<1> HIDE DEF a, b
<1> DEFINE S == {n \in 0..a : u[n] = p[n]}
           T == {n \in 0..b : u[a + n] = p[a] \o q[n]}
<1>9. \A n \in 0..a : n \in S
  <2>1. 0 \in S
    BY <1>1, <1>5, <1>7
  <2>2. ASSUME NEW n \in 0..(a - 1), n \in S
        PROVE  n + 1 \in S
    <3>1. n + 1 \in 1..a /\ n + 1 \in 0..a /\ n + 1 \in 1..(a + b) /\ (n + 1) - 1 = n
      BY <1>1
    <3>2. u[n + 1] = u[n] \o st[n + 1] /\ st[n + 1] = s[n + 1] /\ p[n + 1] = p[n] \o s[n + 1]
      BY <1>1, <1>5, <1>7, <3>1
    <3> QED BY <2>2, <3>1, <3>2
  <2> HIDE DEF S
  <2> QED BY <1>1, <2>1, <2>2, AllUpTo
<1>10. \A n \in 0..b : n \in T
  <2>1. 0 \in T
    <3>1. a \in 0..a /\ a + 0 = a /\ 0 \in 0..b
      BY <1>1
    <3>2. u[a] = p[a] /\ p[a] \in Seq(R)
      BY <1>5, <1>9, <3>1
    <3>3. p[a] \o <<>> = p[a]
      BY <3>2, ConcatEmptySeq
    <3> QED BY <1>6, <3>1, <3>2, <3>3
  <2>2. ASSUME NEW n \in 0..(b - 1), n \in T
        PROVE  n + 1 \in T
    <3>1. /\ n + 1 \in 1..b /\ n + 1 \in 0..b /\ n \in 0..b /\ a + (n + 1) \in 1..(a + b)
          /\ (n + 1) - 1 = n /\ (a + (n + 1)) - 1 = a + n /\ a \in 0..a
      BY <1>1
    <3>2. /\ u[a + (n + 1)] = u[a + n] \o st[a + (n + 1)] /\ st[a + (n + 1)] = t[n + 1]
          /\ q[n + 1] = q[n] \o t[n + 1]
      BY <1>1, <1>6, <1>7, <3>1
    <3>3. p[a] \in Seq(R) /\ q[n] \in Seq(R) /\ t[n + 1] \in Seq(R)
      BY <1>5, <1>6, <1>8, <3>1
    <3>4. (p[a] \o q[n]) \o t[n + 1] = p[a] \o (q[n] \o t[n + 1])
      <4>1. \A x, y, z \in Seq(R) : (x \o y) \o z = x \o (y \o z)
        BY ConcatAssociative
      <4> QED BY <3>3, <4>1, Zenon
    <3> QED BY <2>2, <3>1, <3>2, <3>4
  <2> HIDE DEF T
  <2> QED BY <1>1, <2>1, <2>2, AllUpTo
<1>11. u[a + b] = p[a] \o q[b]
  <2>1. b \in 0..b
    BY <1>1
  <2> QED BY <1>10, <2>1
<1> QED BY <1>5, <1>6, <1>7, <1>11 DEF st

\* One list or none per element.
Kept(x, id) == [i \in DOMAIN x |-> IF x[i].trip = id THEN <<x[i]>> ELSE <<>>]

LEMMA KeptAreLists ==
    ASSUME NEW R, NEW x \in Seq(R), NEW id
    PROVE  /\ Kept(x, id) \in Seq(Seq(R)) /\ DOMAIN Kept(x, id) = DOMAIN x
           /\ Len(Kept(x, id)) = Len(x)
           /\ \A i \in DOMAIN x : Kept(x, id)[i] = IF x[i].trip = id THEN <<x[i]>> ELSE <<>>
           /\ OffersOf(x, id) = FlattenSeq(Kept(x, id))
<1> DEFINE n == Len(x)
           k == Kept(x, id)
<1>1. n \in Nat /\ DOMAIN x = 1..n /\ \A i \in 1..n : x[i] \in R
  OBVIOUS
<1>2. OffersOf(x, id) = FlattenSeq(k)
  BY DEF OffersOf, Kept
<1>3. \A e \in R : <<e>> \in Seq(R) /\ <<>> \in Seq(R)
  OBVIOUS
<1> HIDE DEF n
<1>4. DOMAIN k = 1..n /\ k = [i \in 1..n |-> k[i]]
      /\ \A i \in 1..n : k[i] = IF x[i].trip = id THEN <<x[i]>> ELSE <<>>
  BY <1>1 DEF Kept
<1> HIDE DEF k
<1>5. k \in [1..n -> Seq(R)]
  BY <1>1, <1>3, <1>4
<1>6. k \in Seq(Seq(R))
  BY <1>1, <1>5, SeqDef
<1>7. Len(k) = n
  <2> DEFINE Q == Seq(R)
  <2>1. k \in Seq(Q)
    BY <1>6
  <2> HIDE DEF Q
  <2> QED BY <1>1, <1>4, <2>1, SameLength
<1> QED BY <1>1, <1>2, <1>4, <1>6, <1>7 DEF k, n

LEMMA OffersOfTwo ==
    ASSUME NEW R, NEW x \in Seq(R), NEW y \in Seq(R), NEW id
    PROVE  OffersOf(x \o y, id) = OffersOf(x, id) \o OffersOf(y, id)
<1> DEFINE xy == x \o y
           k == Kept(x, id)
           l == Kept(y, id)
           kl == Kept(xy, id)
           m == Len(x)
           n == Len(y)
<1>1. /\ xy \in Seq(R) /\ Len(xy) = m + n /\ m \in Nat /\ n \in Nat
      /\ DOMAIN xy = 1..(m + n) /\ DOMAIN x = 1..m /\ DOMAIN y = 1..n
      /\ \A i \in DOMAIN x : xy[i] = x[i]
      /\ \A j \in DOMAIN y : xy[m + j] = y[j]
  BY Concats
<1> HIDE DEF xy
<1>2. /\ k \in Seq(Seq(R)) /\ l \in Seq(Seq(R)) /\ kl \in Seq(Seq(R))
      /\ Len(k) = m /\ Len(l) = n /\ Len(kl) = m + n
      /\ \A i \in 1..m : k[i] = IF x[i].trip = id THEN <<x[i]>> ELSE <<>>
      /\ \A i \in 1..n : l[i] = IF y[i].trip = id THEN <<y[i]>> ELSE <<>>
      /\ \A i \in 1..(m + n) : kl[i] = IF xy[i].trip = id THEN <<xy[i]>> ELSE <<>>
      /\ OffersOf(x, id) = FlattenSeq(k) /\ OffersOf(y, id) = FlattenSeq(l)
      /\ OffersOf(xy, id) = FlattenSeq(kl)
  BY <1>1, KeptAreLists
<1> HIDE DEF k, l, kl, m, n
<1>3. kl = k \o l
  <2> DEFINE Q == Seq(R)
  <2>1. k \in Seq(Q) /\ l \in Seq(Q) /\ kl \in Seq(Q) /\ DOMAIN k = 1..m /\ DOMAIN l = 1..n
        /\ DOMAIN kl = 1..(m + n)
    BY <1>2
  <2> HIDE DEF Q
  <2>2. /\ k \o l \in Seq(Q) /\ DOMAIN (k \o l) = 1..(m + n)
        /\ \A i \in 1..m : (k \o l)[i] = k[i]
        /\ \A j \in 1..n : (k \o l)[m + j] = l[j]
    <3>1. /\ k \o l \in Seq(Q) /\ DOMAIN (k \o l) = 1..(Len(k) + Len(l))
          /\ \A i \in DOMAIN k : (k \o l)[i] = k[i]
          /\ \A j \in DOMAIN l : (k \o l)[Len(k) + j] = l[j]
      <4>1. \A v, w \in Seq(Q) :
               /\ v \o w \in Seq(Q) /\ DOMAIN (v \o w) = 1..(Len(v) + Len(w))
               /\ \A i \in DOMAIN v : (v \o w)[i] = v[i]
               /\ \A j \in DOMAIN w : (v \o w)[Len(v) + j] = w[j]
        BY Concats
      <4> QED BY <2>1, <4>1, Zenon
    <3>2. Len(k) = m /\ Len(l) = n
      BY <1>2
    <3> QED BY <2>1, <3>1, <3>2
  <2>3. ASSUME NEW i \in 1..(m + n)
        PROVE  kl[i] = (k \o l)[i]
    <3>1. CASE i <= m
      <4>1. i \in 1..m
        BY <1>1, <3>1
      <4>2. xy[i] = x[i] /\ (k \o l)[i] = k[i]
        BY <1>1, <2>2, <4>1
      <4> QED BY <1>2, <4>1, <4>2
    <3>2. CASE ~(i <= m)
      <4> DEFINE j == i - m
      <4>1. j \in 1..n /\ i = m + j
        BY <1>1, <3>2
      <4> HIDE DEF j
      <4>2. xy[i] = y[j] /\ (k \o l)[i] = l[j]
        BY <1>1, <2>2, <4>1
      <4> QED BY <1>2, <4>1, <4>2
    <3> QED BY <3>1, <3>2
  <2>4. \A v \in Seq(Q) : v = [i \in DOMAIN v |-> v[i]]
    OBVIOUS
  <2>5. kl = [i \in 1..(m + n) |-> kl[i]] /\ k \o l = [i \in 1..(m + n) |-> (k \o l)[i]]
    BY <2>1, <2>2, <2>4
  <2>6. [i \in 1..(m + n) |-> kl[i]] = [i \in 1..(m + n) |-> (k \o l)[i]]
    BY <2>3
  <2> QED BY <2>5, <2>6
<1>4. FlattenSeq(k \o l) = FlattenSeq(k) \o FlattenSeq(l)
  BY <1>2, FlattenTwo
<1> QED BY <1>2, <1>3, <1>4 DEF xy

\* All of a list, or nothing of it.
LEMMA OffersOfOne ==
    ASSUME NEW R, NEW x \in Seq(R), NEW id
    PROVE  /\ (\A k \in DOMAIN x : x[k].trip = id) => OffersOf(x, id) = x
           /\ (\A k \in DOMAIN x : x[k].trip # id) => OffersOf(x, id) = <<>>
<1> DEFINE s == Kept(x, id)
<1>1. /\ s \in Seq(Seq(R)) /\ DOMAIN s = DOMAIN x
      /\ \A i \in DOMAIN x : s[i] = IF x[i].trip = id THEN <<x[i]>> ELSE <<>>
      /\ OffersOf(x, id) = FlattenSeq(s)
  BY KeptAreLists
<1> HIDE DEF s
<1>2. ASSUME \A k \in DOMAIN x : x[k].trip = id
      PROVE  OffersOf(x, id) = x
  <2>1. \A k \in DOMAIN x : s[k] = <<x[k]>>
    BY <1>1, <1>2
  <2> QED BY <1>1, <2>1, FlattenOnes
<1>3. ASSUME \A k \in DOMAIN x : x[k].trip # id
      PROVE  OffersOf(x, id) = <<>>
  <2>1. FlattenSeq(s) \in Seq(R)
    BY <1>1, FlattenFrom
  <2>2. ASSUME NEW k \in DOMAIN FlattenSeq(s)
        PROVE  FALSE
    <3>1. PICK i \in DOMAIN s : \E j \in DOMAIN s[i] : FlattenSeq(s)[k] = s[i][j]
      BY <1>1, FlattenFrom
    <3>2. s[i] = <<>>
      BY <1>1, <1>3
    <3>3. DOMAIN <<>> = {}
      OBVIOUS
    <3> QED BY <3>1, <3>2, <3>3, Zenon
  <2>3. Len(FlattenSeq(s)) \in Nat /\ DOMAIN FlattenSeq(s) = 1..Len(FlattenSeq(s))
    BY <2>1
  <2> DEFINE all == FlattenSeq(s)
  <2>4. all \in Seq(R) /\ Len(all) \in Nat /\ 1 \notin 1..Len(all)
    BY <2>1, <2>2, <2>3
  <2> HIDE DEF all
  <2>5. Len(all) = 0
    BY <2>4
  <2>6. all = <<>>
    BY <2>4, <2>5
  <2> QED BY <1>1, <2>6 DEF all
<1> QED BY <1>2, <1>3

\* Of lists that are each about a trip of their own, one trip's is its list.
LEMMA OffersOfAll ==
    ASSUME NEW R, NEW s \in Seq(Seq(R)), NEW ids,
           \A i \in DOMAIN s : \A k \in DOMAIN s[i] : s[i][k].trip = ids[i],
           \A i, j \in DOMAIN s : ids[i] = ids[j] => i = j, NEW m \in DOMAIN s
    PROVE  OffersOf(FlattenSeq(s), ids[m]) = s[m]
<1>9. \A v, w \in Seq(R) : \A e : OffersOf(v \o w, e) = OffersOf(v, e) \o OffersOf(w, e)
  BY OffersOfTwo
<1> DEFINE n == Len(s)
           id == ids[m]
<1>1. n \in Nat /\ DOMAIN s = 1..n /\ \A i \in 1..n : s[i] \in Seq(R)
  OBVIOUS
<1>2. PICK p : Grows(p, s, R)
  BY FlattenGrows
<1>3. /\ p \in [0..n -> Seq(R)] /\ p[0] = <<>> /\ p[n] = FlattenSeq(s)
      /\ \A i \in 1..n : p[i] = p[i - 1] \o s[i]
  BY <1>2 DEF Grows
<1>4. \A i \in 1..n : OffersOf(s[i], id) = IF i = m THEN s[m] ELSE <<>>
  <2> SUFFICES ASSUME NEW i \in 1..n PROVE OffersOf(s[i], id) = IF i = m THEN s[m] ELSE <<>>
    OBVIOUS
  <2>1. CASE i = m
    <3>1. s[m] \in Seq(R) /\ \A k \in DOMAIN s[m] : s[m][k].trip = id
      BY <1>1
    <3> HIDE DEF id
    <3> QED BY <2>1, <3>1, OffersOfOne
  <2>2. CASE i # m
    <3>1. s[i] \in Seq(R) /\ \A k \in DOMAIN s[i] : s[i][k].trip # id
      BY <1>1, <2>2
    <3> HIDE DEF id
    <3> QED BY <2>2, <3>1, OffersOfOne
  <2> QED BY <2>1, <2>2
<1> HIDE DEF n, id
<1> DEFINE S == {i \in 0..n : OffersOf(p[i], id) = IF i < m THEN <<>> ELSE s[m]}
<1>5. 0 \in S
  <2>1. <<>> \in Seq(R) /\ \A k \in DOMAIN <<>> : <<>>[k].trip # id
    OBVIOUS
  <2>2. OffersOf(<<>>, id) = <<>>
    BY <2>1, OffersOfOne
  <2>3. 0 < m /\ 0 \in 0..n
    BY <1>1
  <2> QED BY <1>3, <2>2, <2>3
<1>6. ASSUME NEW i \in 0..(n - 1), i \in S
      PROVE  i + 1 \in S
  <2>1. i + 1 \in 1..n /\ i + 1 \in 0..n /\ (i + 1) - 1 = i /\ i \in 0..n /\ m \in 1..n
    BY <1>1
  <2>2. p[i + 1] = p[i] \o s[i + 1] /\ p[i] \in Seq(R) /\ s[i + 1] \in Seq(R) /\ s[m] \in Seq(R)
    <3>1. p[i + 1] = p[(i + 1) - 1] \o s[i + 1]
      BY <1>3, <2>1
    <3>2. p[i] \in Seq(R)
      BY <1>3, <2>1
    <3>3. s[i + 1] \in Seq(R) /\ s[m] \in Seq(R)
      BY <1>1, <2>1
    <3> QED BY <2>1, <3>1, <3>2, <3>3
  <2>3. OffersOf(p[i + 1], id) = OffersOf(p[i], id) \o OffersOf(s[i + 1], id)
    <3> DEFINE v == p[i]
               w == s[i + 1]
    <3>1. v \in Seq(R) /\ w \in Seq(R) /\ p[i + 1] = v \o w
      BY <2>2
    <3> HIDE DEF v, w
    <3>2. OffersOf(v \o w, id) = OffersOf(v, id) \o OffersOf(w, id)
      BY <1>9, <3>1, Zenon
    <3> QED BY <3>1, <3>2 DEF v, w
  <2>4. OffersOf(p[i], id) = IF i < m THEN <<>> ELSE s[m]
    BY <1>6
  <2>5. OffersOf(s[i + 1], id) = IF i + 1 = m THEN s[m] ELSE <<>>
    BY <1>4, <2>1
  <2>6. <<>> \o s[m] = s[m] /\ s[m] \o <<>> = s[m] /\ <<>> \o <<>> = <<>>
    BY <2>2, ConcatEmptySeq
  <2>7. OffersOf(p[i + 1], id) = IF i + 1 < m THEN <<>> ELSE s[m]
    <3>1. CASE i + 1 < m
      <4>1. i < m /\ i + 1 # m
        BY <2>1, <3>1
      <4> QED BY <2>3, <2>4, <2>5, <2>6, <3>1, <4>1
    <3>2. CASE i + 1 = m
      <4>1. i < m /\ ~(i + 1 < m)
        BY <2>1, <3>2
      <4> QED BY <2>3, <2>4, <2>5, <2>6, <3>2, <4>1
    <3>3. CASE i + 1 > m
      <4>1. ~(i < m) /\ i + 1 # m /\ ~(i + 1 < m)
        BY <2>1, <3>3
      <4> QED BY <2>3, <2>4, <2>5, <2>6, <4>1
    <3> QED BY <2>1, <3>1, <3>2, <3>3
  <2> QED BY <2>1, <2>7
<1> HIDE DEF S
<1>7. \A i \in 0..n : i \in S
  BY <1>1, <1>5, <1>6, AllUpTo
<1>8. n \in S /\ ~(n < m)
  BY <1>1, <1>7
<1> QED BY <1>3, <1>8 DEF S, id

\* Whatever is drawn and whatever fails, a week has an id twice or all its
\* trips fit together.
LEMMA GeneratedIsConsistent ==
    ASSUME NEW drawn \in Seeds, NEW date \in Int, NEW open, NEW points, Servicable(open, points),
           NEW held \in SUBSET TrafficRows, NEW mapAvailable \in BOOLEAN, NEW failures
    PROVE  LET w == Generate(drawn, date, open, points, held, mapAvailable, failures)
           IN  HasDuplicates(w) \/ WellFormed(w)
<1> DEFINE specs == Specs(drawn, date, open, points)
           parts == Parts(specs, drawn.luck, held, mapAvailable, failures)
           n == HistoryDays * TripsPerDay
           Good(part, id) == Fine(part, id) /\ Consistent(part, id)
           ids == [i \in 1..n |-> CHOOSE id : Good(parts[i], id)]
           scores == HotspotHistory(date, open)
           w == Generate(drawn, date, open, points, held, mapAvailable, failures)
<1>1. n \in Nat
  BY HistoryAssumption
<1>2. PICK Q : specs \in Seq(Q) /\ Len(specs) = n
  BY SpecsAreWhole
<1>3. \A i \in 1..n : drawn.luck[i] \in Lucks
  <2>1. drawn.luck \in [1..n -> Lucks]
    BY BootstrapAssumption
  <2> QED BY <2>1
<1>4. w = Together(AllOf(parts), scores)
  BY DEF Generate
<1>5. \A k \in DOMAIN specs : Decided(specs[k])
  BY SpecsAreDecided
<1> HIDE DEF specs, n
<1>6. parts = [i \in 1..n |-> parts[i]] /\ \A i \in 1..n : \E id : Good(parts[i], id)
  BY <1>2, <1>3, <1>5, PartsAreConsistent
<1> HIDE DEF parts
<1>7. \A i \in 1..n : Fine(parts[i], ids[i]) /\ Consistent(parts[i], ids[i])
  <2>1. \A i \in 1..n : Good(parts[i], ids[i])
    BY <1>6
  <2> QED BY <2>1
<1> HIDE DEF ids
<1> DEFINE all == AllOf(parts)
<1>8. /\ DOMAIN all["rows"] = 1..n
      /\ \A i \in 1..n : all["rows"][i].id = ids[i] /\ parts[i]["rows"] = <<all["rows"][i]>>
      /\ \E P : all["rows"] \in Seq(P)
  BY <1>1, <1>6, <1>7, AllAreOnce
<1> DEFINE names == {"rows", "offers", "driver_positions"}
<1>9. \A t \in names : t \in DOMAIN Nothing /\ scores[t] = <<>>
  BY DEF HotspotHistory, Nothing
<1>10. DOMAIN parts = 1..n /\ \A t \in names : all[t] = FlattenSeq([i \in 1..n |-> parts[i][t]])
  <2>1. DOMAIN parts = 1..n
    BY <1>6
  <2> QED BY <1>9, <2>1 DEF AllOf
<1> HIDE DEF all, scores
<1>11. \A t \in names : w[t] = all[t] \o <<>>
  BY <1>4, <1>9 DEF Together, all
<1> HIDE DEF w
<1>12. \A P : \A x \in Seq(P) : x \o <<>> = x
  OBVIOUS
<1>13. w["rows"] = all["rows"]
  <2>1. w["rows"] = all["rows"] \o <<>>
    BY <1>11
  <2> QED BY <1>8, <1>12, <2>1
<1>14. CASE \E i, j \in 1..n : ids[i] = ids[j] /\ i # j
  <2>1. HasDuplicates(w)
    <3>1. PICK i \in 1..n, j \in 1..n : ids[i] = ids[j] /\ i # j
      BY <1>14
    <3>2. i \in DOMAIN w["rows"] /\ j \in DOMAIN w["rows"] /\ w["rows"][i].id = w["rows"][j].id
      BY <1>8, <1>13, <3>1
    <3> QED BY <3>1, <3>2 DEF HasDuplicates
  <2> QED BY <2>1 DEF w
<1>15. CASE \A i, j \in 1..n : ids[i] = ids[j] => i = j
  <2> DEFINE asked == [i \in 1..n |-> parts[i]["offers"]]
             driven == [i \in 1..n |-> parts[i]["driver_positions"]]
  <2>1. \A i \in 1..n : /\ \E P : asked[i] \in Seq(P)
                        /\ \E P : driven[i] \in Seq(P)
                        /\ \A k \in DOMAIN asked[i] : asked[i][k].trip = ids[i]
                        /\ \A k \in DOMAIN driven[i] : driven[i][k].trip = ids[i]
    BY <1>7 DEF Consistent
  <2>2. /\ w["offers"] = FlattenSeq(asked) \o <<>>
        /\ w["driver_positions"] = FlattenSeq(driven) \o <<>>
    BY <1>10, <1>11
  <2>3. /\ DOMAIN asked = 1..n /\ asked = [i \in 1..n |-> asked[i]]
        /\ DOMAIN driven = 1..n /\ driven = [i \in 1..n |-> driven[i]]
        /\ \A i \in 1..n : asked[i] = parts[i]["offers"] /\ driven[i] = parts[i]["driver_positions"]
    OBVIOUS
  <2> HIDE DEF asked, driven
  <2>4. PICK A : asked \in Seq(Seq(A))
    BY <1>1, <2>1, <2>3, ListsOfLists
  <2>5. PICK D : driven \in Seq(Seq(D))
    BY <1>1, <2>1, <2>3, ListsOfLists
  <2>6. w["offers"] = FlattenSeq(asked) /\ w["driver_positions"] = FlattenSeq(driven)
    BY <1>12, <2>2, <2>4, <2>5, FlattenFrom
  <2>7. Len(w["rows"]) = n
    BY <1>1, <1>8, <1>13, SameLength
  <2>8. ASSUME NEW i \in 1..n
        PROVE  LET row == w["rows"][i]
               IN  TripIsConsistent(w, row, Chain(w, row.id))
    <3> DEFINE row == w["rows"][i]
               part == parts[i]
               laid == [k \in DOMAIN part["offers"] |-> part["offers"][k].offer]
    <3>1. row.id = ids[i] /\ part["rows"] = <<row>>
      BY <1>8, <1>13
    <3>2. TripIsConsistent(part, row, laid)
          /\ \A k \in DOMAIN part["driver_positions"] : part["driver_positions"][k].trip = ids[i]
      <4>1. PICK r : /\ part["rows"] = <<r>>
                     /\ TripIsConsistent(part, r, laid)
                     /\ \A k \in DOMAIN part["driver_positions"] :
                           part["driver_positions"][k].trip = ids[i]
        BY <1>7, Zenon DEF Consistent
      <4>2. r = row
        <5>1. \A e, f : <<e>> = <<f>> => e = f
          OBVIOUS
        <5> QED BY <3>1, <4>1, <5>1, Zenon
      <4> QED BY <4>1, <4>2
    <3>3. OffersOf(w["offers"], ids[i]) = part["offers"]
      <4>1. OffersOf(FlattenSeq(asked), ids[i]) = asked[i]
        <5>1. /\ \A a \in DOMAIN asked : \A k \in DOMAIN asked[a] : asked[a][k].trip = ids[a]
              /\ \A a, b \in DOMAIN asked : ids[a] = ids[b] => a = b
              /\ i \in DOMAIN asked
          BY <1>15, <2>1, <2>3
        <5> HIDE DEF row, part, laid, w, n
        <5>2. \A m \in DOMAIN asked : OffersOf(FlattenSeq(asked), ids[m]) = asked[m]
          BY <2>4, <5>1, OffersOfAll
        <5> QED BY <5>1, <5>2
      <4> QED BY <2>3, <2>6, <4>1
    <3>4. Chain(w, row.id) = laid
      BY <3>1, <3>3 DEF Chain
    <3>5. ASSUME NEW k \in DOMAIN w["driver_positions"], w["driver_positions"][k].trip = row.id
          PROVE  /\ w["driver_positions"][k].driver = row.driver
                 /\ w["driver_positions"][k].moment \in row.started..row.ended
      <4>0. PICK j \in DOMAIN driven : \E l \in DOMAIN driven[j] :
               w["driver_positions"][k] = driven[j][l]
        BY <2>5, <2>6, FlattenFrom
      <4>1. PICK l \in DOMAIN driven[j] : w["driver_positions"][k] = driven[j][l]
        BY <4>0
      <4>2. j = i
        BY <1>15, <2>1, <2>3, <3>1, <3>5, <4>1
      <4>3. l \in DOMAIN part["driver_positions"]
            /\ w["driver_positions"][k] = part["driver_positions"][l]
        BY <2>3, <4>1, <4>2
      <4> HIDE DEF row, part, laid
      <4> QED BY <3>1, <3>2, <4>3 DEF TripIsConsistent
    <3> HIDE DEF row, part, laid
    <3>6. TripIsConsistent(w, row, laid)
      BY <3>2, <3>5 DEF TripIsConsistent
    <3> QED BY <3>4, <3>6 DEF row
  <2>9. WellFormed(w)
    BY <1>8, <1>13, <2>7, <2>8 DEF WellFormed, n
  <2> QED BY <2>9 DEF w
<1> QED BY <1>14, <1>15

-----------------------------------------------------------------------------
(* So what is about to be stored fits together.                                *)

\* The grid a week is invented on has zones, and a corner in each; a generated
\* week fits together, unless it is still to be looked at and has an id twice.
WeekKept ==
    /\ today \in Nat /\ seed \in Seeds
    /\ pc \in {"calibrate", "traffic", "generate"} =>
          grid \subseteq Zones /\ grid # {} /\ DOMAIN pools = grid
    /\ traffic \subseteq TrafficRows
    /\ week = NoWeek \/ WellFormed(week) \/ (pc = "duplicates" /\ HasDuplicates(week))

LEMMA PeopleGetAGrid ==
    ASSUME SeedPeople
    PROVE  /\ week' = week \/ week' = NoWeek
           /\ pc' \in {"off", "calibrate"}
           /\ pc' = "calibrate" => grid' \subseteq Zones /\ grid' # {} /\ DOMAIN pools' = grid'
<1> DEFINE open == {z \in Zones : zones[z] = "open"}
           points(L) == BuildRoadPointPools(Network, open,
                            [z \in open |-> {q \in PointQueries : <<z, q>> \in L}])
<1>1. PICK L :
         IF open = {} \/ (\E z \in open : points(L)[z] = Refused)
         THEN Fail /\ people' = people
         ELSE /\ people' = IF DOMAIN people = Drivers THEN people
                           ELSE [d \in Drivers |-> points(L)[PickZone(open, seed.home[d])]]
              /\ grid' = open /\ pools' = points(L)
              /\ pc' = "calibrate" /\ UNCHANGED <<week, done>>
  BY Zenon DEF SeedPeople
<1>2. DOMAIN points(L) = open /\ open \subseteq Zones
  BY DEF BuildRoadPointPools
<1> HIDE DEF open, points
<1> QED BY <1>1, <1>2 DEF Fail, Forget

LEMMA WeekKeptStep ==
    ASSUME Inductive, Streets, WeekKept, [Next]_vars
    PROVE  WeekKept'
<1>1. seed' = seed /\ today' \in Nat /\ traffic' \subseteq TrafficRows
  <2>1. today' = today \/ today' = today + 1
    BY DEF Next, Make, Prepare, Rebuild, Populate, Fill, vars, world, CreateDatabase,
       CreateSchema, CheckMarker, Migrate, Migrated, Restore, RestoreWays, RestoreCorners,
       ImportMap, InsertZones, CloseZones, SeedPeople, Calibrate, SeedTraffic, GenerateWeek,
       CheckDuplicates, StoreTrips, StoreOffers, StoreRatings, CheckWarehouse, LoadWarehouse,
       SetMarker, Serve, Die, NewDay
  <2>2. seed' = seed
    BY DEF Next, Make, Prepare, Rebuild, Populate, Fill, vars, world, CreateDatabase,
       CreateSchema, CheckMarker, Migrate, Migrated, Restore, RestoreWays, RestoreCorners,
       ImportMap, InsertZones, CloseZones, SeedPeople, Calibrate, SeedTraffic, GenerateWeek,
       CheckDuplicates, StoreTrips, StoreOffers, StoreRatings, CheckWarehouse, LoadWarehouse,
       SetMarker, Serve, Die, NewDay
  <2>3. traffic' \subseteq TrafficRows
    <3>1. CASE SeedTraffic
      BY <3>1 DEF SeedTraffic, Samples, WeekKept
    <3>2. CASE ~SeedTraffic
      <4>1. traffic' = traffic
        BY <3>2 DEF Next, Make, Prepare, Rebuild, Populate, Fill, vars, city, CreateDatabase,
           CreateSchema, CheckMarker, Migrate, Migrated, Restore, RestoreWays, RestoreCorners,
           ImportMap, InsertZones, CloseZones, SeedPeople, Calibrate, GenerateWeek,
           CheckDuplicates, StoreTrips, StoreOffers, StoreRatings, CheckWarehouse, LoadWarehouse,
           SetMarker, Serve, Die, NewDay
      <4> QED BY <4>1 DEF WeekKept
    <3> QED BY <3>1, <3>2
  <2> QED BY <2>1, <2>2, <2>3 DEF WeekKept
<1>2. CASE GenerateWeek
  <2>0. PICK mapLost \in BOOLEAN : \E failures :
           week' = Generate(seed, today, grid, pools, traffic, ~mapLost, failures)
    BY <1>2, Zenon DEF GenerateWeek
  <2>1. PICK failures : week' = Generate(seed, today, grid, pools, traffic, ~mapLost, failures)
    BY <2>0
  <2>2. Servicable(grid, pools)
    BY <1>2 DEF GenerateWeek, WeekKept, Streets, Servicable
  <2>3. /\ today \in Int /\ seed \in Seeds /\ (~mapLost) \in BOOLEAN
        /\ traffic \in SUBSET TrafficRows
    BY DEF WeekKept
  <2>4. HasDuplicates(week') \/ WellFormed(week')
    BY <2>1, <2>2, <2>3, GeneratedIsConsistent
  <2>5. pc' = "duplicates"
    BY <1>2 DEF GenerateWeek
  <2> QED BY <1>1, <2>4, <2>5 DEF WeekKept
<1>3. CASE CheckDuplicates
  <2>1. pc = "duplicates"
        /\ \/ pc' = "off" /\ week' = NoWeek
           \/ ~HasDuplicates(week) /\ pc' = "trips" /\ week' = week
    BY <1>3 DEF CheckDuplicates, Fail, Forget, memory
  <2> QED BY <1>1, <2>1 DEF WeekKept
<1>4. CASE SeedPeople
  <2>1. pc = "people"
    BY <1>4 DEF SeedPeople
  <2> QED BY <1>1, <1>4, <2>1, PeopleGetAGrid DEF WeekKept
<1>5. CASE ~GenerateWeek /\ ~CheckDuplicates /\ ~SeedPeople
  <2> DEFINE Gridded == {"calibrate", "traffic", "generate"}
  <2>1. /\ week' = NoWeek \/ (week' = week /\ (pc = "duplicates" => pc' = "duplicates"))
        /\ pc' \in Gridded => pc \in Gridded /\ grid' = grid /\ pools' = pools
    BY <1>5 DEF Next, Make, Prepare, Rebuild, Populate, Fill, vars, memory, Forget, Fail,
       EndPhase, NextRow, CreateDatabase, CreateSchema, CheckMarker, Migrate, Migrated, Restore,
       RestoreWays, RestoreCorners, ImportMap, InsertZones, CloseZones, Calibrate,
       SeedTraffic, StoreTrips, StoreOffers, StoreRatings, CheckWarehouse, LoadWarehouse,
       SetMarker, Serve, Die, NewDay
  <2> QED BY <1>1, <2>1 DEF WeekKept
<1> QED BY <1>2, <1>3, <1>4, <1>5

\* Whatever is drawn, dies or is lost, in every week that is about to be stored
\* each trip is there once, its milestones are in order, its offers follow one
\* another from the request to the match, the last one is taken by its driver,
\* if it has one, and its reports are of the ride.
THEOREM WeeksAreConsistent == Spec => []WeekIsConsistent
<1>1. Init => Streets /\ WeekKept
  BY DEF Init, Streets, WeekKept
<1>2. Inductive /\ Streets /\ WeekKept /\ [Next]_vars => (Streets /\ WeekKept)'
  BY StreetsStep, WeekKeptStep
<1>3. WeekKept => WeekIsConsistent
  BY DEF WeekKept, WeekIsConsistent
<1> QED BY <1>1, <1>2, <1>3, BootstrapInductive, PTL DEF Spec
-----------------------------------------------------------------------------
(* The stores agree.  On one day, with no query lost, the weeks a seed can     *)
(* give differ in nothing but when the rides end, whatever the traffic is; so  *)
(* a bootstrap that is run again puts its rows beside those of the last run.   *)

Rows(list) == {list[i] : i \in DOMAIN list}
First(list, n) == {list[i] : i \in {k \in DOMAIN list : k <= n}}

\* What the traffic leaves of a row, of a list of rows and of a table.
Face(row) ==
    [row |-> WithoutEnd(row), id |-> row.id, driver |-> row.driver, status |-> row.status]
Faces(list) == [i \in DOMAIN list |-> Face(list[i])]
Shown(table) == {Face(row) : row \in table}

\* What two runs make of one trip.
Twins(part, other) ==
    /\ part["offers"] = other["offers"] /\ part["ratings"] = other["ratings"]
    /\ \E row, twin : part["rows"] = <<row>> /\ other["rows"] = <<twin>> /\ Face(row) = Face(twin)

\* Two weeks that differ in nothing else.
Alike(w, v) ==
    Faces(w["rows"]) = Faces(v["rows"]) /\ w["offers"] = v["offers"] /\ w["ratings"] = v["ratings"]

\* Whether there is a way does not depend on the traffic.
LEMMA RouteInTraffic ==
    ASSUME NEW held \in SUBSET TrafficRows, NEW from \in Corners, NEW to \in Corners
    PROVE  Route(TRUE, held, from, to, AllUp) = NoRoute
             <=> Route(TRUE, {}, from, to, AllUp) = NoRoute
<1> DEFINE ends == Ends(TRUE, from, to, AllUp)
           way(t) == WayBetween(t, ends, AllUp)
<1>1. ASSUME NEW t \in SUBSET TrafficRows
      PROVE  way(t) \in Seq([seconds : Nat, metres : Nat])
             /\ (Route(TRUE, t, from, to, AllUp) = NoRoute <=> Metres(way(t)) = 0)
  <2>1. AllUp["geometry"] = 0 /\ AllUp["ksp"] = 0
    BY DEF AllUp, Queries, Up
  <2>2. way(t) \in Seq([seconds : Nat, metres : Nat])
    <3>1. \A place \in {from, to} : \A n :
             NearestRoadPoint(TRUE, place, MaxSnap, n) \in Corners \cup {NoPoint}
      BY RoutingAssumption DEF NearestRoadPoint, QueryWithRetry
    <3>2. ends[1] \in Corners \cup {NoPoint} /\ ends[2] \in Corners \cup {NoPoint}
          /\ ends = <<ends[1], ends[2]>>
      BY <3>1 DEF Ends
    <3> HIDE DEF ends
    <3>3. <<>> \in Seq([seconds : Nat, metres : Nat])
      OBVIOUS
    <3>4. NoPoint \notin {ends[1], ends[2]} => ends \in Corners \X Corners
      BY <3>2
    <3>5. ends \in Corners \X Corners => Ways[t][ends] \in Seq([seconds : Nat, metres : Nat])
      BY RoutingAssumption
    <3> QED BY <3>3, <3>4, <3>5, Zenon DEF WayBetween, QueryWithRetry
  <2>3. SecondsOf(way(t)) \in Nat /\ Metres(way(t)) \in Nat
    BY <2>2, WayTakesSeconds
  <2> DEFINE found == [metres |-> Metres(way(t)), seconds |-> SecondsOf(way(t))]
  <2>4. found # NoRoute
    <3>1. \A x, y \in Nat : [metres |-> x, seconds |-> y] \in [metres : Nat, seconds : Nat]
      OBVIOUS
    <3>2. found \in [metres : Nat, seconds : Nat]
      BY <2>3, <3>1
    <3> HIDE DEF found
    <3> QED BY <3>2, RoutingAssumption
  <2>5. Route(TRUE, t, from, to, AllUp) = IF Metres(way(t)) = 0 THEN NoRoute ELSE found
    BY <2>1 DEF Route, RouteAlong, QueryWithRetry, RouteQueryAttempts
  <2> HIDE DEF found, way
  <2> QED BY <2>2, <2>4, <2>5
<1>2. Metres(way(held)) = 0 <=> Metres(way({})) = 0
  <2>1. CASE NoPoint \in {ends[1], ends[2]}
    BY <2>1 DEF WayBetween
  <2>2. CASE NoPoint \notin {ends[1], ends[2]}
    <3>1. \A place \in {from, to} : \A n :
             NearestRoadPoint(TRUE, place, MaxSnap, n) \in Corners \cup {NoPoint}
      BY RoutingAssumption DEF NearestRoadPoint, QueryWithRetry
    <3>2. ends[1] \in Corners \cup {NoPoint} /\ ends[2] \in Corners \cup {NoPoint}
          /\ ends = <<ends[1], ends[2]>>
      BY <3>1 DEF Ends
    <3> HIDE DEF ends
    <3>3. ends \in Corners \X Corners
      BY <2>2, <3>2
    <3>4. AllUp["ksp"] = 0
      BY DEF AllUp, Queries, Up
    <3>5. way(held) = Ways[held][ends] /\ way({}) = Ways[{}][ends]
      BY <2>2, <3>4 DEF WayBetween, QueryWithRetry, RouteQueryAttempts
    <3>6. Metres(Ways[held][ends]) = 0 <=> Metres(Ways[{}][ends]) = 0
      BY <3>3, RoutingAssumption
    <3> QED BY <3>5, <3>6
  <2> QED BY <2>1, <2>2
<1>3. {} \in SUBSET TrafficRows
  OBVIOUS
<1> HIDE DEF way
<1> QED BY <1>1, <1>2, <1>3

\* A trip has twins on two ways.
LEMMA FinishedAlike ==
    ASSUME NEW spec, spec.requested \in Int, NEW luck \in Lucks, NEW route, NEW other
    PROVE  Twins(FinishTrip(spec, route, luck), FinishTrip(spec, other, luck))
<1> DEFINE rows == SeedOffers(spec, luck)
           m == EndOfChain(rows)
           matched == Matched(spec, rows, luck)
           ride(r) == Complete(matched, r.seconds, luck)
           cancelled == Cancel(matched, spec.outcome, luck)
           part(r) == FinishTrip(spec, r, luck)
<1>1. PICK n \in 1..SeedMaxOffers : Chained(rows, spec, n)
  BY ChainIsLaid
<1>2. n \in Nat \ {0} /\ rows = [i \in 1..n |-> rows[i]] /\ Len(rows) = n
  <2>1. n \in Nat \ {0} /\ rows = [i \in 1..n |-> rows[i]]
    BY <1>1 DEF Chained, SeedMaxOffers
  <2> HIDE DEF rows
  <2>2. rows \in Seq({rows[i] : i \in 1..n}) /\ DOMAIN rows = 1..n
    BY <2>1, SeqDef
  <2> QED BY <2>1, <2>2, SameLength
<1> HIDE DEF rows
<1>3. MatchedAt(spec, m, luck, matched)
  BY DEF Matched, MatchedAt, TripRow
<1>4. \A r : part(r) = IF rows[n].offer.status # "accepted"
                       THEN Together(Offered(rows), FinishNoDriver(spec))
                       ELSE IF spec.outcome = "completed" THEN Completed(Offered(rows), ride(r))
                       ELSE WithTrip(Offered(rows), cancelled)
  BY <1>2 DEF FinishTrip, FinishChain, rows
<1>5. \A r : Face(ride(r)) = Face(ride(route)) /\ Stars(ride(r)) = Stars(ride(route))
  <2> SUFFICES ASSUME NEW r
               PROVE  Face(ride(r)) = Face(ride(route)) /\ Stars(ride(r)) = Stars(ride(route))
    OBVIOUS
  <2>1. ASSUME NEW x
        PROVE  /\ ride(x).id = spec.id /\ ride(x).driver = spec.driver
               /\ ride(x).status = "completed"
               /\ WithoutEnd(ride(x)) = [matched EXCEPT !.status = "completed",
                     !.arrived = matched.accepted + luck.arrive,
                     !.started = matched.accepted + luck.arrive + luck.board, !.ended = None]
    <3> DEFINE arrived == matched.accepted + luck.arrive
               started == arrived + luck.board
               drifted == (x.seconds * luck.pace) \div 100
               ended == started + (IF drifted > 30 THEN drifted ELSE 30)
    <3>1. ride(x) = [matched EXCEPT !.status = "completed", !.arrived = arrived,
                                    !.started = started, !.ended = ended]
      BY DEF Complete
    <3>2. /\ DOMAIN matched = {"id", "driver", "status", "reason", "requested", "matched",
                               "accepted", "arrived", "started", "ended"}
          /\ matched.id = spec.id /\ matched.driver = spec.driver
      BY <1>3 DEF MatchedAt
    <3> HIDE DEF arrived, started, ended, matched
    <3>3. ride(x).id = spec.id /\ ride(x).driver = spec.driver /\ ride(x).status = "completed"
      BY <3>1, <3>2
    <3>4. WithoutEnd(ride(x)) = [ride(x) EXCEPT !.ended = None]
      BY <3>3 DEF WithoutEnd
    <3>5. [ride(x) EXCEPT !.ended = None]
            = [matched EXCEPT !.status = "completed", !.arrived = arrived,
                              !.started = started, !.ended = None]
      BY <3>1, <3>2
    <3> QED BY <3>3, <3>4, <3>5 DEF arrived, started
  <2> HIDE DEF ride, matched
  <2> QED BY <2>1 DEF Face, Stars
<1> HIDE DEF part, ride, cancelled, matched, m
<1>6. CASE rows[n].offer.status # "accepted"
  <2>1. \A r : Lists(part(r), TripRow(spec), rows, <<>>, <<>>)
    BY <1>2, <1>4, <1>6, ListsOfTrips
  <2>2. Twins(part(route), part(other))
    BY <2>1 DEF Lists, Twins
  <2> QED BY <2>2 DEF part
<1>7. CASE rows[n].offer.status = "accepted" /\ spec.outcome = "completed"
  <2>1. \A r : Lists(part(r), ride(r), rows, Stars(ride(r)), Reports(ride(r)))
    BY <1>2, <1>4, <1>7, ListsOfTrips
  <2>2. Twins(part(route), part(other))
    BY <1>5, <2>1 DEF Lists, Twins
  <2> QED BY <2>2 DEF part
<1>8. CASE rows[n].offer.status = "accepted" /\ spec.outcome # "completed"
  <2>1. \A r : Lists(part(r), cancelled, rows, <<>>, <<>>)
    BY <1>2, <1>4, <1>8, ListsOfTrips
  <2>2. Twins(part(route), part(other))
    BY <2>1 DEF Lists, Twins
  <2> QED BY <2>2 DEF part
<1> QED BY <1>6, <1>7, <1>8

\* So has every trip, in any traffic.
LEMMA PartsAreAlike ==
    ASSUME NEW Q, NEW specs \in Seq(Q), \A k \in DOMAIN specs : Decided(specs[k]),
           NEW luck, \A i \in 1..Len(specs) : luck[i] \in Lucks,
           NEW held \in SUBSET TrafficRows, NEW failures,
           failures = [i \in 1..Len(ToRoute(specs)) |-> AllUp]
    PROVE  \A i \in 1..Len(specs) :
              Twins(Parts(specs, luck, held, TRUE, failures)[i],
                    Parts(specs, luck, {}, TRUE, failures)[i])
<1> DEFINE undriven == Undriven(specs)
           toRoute == ToRoute(specs)
           routed(t) == Routed(toRoute, t, TRUE, failures)
           a == [i \in DOMAIN undriven |-> FinishNoDriver(undriven[i])]
           b(t) == Finished(toRoute, routed(t), luck)
           k == Len(undriven)
           n == Len(toRoute)
<1>1. toRoute \in Seq(Q) /\ undriven \in Seq(Q) /\ n + k = Len(specs) /\ Len(specs) \in Nat
  BY DrivenOrNot
<1>2. \A t : Parts(specs, luck, t, TRUE, failures) = a \o b(t)
  BY DEF Parts
<1>3. \A i \in DOMAIN toRoute : Decided(toRoute[i]) /\ toRoute[i].outcome # "no_driver_found"
  BY DrivenAreDecided
<1>4. \A i \in DOMAIN toRoute :
         failures[i] = AllUp
         /\ \A t : routed(t)[i] = Route(TRUE, t, toRoute[i].from, toRoute[i].to, failures[i])
  BY <1>1 DEF Routed
<1> HIDE DEF undriven, toRoute
<1>5. k \in Nat /\ n \in Nat /\ DOMAIN undriven = 1..k /\ DOMAIN toRoute = 1..n
  BY <1>1
<1>6. \A i \in 1..n : routed(held)[i] = NoRoute <=> routed({})[i] = NoRoute
  <2> SUFFICES ASSUME NEW i \in 1..n PROVE routed(held)[i] = NoRoute <=> routed({})[i] = NoRoute
    OBVIOUS
  <2>1. toRoute[i].from \in Corners /\ toRoute[i].to \in Corners
    BY <1>3, <1>5 DEF Decided
  <2> HIDE DEF routed
  <2>2. /\ routed(held)[i] = Route(TRUE, held, toRoute[i].from, toRoute[i].to, AllUp)
        /\ routed({})[i] = Route(TRUE, {}, toRoute[i].from, toRoute[i].to, AllUp)
    BY <1>4, <1>5
  <2>3. Route(TRUE, held, toRoute[i].from, toRoute[i].to, AllUp) = NoRoute
          <=> Route(TRUE, {}, toRoute[i].from, toRoute[i].to, AllUp) = NoRoute
    BY <2>1, RouteInTraffic
  <2> QED BY <2>2, <2>3
<1> HIDE DEF routed
<1>7. \A i \in 1..n : Turn(routed(held), i) = Turn(routed({}), i)
  <2> SUFFICES ASSUME NEW i \in 1..n PROVE Turn(routed(held), i) = Turn(routed({}), i)
    OBVIOUS
  <2>1. \A j \in 1..i : j \in 1..n
    BY <1>5
  <2>2. {j \in 1..i : routed(held)[j] # NoRoute} = {j \in 1..i : routed({})[j] # NoRoute}
    BY <1>6, <2>1
  <2> QED BY <2>2 DEF Turn
<1>8. \A t : /\ DOMAIN b(t) = 1..n
             /\ \A i \in 1..n :
                   b(t)[i] = IF routed(t)[i] = NoRoute THEN FinishNoDriver(toRoute[i])
                             ELSE FinishTrip(toRoute[i], routed(t)[i], luck[Turn(routed(t), i)])
  BY <1>5 DEF Finished
<1>9. \A spec : Twins(FinishNoDriver(spec), FinishNoDriver(spec))
  BY DEF Twins, FinishNoDriver, Nothing
<1>10. ASSUME NEW i \in 1..n
       PROVE  Twins(b(held)[i], b({})[i])
  <2>1. CASE routed(held)[i] = NoRoute
    BY <1>6, <1>8, <1>9, <2>1
  <2>2. CASE routed(held)[i] # NoRoute
    <3>1. Turn(routed(held), i) \in 1..n
      BY <1>5, <2>2, TurnIsInRange
    <3>2. Turn(routed(held), i) \in 1..Len(specs)
      BY <1>1, <1>5, <3>1
    <3> DEFINE mine == luck[Turn(routed(held), i)]
    <3>3. mine \in Lucks
      BY <3>2
    <3>4. toRoute[i].requested \in Int
      BY <1>3, <1>5 DEF Decided
    <3>5. b(held)[i] = FinishTrip(toRoute[i], routed(held)[i], mine)
          /\ b({})[i] = FinishTrip(toRoute[i], routed({})[i], mine)
      BY <1>6, <1>7, <1>8, <2>2
    <3> HIDE DEF mine, b
    <3> QED BY <3>3, <3>4, <3>5, FinishedAlike
  <2> QED BY <2>1, <2>2
<1> DEFINE R == {a[i] : i \in 1..k} \cup {b(held)[i] : i \in 1..n} \cup {b({})[i] : i \in 1..n}
<1>11. /\ a = [i \in 1..k |-> a[i]] /\ \A i \in 1..k : Twins(a[i], a[i])
       /\ \A t : b(t) = [i \in 1..n |-> b(t)[i]]
  BY <1>5, <1>9 DEF Finished
<1> HIDE DEF a, b, k, n
<1>12. a \in Seq(R) /\ Len(a) = k /\ DOMAIN a = 1..k
  <2>1. a \in [1..k -> R]
    BY <1>11
  <2> HIDE DEF R
  <2>2. a \in Seq(R) /\ DOMAIN a = 1..k
    BY <1>5, <2>1, SeqDef
  <2> QED BY <1>5, <2>2, SameLength
<1>13. ASSUME NEW t \in {held, {}}
       PROVE  b(t) \in Seq(R) /\ Len(b(t)) = n /\ DOMAIN b(t) = 1..n
  <2>1. b(t) \in [1..n -> R]
    BY <1>11
  <2> HIDE DEF R
  <2>2. b(t) \in Seq(R) /\ DOMAIN b(t) = 1..n
    BY <1>5, <2>1, SeqDef
  <2> QED BY <1>5, <2>2, SameLength
<1> HIDE DEF R
<1>14. ASSUME NEW i \in 1..Len(specs)
       PROVE  Twins((a \o b(held))[i], (a \o b({}))[i])
  <2>1. \A t \in {held, {}} :
           (a \o b(t))[i] = IF i <= k THEN a[i] ELSE b(t)[i - k]
    <3> SUFFICES ASSUME NEW t \in {held, {}}
                 PROVE  (a \o b(t))[i] = IF i <= k THEN a[i] ELSE b(t)[i - k]
      OBVIOUS
    <3> DEFINE c == b(t)
    <3>1. c \in Seq(R) /\ Len(c) = n
      BY <1>13
    <3> HIDE DEF c
    <3>2. i \in 1..(Len(a) + Len(c))
      BY <1>1, <1>5, <1>12, <3>1 DEF n, k
    <3>3. \A x, y \in Seq(R) : \A j \in 1..(Len(x) + Len(y)) :
             (x \o y)[j] = IF j <= Len(x) THEN x[j] ELSE y[j - Len(x)]
      OBVIOUS
    <3>4. (a \o c)[i] = IF i <= Len(a) THEN a[i] ELSE c[i - Len(a)]
      BY <1>12, <3>1, <3>2, <3>3
    <3> QED BY <1>12, <3>4 DEF c
  <2>2. CASE i <= k
    <3>1. i \in 1..k
      BY <1>5, <2>2
    <3> QED BY <1>11, <2>1, <2>2, <3>1
  <2>3. CASE ~(i <= k)
    <3>1. i - k \in 1..n
      BY <1>1, <1>5, <2>3 DEF n, k
    <3> QED BY <1>10, <2>1, <2>3, <3>1
  <2> QED BY <2>2, <2>3
<1> QED BY <1>2, <1>14

\* A week is its trips put end to end.
Joined(parts, list) == FlattenSeq([i \in DOMAIN parts |-> parts[i][list]]) \o <<>>

Joins(w, parts, n) ==
    /\ DOMAIN w["rows"] = 1..n
    /\ \A i \in 1..n : parts[i]["rows"] = <<w["rows"][i]>>
    /\ w["offers"] = Joined(parts, "offers") /\ w["ratings"] = Joined(parts, "ratings")
    /\ DOMAIN parts = 1..n

LEMMA WeekOfParts ==
    ASSUME NEW drawn \in Seeds, NEW date \in Int, NEW open, NEW points, Servicable(open, points),
           NEW held \in SUBSET TrafficRows, NEW mapAvailable \in BOOLEAN, NEW failures
    PROVE  Joins(Generate(drawn, date, open, points, held, mapAvailable, failures),
                 Parts(Specs(drawn, date, open, points), drawn.luck, held, mapAvailable, failures),
                 HistoryDays * TripsPerDay)
<1> DEFINE specs == Specs(drawn, date, open, points)
           parts == Parts(specs, drawn.luck, held, mapAvailable, failures)
           n == HistoryDays * TripsPerDay
           Good(part, id) == Fine(part, id) /\ Consistent(part, id)
           ids == [i \in 1..n |-> CHOOSE id : Good(parts[i], id)]
           scores == HotspotHistory(date, open)
           w == Generate(drawn, date, open, points, held, mapAvailable, failures)
           names == {"rows", "offers", "ratings"}
<1>1. n \in Nat
  BY HistoryAssumption
<1>2. PICK Q : specs \in Seq(Q) /\ Len(specs) = n
  BY SpecsAreWhole
<1>3. \A i \in 1..n : drawn.luck[i] \in Lucks
  <2>1. drawn.luck \in [1..n -> Lucks]
    BY BootstrapAssumption
  <2> QED BY <2>1
<1>4. w = Together(AllOf(parts), scores)
  BY DEF Generate
<1>5. \A k \in DOMAIN specs : Decided(specs[k])
  BY SpecsAreDecided
<1> HIDE DEF specs, n
<1>6. parts = [i \in 1..n |-> parts[i]] /\ \A i \in 1..n : \E id : Good(parts[i], id)
  BY <1>2, <1>3, <1>5, PartsAreConsistent
<1> HIDE DEF parts
<1>7. \A i \in 1..n : Fine(parts[i], ids[i])
  <2>1. \A i \in 1..n : Good(parts[i], ids[i])
    BY <1>6
  <2> QED BY <2>1
<1> HIDE DEF ids
<1> DEFINE all == AllOf(parts)
<1>8. /\ DOMAIN all["rows"] = 1..n
      /\ \A i \in 1..n : all["rows"][i].id = ids[i] /\ parts[i]["rows"] = <<all["rows"][i]>>
      /\ \E P : all["rows"] \in Seq(P)
  BY <1>1, <1>6, <1>7, AllAreOnce
<1>9. \A t \in names : t \in DOMAIN Nothing /\ scores[t] = <<>>
  BY DEF HotspotHistory, Nothing
<1>10. DOMAIN parts = 1..n /\ \A t \in names : all[t] \o <<>> = Joined(parts, t)
  <2>1. DOMAIN parts = 1..n
    BY <1>6
  <2> QED BY <1>9, <2>1 DEF AllOf, Joined
<1> HIDE DEF all, scores
<1>11. \A t \in names : w[t] = all[t] \o <<>>
  BY <1>4, <1>9 DEF Together, all
<1> HIDE DEF w
<1>12. w["rows"] = all["rows"]
  <2>1. w["rows"] = all["rows"] \o <<>>
    BY <1>11
  <2> QED BY <1>8, <2>1, ConcatEmptySeq
<1>13. Joins(w, parts, n)
  BY <1>8, <1>10, <1>11, <1>12 DEF Joins
<1> QED BY <1>13 DEF w, parts, specs, n

\* So the weeks of a seed differ in when the rides end, and in nothing else.
LEMMA WeeksAreAlike ==
    ASSUME NEW drawn \in Seeds, NEW date \in Int, NEW open, NEW points, Servicable(open, points),
           NEW held \in SUBSET TrafficRows, NEW failures,
           failures = [i \in 1..Len(ToRoute(Specs(drawn, date, open, points))) |-> AllUp]
    PROVE  Alike(Generate(drawn, date, open, points, held, TRUE, failures),
                 Generate(drawn, date, open, points, {}, TRUE, failures))
<1> DEFINE specs == Specs(drawn, date, open, points)
           p == Parts(specs, drawn.luck, held, TRUE, failures)
           q == Parts(specs, drawn.luck, {}, TRUE, failures)
           n == HistoryDays * TripsPerDay
           w == Generate(drawn, date, open, points, held, TRUE, failures)
           v == Generate(drawn, date, open, points, {}, TRUE, failures)
<1>0. /\ p = Parts(Specs(drawn, date, open, points), drawn.luck, held, TRUE, failures)
      /\ q = Parts(Specs(drawn, date, open, points), drawn.luck, {}, TRUE, failures)
      /\ w = Generate(drawn, date, open, points, held, TRUE, failures)
      /\ v = Generate(drawn, date, open, points, {}, TRUE, failures)
      /\ n = HistoryDays * TripsPerDay
  OBVIOUS
<1>1. Joins(w, p, n)
  <2>1. TRUE \in BOOLEAN
    OBVIOUS
  <2> QED BY <2>1, WeekOfParts
<1>2. Joins(v, q, n)
  <2>1. TRUE \in BOOLEAN /\ {} \in SUBSET TrafficRows
    OBVIOUS
  <2> QED BY <2>1, WeekOfParts
<1>3. PICK Q : specs \in Seq(Q) /\ Len(specs) = n
  BY SpecsAreWhole
<1>4. \A i \in 1..n : drawn.luck[i] \in Lucks
  <2>1. drawn.luck \in [1..n -> Lucks]
    BY BootstrapAssumption
  <2> QED BY <2>1
<1>5. \A k \in DOMAIN specs : Decided(specs[k])
  BY SpecsAreDecided
<1>6. failures = [i \in 1..Len(ToRoute(specs)) |-> AllUp]
  OBVIOUS
<1> HIDE DEF n
<1>7. \A i \in 1..n : Twins(p[i], q[i])
  <2> HIDE DEF specs
  <2> QED BY <1>3, <1>4, <1>5, <1>6, PartsAreAlike
<1> HIDE DEF p, q, w, v, specs
<1>8. w["offers"] = v["offers"] /\ w["ratings"] = v["ratings"]
  <2>1. \A list \in {"offers", "ratings"} : Joined(p, list) = Joined(q, list)
    <3> SUFFICES ASSUME NEW list \in {"offers", "ratings"} PROVE Joined(p, list) = Joined(q, list)
      OBVIOUS
    <3>1. \A i \in 1..n : p[i][list] = q[i][list]
      BY <1>7 DEF Twins
    <3>2. DOMAIN p = 1..n /\ DOMAIN q = 1..n
      BY <1>1, <1>2 DEF Joins
    <3>3. [i \in DOMAIN p |-> p[i][list]] = [i \in DOMAIN q |-> q[i][list]]
      BY <3>1, <3>2
    <3> QED BY <3>3 DEF Joined
  <2> QED BY <1>1, <1>2, <2>1 DEF Joins
<1>9. \A i \in 1..n : Face(w["rows"][i]) = Face(v["rows"][i])
  <2> SUFFICES ASSUME NEW i \in 1..n PROVE Face(w["rows"][i]) = Face(v["rows"][i])
    OBVIOUS
  <2>1. PICK row, twin : p[i]["rows"] = <<row>> /\ q[i]["rows"] = <<twin>> /\ Face(row) = Face(twin)
    BY <1>7 DEF Twins
  <2>2. \A e, f : <<e>> = <<f>> => e = f
    OBVIOUS
  <2>3. <<row>> = <<w["rows"][i]>> /\ <<twin>> = <<v["rows"][i]>>
    <3>1. p[i]["rows"] = <<w["rows"][i]>> /\ q[i]["rows"] = <<v["rows"][i]>>
      BY <1>1, <1>2 DEF Joins
    <3> QED BY <2>1, <3>1
  <2>4. row = w["rows"][i] /\ twin = v["rows"][i]
    BY <2>2, <2>3, Zenon
  <2> QED BY <2>1, <2>4
<1>10. Faces(w["rows"]) = Faces(v["rows"])
  BY <1>1, <1>2, <1>9 DEF Joins, Faces
<1>11. Alike(w, v)
  BY <1>8, <1>10 DEF Alike
<1> QED BY <1>11 DEF w, v

\* If one of two such weeks has an id twice, both have.
LEMMA AlikeDuplicates ==
    ASSUME NEW w, NEW v, Alike(w, v)
    PROVE  HasDuplicates(w) <=> HasDuplicates(v)
<1>1. DOMAIN w["rows"] = DOMAIN v["rows"]
      /\ \A i \in DOMAIN w["rows"] : w["rows"][i].id = v["rows"][i].id
  <2>1. \A x : DOMAIN Faces(x) = DOMAIN x /\ \A i \in DOMAIN x : Faces(x)[i].id = x[i].id
    BY DEF Faces, Face
  <2> QED BY <2>1 DEF Alike
<1> QED BY <1>1 DEF HasDuplicates

\* The zones that a road reaches, their road points, the week invented on them
\* in some traffic, and without any.
Reached == {z \in Zones : MetresTo[CentreOf[z]] <= MaxSnap}
Kerbs == BuildRoadPointPools(TRUE, Reached, [z \in Reached |-> {}])
NoneLost == [i \in 1..Len(ToRoute(Specs(seed, 0, Reached, Kerbs))) |-> AllUp]
WeekIn(held) == Generate(seed, 0, Reached, Kerbs, held, TRUE, NoneLost)
TheWeek == WeekIn({})

\* The lists of a week fit one another: each trip has the acceptance and the
\* ratings its row calls for, its offers are told apart by their numbers, and
\* the warehouse's events are rows of trips.
Takers(list, id) ==
    {o.offer.driver : o \in {p \in Rows(list) : p.trip = id /\ p.offer.status = "accepted"}}

Fits(w) ==
    /\ \A list \in {"rows", "offers", "ratings", "trip_events"} : \E Q : w[list] \in Seq(Q)
    /\ \A row, other \in Rows(w["rows"]) : row.id = other.id => row = other
    /\ \A o, p \in Rows(w["offers"]) :
          o.trip = p.trip /\ o.offer.sequence = p.offer.sequence => o = p
    /\ \A row \in Rows(w["rows"]) :
          /\ Takers(w["offers"], row.id) = (IF row.driver = None THEN {} ELSE {row.driver})
          /\ row.status = "completed" => \A who \in {"rider", "driver"} :
                 [trip |-> row.id, rater |-> who] \in Rows(w["ratings"])
    /\ \A e \in Rows(w["trip_events"]) : e.row \in Rows(w["rows"])

\* With no query lost the zones that are open are those a road reaches, or none.
CityIsOne ==
    /\ lost \in Nat
    /\ lost = 0 => /\ Open = {} \/ Reached \subseteq Open
                   /\ pc \in {"calibrate", "traffic", "generate"} => grid = Reached /\ pools = Kerbs

\* How far a table has got: row by row at its own stage, and all of the list at
\* the later ones, or once they have been passed.
Holds(table, list, stage, later) ==
    /\ table \subseteq Rows(list)
    /\ pc = stage => First(list, done) \subseteq table
    /\ pc \in later \/ marker => Rows(list) \subseteq table

Storing == {"trips", "offers", "ratings", "warehouse", "load", "marker_set"}

StoresHold ==
    /\ Holds(Shown(trips), Faces(TheWeek["rows"]), "trips", Storing \ {"trips"})
    /\ Holds(offers, TheWeek["offers"], "offers", {"ratings", "warehouse", "load", "marker_set"})
    /\ Holds(ratings, TheWeek["ratings"], "ratings", {"warehouse", "load", "marker_set"})
    /\ Shown(Events) \subseteq Rows(Faces(TheWeek["rows"]))
    /\ pc = "marker_set" \/ marker => warehouse["trip_events"] # <<>>

DayHolds ==
    /\ pc \in Storing \cup {"duplicates"} => Alike(week, TheWeek)
    /\ pc = "duplicates" => HasDuplicates(TheWeek) \/ (Fits(week) /\ Fits(TheWeek))
    /\ pc \in Storing => Fits(week)
    /\ pc \in Storing \/ marker => Fits(TheWeek)
    /\ StoresHold

StoresKept == lost = 0 /\ today = 0 => DayHolds

\* What one of the lists has is there when they are put end to end.
LEMMA FlattenHas ==
    ASSUME NEW R, NEW s \in Seq(Seq(R))
    PROVE  \A i \in DOMAIN s : \A j \in DOMAIN s[i] :
              \E k \in DOMAIN FlattenSeq(s) : FlattenSeq(s)[k] = s[i][j]
<1>9. \A a, b \in Seq(R) :
         /\ \A k \in DOMAIN a : k \in DOMAIN (a \o b) /\ (a \o b)[k] = a[k]
         /\ \A k \in DOMAIN b : Len(a) + k \in DOMAIN (a \o b) /\ (a \o b)[Len(a) + k] = b[k]
  BY Concats
<1>1. PICK p : Grows(p, s, R)
  BY FlattenGrows
<1> DEFINE n == Len(s)
           S == {m \in 0..n : \A i \in 1..m : \A j \in DOMAIN s[i] :
                                 \E k \in DOMAIN p[m] : p[m][k] = s[i][j]}
<1>2. n \in Nat /\ DOMAIN s = 1..n /\ \A i \in 1..n : s[i] \in Seq(R)
  OBVIOUS
<1>3. /\ p \in [0..n -> Seq(R)] /\ p[n] = FlattenSeq(s)
      /\ \A i \in 1..n : p[i] = p[i - 1] \o s[i]
  BY <1>1 DEF Grows
<1> HIDE DEF n
<1>4. 0 \in S
  <2>1. 0 \in 0..n /\ \A i \in 1..0 : FALSE
    BY <1>2
  <2> QED BY <2>1
<1>5. ASSUME NEW m \in 0..(n - 1), m \in S
      PROVE  m + 1 \in S
  <2>1. m + 1 \in 0..n /\ m + 1 \in 1..n /\ m \in 0..n /\ (m + 1) - 1 = m
    BY <1>2
  <2>2. p[m] \in Seq(R) /\ s[m + 1] \in Seq(R)
    BY <1>2, <1>3, <2>1
  <2>3. p[m + 1] = p[(m + 1) - 1] \o s[m + 1]
    BY <1>3, <2>1
  <2>4. p[m + 1] = p[m] \o s[m + 1]
    BY <2>1, <2>3
  <2> DEFINE a == p[m]
             b == s[m + 1]
  <2>5. /\ \A k \in DOMAIN a : k \in DOMAIN (a \o b) /\ (a \o b)[k] = a[k]
        /\ \A k \in DOMAIN b : Len(a) + k \in DOMAIN (a \o b) /\ (a \o b)[Len(a) + k] = b[k]
    <3>1. a \in Seq(R) /\ b \in Seq(R)
      BY <2>2
    <3> HIDE DEF a, b
    <3> QED BY <1>9, <3>1, Zenon
  <2>6. ASSUME NEW i \in 1..(m + 1), NEW j \in DOMAIN s[i]
        PROVE  \E k \in DOMAIN p[m + 1] : p[m + 1][k] = s[i][j]
    <3>1. CASE i = m + 1
      <4>1. j \in DOMAIN b /\ s[i][j] = b[j]
        BY <3>1
      <4> QED BY <2>4, <2>5, <4>1
    <3>2. CASE i # m + 1
      <4>1. i \in 1..m
        BY <2>1, <3>2
      <4>2. PICK k \in DOMAIN p[m] : p[m][k] = s[i][j]
        BY <1>5, <4>1
      <4> QED BY <2>4, <2>5, <4>2
    <3> QED BY <3>1, <3>2
  <2> QED BY <2>1, <2>6
<1> HIDE DEF S
<1>6. \A m \in 0..n : m \in S
  BY <1>2, <1>4, <1>5, AllUpTo
<1>7. n \in S
  BY <1>2, <1>6
<1> QED BY <1>2, <1>3, <1>7 DEF S

\* The offers of a trip are those that name it.
LEMMA OffersOfTrip ==
    ASSUME NEW R, NEW x \in Seq(R), NEW id
    PROVE  Rows(OffersOf(x, id)) = {o \in Rows(x) : o.trip = id}
<1> DEFINE s == Kept(x, id)
           all == OffersOf(x, id)
<1>1. /\ s \in Seq(Seq(R)) /\ DOMAIN s = DOMAIN x
      /\ \A i \in DOMAIN x : s[i] = IF x[i].trip = id THEN <<x[i]>> ELSE <<>>
      /\ all = FlattenSeq(s)
  BY KeptAreLists
<1> HIDE DEF s, all
<1>2. DOMAIN <<>> = {} /\ \A e : DOMAIN <<e>> = {1} /\ <<e>>[1] = e
  OBVIOUS
<1>3. ASSUME NEW o \in Rows(all)
      PROVE  o \in Rows(x) /\ o.trip = id
  <2>1. PICK k \in DOMAIN all : o = all[k]
    BY DEF Rows
  <2>2. PICK i \in DOMAIN s : \E j \in DOMAIN s[i] : all[k] = s[i][j]
    BY <1>1, <2>1, FlattenFrom
  <2>3. PICK j \in DOMAIN s[i] : all[k] = s[i][j]
    BY <2>2
  <2>4. i \in DOMAIN x /\ x[i].trip = id /\ s[i] = <<x[i]>>
    BY <1>1, <1>2, <2>2, <2>3
  <2>5. s[i][j] = x[i]
    BY <1>2, <2>3, <2>4
  <2> QED BY <2>1, <2>3, <2>4, <2>5 DEF Rows
<1>4. ASSUME NEW o \in Rows(x), o.trip = id
      PROVE  o \in Rows(all)
  <2>1. PICK i \in DOMAIN x : o = x[i]
    BY DEF Rows
  <2>2. i \in DOMAIN s /\ s[i] = <<o>>
    BY <1>1, <1>4, <2>1
  <2>3. 1 \in DOMAIN s[i] /\ s[i][1] = o
    BY <1>2, <2>2
  <2>4. PICK k \in DOMAIN FlattenSeq(s) : FlattenSeq(s)[k] = s[i][1]
    BY <1>1, <2>2, <2>3, FlattenHas
  <2> QED BY <1>1, <2>3, <2>4 DEF Rows
<1>5. Rows(all) = {o \in Rows(x) : o.trip = id}
  BY <1>3, <1>4
<1> QED BY <1>5 DEF all

\* Of a trip that fits together, one offer was accepted, by its driver, or none and it has
\* no driver; and its offers are told apart by their numbers.
LEMMA ConsistentFits ==
    ASSUME NEW w, NEW R, w["offers"] \in Seq(R), NEW row,
           TripIsConsistent(w, row, Chain(w, row.id))
    PROVE  /\ Takers(w["offers"], row.id) = (IF row.driver = None THEN {} ELSE {row.driver})
           /\ \A o, p \in Rows(w["offers"]) :
                 o.trip = row.id /\ p.trip = row.id /\ o.offer.sequence = p.offer.sequence => o = p
<1> DEFINE mine == OffersOf(w["offers"], row.id)
           chain == Chain(w, row.id)
<1>1. Rows(mine) = {o \in Rows(w["offers"]) : o.trip = row.id}
  BY OffersOfTrip
<1>2. DOMAIN chain = DOMAIN mine /\ \A i \in DOMAIN mine : chain[i] = mine[i].offer
  BY DEF Chain
<1>3. \E start, end : WellLaid(chain, start, end)
  BY DEF TripIsConsistent
<1>4. /\ row.status = "no_driver_found" => row.driver = None /\ Accepted(chain) = {}
      /\ row.status # "no_driver_found" =>
            row.driver # None /\ Accepted(chain) # {} /\ chain[Len(chain)].driver = row.driver
  BY DEF TripIsConsistent
<1> HIDE DEF mine, chain
<1>5. \A i \in DOMAIN chain : chain[i].sequence = i /\ (chain[i].status = "accepted" => i = Len(chain))
  BY <1>3 DEF WellLaid
<1>6. Takers(w["offers"], row.id) = {chain[i].driver : i \in Accepted(chain)}
  <2>1. Takers(w["offers"], row.id)
          = {o.offer.driver : o \in {p \in Rows(mine) : p.offer.status = "accepted"}}
    BY <1>1 DEF Takers
  <2>2. {o.offer.driver : o \in {p \in Rows(mine) : p.offer.status = "accepted"}}
          = {chain[i].driver : i \in Accepted(chain)}
    BY <1>2 DEF Rows, Accepted
  <2> QED BY <2>1, <2>2
<1>7. Takers(w["offers"], row.id) = (IF row.driver = None THEN {} ELSE {row.driver})
  <2>1. CASE row.status = "no_driver_found"
    BY <1>4, <1>6, <2>1
  <2>2. CASE row.status # "no_driver_found"
    <3>1. \A i \in Accepted(chain) : chain[i].driver = row.driver
      BY <1>4, <1>5, <2>2 DEF Accepted
    <3> QED BY <1>4, <1>6, <2>2, <3>1
  <2> QED BY <2>1, <2>2
<1>8. ASSUME NEW o \in Rows(w["offers"]), NEW p \in Rows(w["offers"]),
             o.trip = row.id, p.trip = row.id, o.offer.sequence = p.offer.sequence
      PROVE  o = p
  <2>1. o \in Rows(mine) /\ p \in Rows(mine)
    BY <1>1, <1>8
  <2>2. PICK i \in DOMAIN mine : o = mine[i]
    BY <2>1 DEF Rows
  <2>3. PICK j \in DOMAIN mine : p = mine[j]
    BY <2>1 DEF Rows
  <2>4. chain[i] = o.offer /\ chain[j] = p.offer /\ i \in DOMAIN chain /\ j \in DOMAIN chain
    BY <1>2, <2>2, <2>3
  <2>5. i = j
    BY <1>5, <1>8, <2>4
  <2> QED BY <2>2, <2>3, <2>5
<1> QED BY <1>7, <1>8

\* A list of the week and what each trip added to it.
Gathers(list, lists, n) ==
    /\ DOMAIN lists = 1..n /\ \E Q : list \in Seq(Q)
    /\ \A e \in Rows(list) : \E i \in 1..n : e \in Rows(lists[i])
    /\ \A i \in 1..n : Rows(lists[i]) \subseteq Rows(list)

LEMMA FlattenGathers ==
    ASSUME NEW n \in Nat, NEW s, s = [i \in 1..n |-> s[i]], \A i \in 1..n : \E Q : s[i] \in Seq(Q)
    PROVE  Gathers(FlattenSeq(s) \o <<>>, s, n)
<1>1. PICK R : s \in Seq(Seq(R))
  BY ListsOfLists
<1> DEFINE all == FlattenSeq(s)
<1>2. /\ all \in Seq(R)
      /\ \A k \in DOMAIN all : \E i \in DOMAIN s : \E j \in DOMAIN s[i] : all[k] = s[i][j]
      /\ \A i \in DOMAIN s : \A j \in DOMAIN s[i] : \E k \in DOMAIN all : all[k] = s[i][j]
  <2>1. FlattenSeq(s) \in Seq(R) /\ \A k \in DOMAIN FlattenSeq(s) :
           \E i \in DOMAIN s : \E j \in DOMAIN s[i] : FlattenSeq(s)[k] = s[i][j]
    BY <1>1, FlattenFrom
  <2>2. \A i \in DOMAIN s : \A j \in DOMAIN s[i] :
           \E k \in DOMAIN FlattenSeq(s) : FlattenSeq(s)[k] = s[i][j]
    BY <1>1, FlattenHas
  <2> QED BY <2>1, <2>2
<1>3. DOMAIN s = 1..n
  OBVIOUS
<1> HIDE DEF all
<1>4. all \o <<>> = all
  BY <1>2, ConcatEmptySeq
<1>5. \A e \in Rows(all) : \E i \in 1..n : e \in Rows(s[i])
  <2> SUFFICES ASSUME NEW e \in Rows(all) PROVE \E i \in 1..n : e \in Rows(s[i])
    OBVIOUS
  <2>1. PICK k \in DOMAIN all : e = all[k]
    BY DEF Rows
  <2>2. PICK i \in DOMAIN s : \E j \in DOMAIN s[i] : all[k] = s[i][j]
    BY <1>2
  <2> QED BY <1>3, <2>1, <2>2 DEF Rows
<1>6. \A i \in 1..n : Rows(s[i]) \subseteq Rows(all)
  BY <1>2, <1>3 DEF Rows
<1>7. Gathers(all, s, n)
  BY <1>2, <1>3, <1>5, <1>6 DEF Gathers
<1> QED BY <1>4, <1>7 DEF all

\* Whatever is drawn and whatever fails, a week has an id twice or its lists fit.
LEMMA GeneratedFits ==
    ASSUME NEW drawn \in Seeds, NEW date \in Int, NEW open, NEW points, Servicable(open, points),
           NEW held \in SUBSET TrafficRows, NEW mapAvailable \in BOOLEAN, NEW failures
    PROVE  LET w == Generate(drawn, date, open, points, held, mapAvailable, failures)
           IN  HasDuplicates(w) \/ Fits(w)
<1> DEFINE specs == Specs(drawn, date, open, points)
           parts == Parts(specs, drawn.luck, held, mapAvailable, failures)
           n == HistoryDays * TripsPerDay
           Good(part, id) == Fine(part, id) /\ Consistent(part, id)
           ids == [i \in 1..n |-> CHOOSE id : Good(parts[i], id)]
           scores == HotspotHistory(date, open)
           w == Generate(drawn, date, open, points, held, mapAvailable, failures)
           lists(t) == [i \in 1..n |-> parts[i][t]]
           names == {"offers", "ratings", "trip_events"}
<1> SUFFICES ASSUME ~HasDuplicates(w) PROVE Fits(w)
  OBVIOUS
<1>0. WellFormed(w)
  BY GeneratedIsConsistent
<1>1. n \in Nat
  BY HistoryAssumption
<1>2. PICK Q : specs \in Seq(Q) /\ Len(specs) = n
  BY SpecsAreWhole
<1>3. \A i \in 1..n : drawn.luck[i] \in Lucks
  <2>1. drawn.luck \in [1..n -> Lucks]
    BY BootstrapAssumption
  <2> QED BY <2>1
<1>4. w = Together(AllOf(parts), scores)
  BY DEF Generate
<1>5. \A k \in DOMAIN specs : Decided(specs[k])
  BY SpecsAreDecided
<1> HIDE DEF specs, n
<1>6. parts = [i \in 1..n |-> parts[i]] /\ \A i \in 1..n : \E id : Good(parts[i], id)
  BY <1>2, <1>3, <1>5, PartsAreConsistent
<1> HIDE DEF parts
<1>7. \A i \in 1..n : Fine(parts[i], ids[i]) /\ Consistent(parts[i], ids[i])
  <2>1. \A i \in 1..n : Good(parts[i], ids[i])
    BY <1>6
  <2> QED BY <2>1
<1> HIDE DEF ids
<1> DEFINE all == AllOf(parts)
<1>8. /\ DOMAIN all["rows"] = 1..n
      /\ \A i \in 1..n : all["rows"][i].id = ids[i] /\ parts[i]["rows"] = <<all["rows"][i]>>
      /\ \E P : all["rows"] \in Seq(P)
  BY <1>1, <1>6, <1>7, AllAreOnce
<1>9. \A t \in names \cup {"rows"} : t \in DOMAIN Nothing /\ scores[t] = <<>>
  BY DEF HotspotHistory, Nothing
<1>10. \A t \in names : all[t] = FlattenSeq(lists(t))
  <2>1. DOMAIN parts = 1..n
    BY <1>6
  <2> QED BY <1>9, <2>1 DEF AllOf
<1> HIDE DEF all, scores
<1>11. \A t \in names \cup {"rows"} : w[t] = all[t] \o <<>>
  BY <1>4, <1>9 DEF Together, all
<1> HIDE DEF w
<1>12. w["rows"] = all["rows"]
  <2>1. w["rows"] = all["rows"] \o <<>>
    BY <1>11
  <2> QED BY <1>8, <2>1, ConcatEmptySeq
<1>13. \A t \in names : Gathers(w[t], lists(t), n)
  <2> SUFFICES ASSUME NEW t \in names PROVE Gathers(w[t], lists(t), n)
    OBVIOUS
  <2> DEFINE s == lists(t)
  <2>1. \A i \in 1..n : \E P : s[i] \in Seq(P)
    <3> SUFFICES ASSUME NEW i \in 1..n PROVE \E P : parts[i][t] \in Seq(P)
      OBVIOUS
    <3>1. CASE t \in {"offers", "ratings"}
      BY <1>7, <3>1 DEF Consistent
    <3>2. CASE t = "trip_events"
      <4>1. About("trip_events", parts[i]["trip_events"], ids[i])
        BY <1>7 DEF Fine, TableNames
      <4> QED BY <3>2, <4>1 DEF About, Once
    <3> QED BY <3>1, <3>2
  <2>2. s = [i \in 1..n |-> s[i]]
    OBVIOUS
  <2>3. w[t] = FlattenSeq(s) \o <<>>
    BY <1>10, <1>11
  <2> HIDE DEF s
  <2>4. Gathers(FlattenSeq(s) \o <<>>, s, n)
    BY <1>1, <2>1, <2>2, FlattenGathers
  <2> QED BY <2>3, <2>4 DEF s
<1>14. \A t \in names : \A i \in 1..n : lists(t)[i] = parts[i][t]
  OBVIOUS
<1> HIDE DEF lists
<1>15. \A i \in 1..n :
          /\ \A k \in DOMAIN parts[i]["offers"] : parts[i]["offers"][k].trip = ids[i]
          /\ parts[i]["trip_events"] = <<EventRow(w["rows"][i])>>
          /\ w["rows"][i].status = "completed" => \A who \in {"rider", "driver"} :
                \E k \in DOMAIN parts[i]["ratings"] :
                   parts[i]["ratings"][k] = [trip |-> ids[i], rater |-> who]
  <2> SUFFICES ASSUME NEW i \in 1..n
               PROVE  /\ \A k \in DOMAIN parts[i]["offers"] : parts[i]["offers"][k].trip = ids[i]
                      /\ parts[i]["trip_events"] = <<EventRow(w["rows"][i])>>
                      /\ w["rows"][i].status = "completed" => \A who \in {"rider", "driver"} :
                            \E k \in DOMAIN parts[i]["ratings"] :
                               parts[i]["ratings"][k] = [trip |-> ids[i], rater |-> who]
    OBVIOUS
  <2>1. PICK row : /\ parts[i]["rows"] = <<row>> /\ parts[i]["trip_events"] = <<EventRow(row)>>
                   /\ \A k \in DOMAIN parts[i]["offers"] : parts[i]["offers"][k].trip = ids[i]
                   /\ row.status = "completed" => \A who \in {"rider", "driver"} :
                         \E k \in DOMAIN parts[i]["ratings"] :
                            parts[i]["ratings"][k] = [trip |-> ids[i], rater |-> who]
    BY <1>7 DEF Consistent
  <2>2. row = w["rows"][i]
    <3>1. \A e, f : <<e>> = <<f>> => e = f
      OBVIOUS
    <3> QED BY <1>8, <1>12, <2>1, <3>1, Zenon
  <2> QED BY <2>1, <2>2
<1>16. \A i \in 1..n :
          /\ Takers(w["offers"], ids[i])
               = (IF w["rows"][i].driver = None THEN {} ELSE {w["rows"][i].driver})
          /\ \A o, p \in Rows(w["offers"]) :
                o.trip = ids[i] /\ p.trip = ids[i] /\ o.offer.sequence = p.offer.sequence => o = p
  <2> SUFFICES ASSUME NEW i \in 1..n
               PROVE  /\ Takers(w["offers"], ids[i])
                           = (IF w["rows"][i].driver = None THEN {} ELSE {w["rows"][i].driver})
                      /\ \A o, p \in Rows(w["offers"]) :
                            o.trip = ids[i] /\ p.trip = ids[i]
                            /\ o.offer.sequence = p.offer.sequence => o = p
    OBVIOUS
  <2> DEFINE row == w["rows"][i]
  <2>1. row.id = ids[i] /\ TripIsConsistent(w, row, Chain(w, row.id))
    BY <1>0, <1>8, <1>12 DEF WellFormed
  <2>2. PICK R : w["offers"] \in Seq(R)
    BY <1>13 DEF Gathers
  <2> HIDE DEF row
  <2>3. /\ Takers(w["offers"], row.id) = (IF row.driver = None THEN {} ELSE {row.driver})
        /\ \A o, p \in Rows(w["offers"]) :
              o.trip = row.id /\ p.trip = row.id /\ o.offer.sequence = p.offer.sequence => o = p
    BY <2>1, <2>2, ConsistentFits
  <2> QED BY <2>1, <2>3 DEF row
<1>17. \A row \in Rows(w["rows"]) : \E i \in 1..n : row = w["rows"][i] /\ row.id = ids[i]
  BY <1>8, <1>12 DEF Rows
<1>18. \A row, other \in Rows(w["rows"]) : row.id = other.id => row = other
  BY DEF HasDuplicates, Rows
<1>19. ASSUME NEW o \in Rows(w["offers"]), NEW p \in Rows(w["offers"]),
              o.trip = p.trip, o.offer.sequence = p.offer.sequence
       PROVE  o = p
  <2>1. PICK i \in 1..n : o \in Rows(parts[i]["offers"])
    BY <1>13, <1>14 DEF Gathers
  <2>2. o.trip = ids[i]
    BY <1>15, <2>1 DEF Rows
  <2> QED BY <1>16, <1>19, <2>2
<1>20. ASSUME NEW row \in Rows(w["rows"])
       PROVE  /\ Takers(w["offers"], row.id) = (IF row.driver = None THEN {} ELSE {row.driver})
              /\ row.status = "completed" => \A who \in {"rider", "driver"} :
                     [trip |-> row.id, rater |-> who] \in Rows(w["ratings"])
  <2>1. PICK i \in 1..n : row = w["rows"][i] /\ row.id = ids[i]
    BY <1>17
  <2>2. ASSUME row.status = "completed", NEW who \in {"rider", "driver"}
        PROVE  [trip |-> row.id, rater |-> who] \in Rows(w["ratings"])
    <3>1. PICK k \in DOMAIN parts[i]["ratings"] :
             parts[i]["ratings"][k] = [trip |-> ids[i], rater |-> who]
      BY <1>15, <2>1, <2>2
    <3>2. [trip |-> ids[i], rater |-> who] \in Rows(parts[i]["ratings"])
      BY <3>1 DEF Rows
    <3>3. Rows(parts[i]["ratings"]) \subseteq Rows(w["ratings"])
      BY <1>13, <1>14 DEF Gathers
    <3> QED BY <2>1, <3>2, <3>3
  <2> QED BY <1>16, <2>1, <2>2
<1>21. ASSUME NEW e \in Rows(w["trip_events"])
       PROVE  e.row \in Rows(w["rows"])
  <2>1. PICK i \in 1..n : e \in Rows(parts[i]["trip_events"])
    BY <1>13, <1>14 DEF Gathers
  <2>2. e = EventRow(w["rows"][i])
    <3>1. \A f : Rows(<<f>>) = {f}
      BY DEF Rows
    <3> QED BY <1>15, <2>1, <3>1
  <2>3. e.row = w["rows"][i]
    BY <2>2 DEF EventRow
  <2> QED BY <1>8, <1>12, <2>3 DEF Rows
<1>22. \A list \in {"rows", "offers", "ratings", "trip_events"} : \E P : w[list] \in Seq(P)
  BY <1>8, <1>12, <1>13 DEF Gathers
<1>23. Fits(w)
  BY <1>18, <1>19, <1>20, <1>21, <1>22 DEF Fits
<1> QED BY <1>23 DEF w

\* The grid lists the zones, so there are finitely many.
LEMMA ZonesAreFinite == IsFiniteSet(Zones)
<1> DEFINE n == Len(ZoneOrder)
           order == [i \in 1..n |-> ZoneOrder[i]]
<1>1. n \in Nat /\ DOMAIN ZoneOrder = 1..n /\ order \in [1..n -> Zones]
      /\ \A z \in Zones : \E i \in 1..n : order[i] = z
  BY HistoryAssumption
<1> HIDE DEF order, n
<1>2. order \in Surjection(1..n, Zones)
  BY <1>1 DEF Surjection
<1>3. IsFiniteSet(1..n)
  BY <1>1, FS_Interval
<1> QED BY <1>2, <1>3, FS_Surjection

\* Calls that are lost are counted: none is, if the count is still nothing.
LEMMA LossesCount ==
    ASSUME NEW S, IsFiniteSet(S), NEW L \in SUBSET S, NEW before \in Nat
    PROVE  /\ before + Cardinality(L) \in Nat
           /\ before + Cardinality(L) = 0 => before = 0 /\ L = {}
<1>1. IsFiniteSet(L)
  BY FS_Subset
<1>2. Cardinality(L) \in Nat /\ (Cardinality(L) = 0 => L = {})
  BY <1>1, FS_CardinalityType, FS_EmptySet
<1> QED BY <1>2

\* Zones are inserted together, and without a lost query those with a road stay.
LEMMA ZonesAreOne ==
    ASSUME Inductive, CityIsOne, InsertZones \/ CloseZones
    PROVE  CityIsOne' /\ (lost' = 0 => lost = 0)
<1>1. pc' \in {"close", "people", "off"}
  BY DEF InsertZones, CloseZones, Fail
<1>2. CASE InsertZones
  <2>1. lost' = lost
    BY <1>2 DEF InsertZones
  <2>2. zones' = zones \/ zones' = [z \in Zones |-> IF zones[z] = "none" /\ z \in SourceZones
                                                    THEN "open" ELSE zones[z]]
    BY <1>2 DEF InsertZones
  <2>3. ASSUME lost = 0
        PROVE  Open' = {} \/ Reached \subseteq Open'
    <3>1. Open = {} \/ Reached \subseteq Open
      BY <2>3 DEF CityIsOne
    <3>2. Open \subseteq Open'
      BY <2>2 DEF Open
    <3>3. CASE Open = {} /\ Open' # {}
      <4>1. PICK z \in Zones : zones'[z] = "open" /\ zones[z] # "open"
        BY <3>3 DEF Open
      <4>2. zones[z] = "none" /\ z \in SourceZones
        BY <2>2, <4>1
      <4>3. SourceZones = Zones
        BY <4>2 DEF SourceZones
      <4>4. \A y \in Zones : zones[y] = "none"
        BY <4>2 DEF Inductive, CityKept
      <4>5. \A y \in Zones : zones'[y] = "open"
        BY <2>2, <4>1, <4>3, <4>4
      <4> QED BY <4>5 DEF Open, Reached
    <3> QED BY <3>1, <3>2, <3>3
  <2> QED BY <1>1, <2>1, <2>3 DEF CityIsOne, Reached
<1>3. CASE CloseZones
  <2>1. PICK L \in MayLose(SourceZones) :
          /\ zones' = [z \in Zones |->
                 IF z \in SourceZones
                    /\ NearestRoadPoint(Network, CentreOf[z], MaxSnap,
                                        IF z \in L THEN Down ELSE Up) = NoPoint
                 THEN "closed" ELSE zones[z]]
          /\ lost' = lost + Cardinality(L)
    BY <1>3 DEF CloseZones, Lose
  <2>2. L \in SUBSET Zones
    BY DEF MayLose, SourceZones
  <2>3. lost' \in Nat /\ (lost' = 0 => lost = 0 /\ L = {})
    BY <2>1, <2>2, ZonesAreFinite, LossesCount DEF CityIsOne
  <2>4. ASSUME lost = 0, L = {}, Open' # {}
        PROVE  Reached \subseteq Open'
    <3>1. Network /\ graph' = graph
      BY <1>3, <2>4, OpenNeedsNetwork DEF CloseZones, Network
    <3>2. Open # {}
      BY <2>1, <2>4 DEF Open
    <3>3. \A z \in Reached : zones[z] = "open"
      BY <2>4, <3>2 DEF CityIsOne, Open
    <3>4. \A z \in Reached : NearestRoadPoint(TRUE, CentreOf[z], MaxSnap, Up) # NoPoint
      <4> SUFFICES ASSUME NEW z \in Reached
                   PROVE  NearestRoadPoint(TRUE, CentreOf[z], MaxSnap, Up) # NoPoint
        OBVIOUS
      <4>1. CentreOf[z] \in Points /\ MetresTo[CentreOf[z]] <= MaxSnap
        BY RoutingAssumption DEF Reached
      <4>2. NearestTo[CentreOf[z]] \in Corners /\ NoPoint \notin Corners
        BY <4>1, RoutingAssumption
      <4> QED BY <4>1, <4>2 DEF NearestRoadPoint, QueryWithRetry, Up, RouteQueryAttempts
    <3>5. ASSUME NEW z \in Reached
          PROVE  zones'[z] = "open"
      <4>1. z \in Zones /\ z \notin L /\ Network = TRUE
        BY <2>4, <3>1 DEF Reached, Network
      <4>2. NearestRoadPoint(Network, CentreOf[z], MaxSnap, IF z \in L THEN Down ELSE Up) # NoPoint
        BY <3>4, <4>1
      <4> QED BY <2>1, <3>3, <4>1, <4>2
    <3> QED BY <3>5 DEF Open, Reached
  <2> QED BY <1>1, <2>3, <2>4 DEF CityIsOne, Reached
<1> QED BY <1>2, <1>3

\* So the grid is the zones a road reaches, each with the point it always has.
LEMMA PeopleAreOne ==
    ASSUME Inductive, Streets, CityIsOne, SeedPeople
    PROVE  CityIsOne' /\ (lost' = 0 => lost = 0)
<1> DEFINE open == {z \in Zones : zones[z] = "open"}
           points(L) == BuildRoadPointPools(Network, open,
                            [z \in open |-> {q \in PointQueries : <<z, q>> \in L}])
<1>1. PICK L \in MayLose(open \X PointQueries) :
         /\ lost' = lost + Cardinality(L)
         /\ IF open = {} \/ (\E z \in open : points(L)[z] = Refused)
            THEN Fail /\ people' = people
            ELSE /\ people' = IF DOMAIN people = Drivers THEN people
                              ELSE [d \in Drivers |-> points(L)[PickZone(open, seed.home[d])]]
                 /\ grid' = open /\ pools' = points(L)
                 /\ pc' = "calibrate" /\ UNCHANGED <<week, done>>
  BY Zenon DEF SeedPeople, Lose
<1>2. open = Open /\ Open' = Open
  BY DEF Open, SeedPeople
<1>3. lost' \in Nat /\ (lost' = 0 => lost = 0 /\ L = {})
  <2>1. IsFiniteSet(open)
    BY ZonesAreFinite, FS_Subset
  <2>2. IsFiniteSet(PointQueries)
    <3>1. PointQueries = {"drawn", "centre"} \cup ({"vertex", "unlimited"} \cup {"count"})
      BY DEF PointQueries
    <3>2. \A a, b : IsFiniteSet({a, b})
      <4> SUFFICES ASSUME NEW a, NEW b PROVE IsFiniteSet({a, b})
        OBVIOUS
      <4>1. {a, b} = {a} \cup {b}
        OBVIOUS
      <4>2. IsFiniteSet({a}) /\ IsFiniteSet({b})
        BY FS_Singleton
      <4>3. IsFiniteSet({a} \cup {b})
        BY <4>2, FS_Union
      <4> QED BY <4>1, <4>3
    <3>3. IsFiniteSet({"vertex", "unlimited"} \cup {"count"})
      BY <3>2, FS_Singleton, FS_Union
    <3> QED BY <3>1, <3>2, <3>3, FS_Union
  <2>3. IsFiniteSet(open \X PointQueries)
    BY <2>1, <2>2, FS_Product
  <2>4. L \in SUBSET (open \X PointQueries) /\ lost \in Nat
    BY DEF MayLose, CityIsOne
  <2> HIDE DEF open
  <2> QED BY <1>1, <2>3, <2>4, LossesCount
<1>4. pc' # "calibrate" => pc' = "off"
  BY <1>1 DEF Fail
<1>5. ASSUME lost = 0, L = {}, pc' = "calibrate"
      PROVE  grid' = Reached /\ pools' = Kerbs
  <2>1. open # {} /\ grid' = open /\ pools' = points(L)
    BY <1>1, <1>5 DEF Fail
  <2>2. Network = TRUE
    BY <1>2, <2>1 DEF Streets, SeedPeople, Network
  <2>3. open = Reached
    <3>1. pc = "people"
      BY DEF SeedPeople
    <3>2. \A z \in Open : MetresTo[CentreOf[z]] <= MaxSnap
      BY <3>1 DEF Inductive, CityKept
    <3> QED BY <1>2, <1>5, <2>1, <3>2 DEF CityIsOne, Reached, Open
  <2> HIDE DEF open
  <2>4. [z \in open |-> {q \in PointQueries : <<z, q>> \in L}] = [z \in open |-> {}]
    BY <1>5
  <2>5. points(L) = Kerbs
    BY <2>2, <2>3, <2>4 DEF Kerbs
  <2> QED BY <2>1, <2>3, <2>5
<1> HIDE DEF open, points
<1> QED BY <1>2, <1>3, <1>4, <1>5 DEF CityIsOne, Reached, Kerbs

\* With the map there and every answer in, what is generated is the week in
\* the traffic of that run.
LEMMA FailuresCount ==
    ASSUME NEW n \in Nat, NEW failures \in [1..n -> Failures], NEW before \in Nat, NEW mapLost \in BOOLEAN
    PROVE  LET calls == LostIn(failures) + (IF mapLost THEN 1 ELSE 0)
           IN  /\ before + calls \in Nat
               /\ before + calls = 0 => before = 0 /\ ~mapLost /\ failures = [i \in 1..n |-> AllUp]
<1> DEFINE S == {i \in DOMAIN failures : failures[i] # AllUp}
<1>1. S \in SUBSET (1..n) /\ IsFiniteSet(1..n)
  BY FS_Interval
<1>2. IsFiniteSet(S)
  BY <1>1, FS_Subset
<1>3. Cardinality(S) \in Nat /\ (Cardinality(S) = 0 => S = {})
  <2> HIDE DEF S
  <2> QED BY <1>2, FS_CardinalityType, FS_EmptySet
<1>4. LostIn(failures) = Cardinality(S)
  BY DEF LostIn
<1>5. S = {} => failures = [i \in 1..n |-> AllUp]
  <2>1. DOMAIN failures = 1..n /\ failures = [i \in 1..n |-> failures[i]]
    OBVIOUS
  <2>2. S = {} => \A i \in 1..n : failures[i] = AllUp
    BY <2>1
  <2> QED BY <2>1, <2>2
<1> HIDE DEF S
<1> QED BY <1>3, <1>4, <1>5

LEMMA WeekInTraffic ==
    ASSUME CityIsOne, WeekKept, GenerateWeek
    PROVE  /\ lost' \in Nat
           /\ lost' = 0 => lost = 0
           /\ lost' = 0 /\ today = 0 => week' = WeekIn(traffic)
<1> DEFINE n == Len(ToRoute(Specs(seed, today, grid, pools)))
<1>1. PICK mapLost \in BOOLEAN :
       \E failures \in [1..n -> Failures] :
          /\ lost' = lost + (LostIn(failures) + (IF mapLost THEN 1 ELSE 0))
          /\ week' = Generate(seed, today, grid, pools, traffic, ~mapLost, failures)
  BY Zenon DEF GenerateWeek
<1>2. PICK failures \in [1..n -> Failures] :
          /\ lost' = lost + (LostIn(failures) + (IF mapLost THEN 1 ELSE 0))
          /\ week' = Generate(seed, today, grid, pools, traffic, ~mapLost, failures)
  BY <1>1
<1>3. n \in Nat
  <2>1. PICK Q : Specs(seed, today, grid, pools) \in Seq(Q)
    BY SpecsAreWhole
  <2>2. ToRoute(Specs(seed, today, grid, pools)) \in Seq(Q)
    BY <2>1, DrivenOrNot
  <2> QED BY <2>2
<1> HIDE DEF n
<1>4. lost \in Nat
  BY DEF CityIsOne
<1>5. /\ lost' \in Nat
      /\ lost' = 0 => lost = 0 /\ ~mapLost /\ failures = [i \in 1..n |-> AllUp]
  BY <1>2, <1>3, <1>4, FailuresCount
<1>6. ASSUME lost' = 0, today = 0
      PROVE  week' = WeekIn(traffic)
  <2>1. lost = 0 /\ mapLost = FALSE /\ failures = [i \in 1..n |-> AllUp]
    BY <1>5, <1>6
  <2>2. grid = Reached /\ pools = Kerbs
    BY <2>1 DEF CityIsOne, GenerateWeek
  <2>3. failures = NoneLost
    BY <1>6, <2>1, <2>2 DEF NoneLost, n
  <2>4. (~mapLost) = TRUE
    BY <2>1
  <2> QED BY <1>2, <1>6, <2>2, <2>3, <2>4 DEF WeekIn
<1> QED BY <1>5, <1>6

LEMMA CityIsOneStep ==
    ASSUME Inductive, Streets, WeekKept, CityIsOne, [Next]_vars
    PROVE  CityIsOne' /\ (lost' = 0 => lost = 0)
<1>1. CASE InsertZones \/ CloseZones
  BY <1>1, ZonesAreOne
<1>2. CASE SeedPeople
  BY <1>2, PeopleAreOne
<1>3. CASE GenerateWeek
  <2>1. zones' = zones /\ pc' = "duplicates"
    BY <1>3 DEF GenerateWeek, city
  <2>2. lost' \in Nat /\ (lost' = 0 => lost = 0)
    BY <1>3, WeekInTraffic
  <2> QED BY <2>1, <2>2 DEF CityIsOne, Open, Reached
<1>4. CASE ~InsertZones /\ ~CloseZones /\ ~SeedPeople /\ ~GenerateWeek
  <2> DEFINE Gridded == {"calibrate", "traffic", "generate"}
  <2>1. /\ zones' = zones /\ lost' = lost
        /\ pc' \in Gridded => pc \in Gridded /\ grid' = grid /\ pools' = pools
    BY <1>4 DEF Next, Make, Prepare, Rebuild, Populate, Fill, vars, city, memory, Forget, Fail,
       EndPhase, NextRow, CreateDatabase, CreateSchema, CheckMarker, Migrate, Migrated, Restore,
       RestoreWays, RestoreCorners, ImportMap, Calibrate,
       SeedTraffic, CheckDuplicates, StoreTrips, StoreOffers, StoreRatings, CheckWarehouse,
       LoadWarehouse, SetMarker, Serve, Die, NewDay
  <2> QED BY <2>1 DEF CityIsOne, Open, Reached, Kerbs
<1> QED BY <1>1, <1>2, <1>3, <1>4

\* A row more, or all of them: a row whose key is there is there itself.
LEMMA InsertFills ==
    ASSUME NEW R, NEW list \in Seq(R), done \in Nat, NEW table, table \subseteq Rows(list),
           First(list, done) \subseteq table, NEW conflicting,
           done < Len(list) /\ conflicting # {} => list[done + 1] \in table
    PROVE  LET new == Insert(table, list, conflicting)
           IN  /\ new \subseteq Rows(list) /\ table \subseteq new
               /\ done < Len(list) => First(list, done + 1) \subseteq new
               /\ ~(done < Len(list)) => Rows(list) \subseteq new
<1> DEFINE new == Insert(table, list, conflicting)
           n == Len(list)
<1>1. n \in Nat /\ DOMAIN list = 1..n
  OBVIOUS
<1>2. new = IF done < n /\ conflicting = {} THEN table \cup {list[done + 1]} ELSE table
  BY DEF Insert
<1> HIDE DEF new, n
<1>3. CASE done < n
  <2>1. done + 1 \in DOMAIN list
    BY <1>1, <1>3
  <2>2. list[done + 1] \in new
    <3>1. conflicting # {} => list[done + 1] \in table
      BY <1>3 DEF n
    <3> QED BY <1>2, <1>3, <3>1
  <2>3. new \subseteq Rows(list) /\ table \subseteq new
    BY <1>2, <2>1 DEF Rows
  <2>4. First(list, done + 1) \subseteq First(list, done) \cup {list[done + 1]}
    <3>1. \A k \in 1..n : k <= done + 1 => k <= done \/ k = done + 1
      BY <1>1
    <3> QED BY <1>1, <3>1 DEF First
  <2> QED BY <1>3, <2>2, <2>3, <2>4 DEF new, n
<1>4. CASE ~(done < n)
  <2>1. new = table
    BY <1>2, <1>4
  <2>2. Rows(list) \subseteq First(list, done)
    <3>1. \A k \in 1..n : k <= done
      BY <1>1, <1>4
    <3> QED BY <1>1, <3>1 DEF Rows, First
  <2> QED BY <1>4, <2>1, <2>2 DEF new, n
<1> QED BY <1>3, <1>4

\* Before the first row nothing has to be there.
LEMMA NoneFirst ==
    ASSUME NEW R, NEW list \in Seq(R)
    PROVE  First(list, 0) = {}
<1>1. \A k \in DOMAIN list : ~(k <= 0)
  OBVIOUS
<1> QED BY <1>1 DEF First

\* What its stage makes of a table: a row more, or all of them.
LEMMA StageHolds ==
    ASSUME NEW R, NEW list \in Seq(R), done \in Nat, NEW table, NEW stage, NEW then, NEW later,
           Holds(table, list, stage, later), pc = stage, stage \notin later, then # stage,
           marker' = marker, NEW conflicting,
           done < Len(list) /\ conflicting # {} => list[done + 1] \in table,
           NextRow(list, then)
    PROVE  LET new == Insert(table, list, conflicting)
           IN  /\ new \subseteq Rows(list)
               /\ pc' = stage => First(list, done') \subseteq new
               /\ pc' \in later \/ marker' => Rows(list) \subseteq new
               /\ pc' = stage \/ (pc' = then /\ done' = 0)
<1> DEFINE new == Insert(table, list, conflicting)
<1>1. /\ table \subseteq Rows(list) /\ First(list, done) \subseteq table
      /\ marker => Rows(list) \subseteq table
  BY DEF Holds
<1>2. /\ new \subseteq Rows(list) /\ table \subseteq new
      /\ done < Len(list) => First(list, done + 1) \subseteq new
      /\ ~(done < Len(list)) => Rows(list) \subseteq new
  BY <1>1, InsertFills
<1>3. IF done < Len(list) THEN pc' = stage /\ done' = done + 1 ELSE pc' = then /\ done' = 0
  BY DEF NextRow
<1> HIDE DEF new
<1>4. pc' = stage => First(list, done') \subseteq new
  BY <1>2, <1>3
<1>5. pc' \in later \/ marker' => Rows(list) \subseteq new
  BY <1>1, <1>2, <1>3
<1> QED BY <1>2, <1>3, <1>4, <1>5 DEF new

\* The rows that are stored.
LEMMA TripsHold ==
    ASSUME DayHolds, done \in Nat, StoreTrips, TheWeek' = TheWeek
    PROVE  DayHolds'
<1> DEFINE rows == week["rows"]
           list == Faces(TheWeek["rows"])
           table == Shown(trips)
           new == Insert(table, list, SameTrip(rows))
<1>1. pc = "trips" /\ Alike(week, TheWeek) /\ Fits(week) /\ Fits(TheWeek) /\ StoresHold
  BY DEF DayHolds, StoreTrips, Storing
<1>2. /\ trips' = Insert(trips, rows, SameTrip(rows)) /\ NextRow(rows, "offers")
      /\ offers' = offers /\ ratings' = ratings /\ warehouse' = warehouse /\ marker' = marker
      /\ week' = week
  BY DEF StoreTrips, released
<1>3. /\ list = Faces(rows) /\ Len(list) = Len(rows) /\ \E R : list \in Seq(R)
      /\ Len(rows) \in Nat /\ DOMAIN rows = 1..Len(rows)
      /\ DOMAIN list = 1..Len(rows) /\ \A k \in 1..Len(rows) : list[k] = Face(rows[k])
  <2>1. list = Faces(rows)
    BY <1>1 DEF Alike
  <2>2. PICK R : rows \in Seq(R)
    BY <1>1 DEF Fits
  <2> DEFINE n == Len(rows)
  <2>3. n \in Nat /\ DOMAIN rows = 1..n
    BY <2>2
  <2> HIDE DEF n, rows, list
  <2>4. list = [k \in 1..n |-> Face(rows[k])]
    BY <2>1, <2>3 DEF Faces
  <2>5. list \in [1..n -> {Face(rows[k]) : k \in 1..n}] /\ DOMAIN list = 1..n
    BY <2>4
  <2>6. list \in Seq({Face(rows[k]) : k \in 1..n})
    BY <2>3, <2>5, SeqDef
  <2>7. Len(list) = n
    BY <2>3, <2>5, <2>6, SameLength
  <2> QED BY <2>1, <2>3, <2>4, <2>5, <2>6, <2>7 DEF n
<1>4. Holds(table, list, "trips", Storing \ {"trips"})
  BY <1>1 DEF StoresHold
<1> HIDE DEF rows, list, table, new
<1>5. done < Len(rows) /\ SameTrip(rows) # {} => list[done + 1] \in table
  <2> SUFFICES ASSUME done < Len(rows), NEW old \in SameTrip(rows) PROVE list[done + 1] \in table
    OBVIOUS
  <2>1. old \in trips /\ old.id = rows[done + 1].id
    BY DEF SameTrip
  <2>2. done + 1 \in 1..Len(rows)
    BY <1>3
  <2>3. Face(old) \in table /\ Face(old) \in Rows(list)
    BY <1>4, <2>1 DEF Holds, Shown, table
  <2>4. PICK k \in 1..Len(rows) : Face(old) = Face(rows[k])
    BY <1>3, <2>3 DEF Rows
  <2>5. rows[k].id = rows[done + 1].id
    BY <2>1, <2>4 DEF Face
  <2>6. rows[k] \in Rows(rows) /\ rows[done + 1] \in Rows(rows)
    BY <1>3, <2>2 DEF Rows
  <2>7. rows[k] = rows[done + 1]
    BY <1>1, <2>5, <2>6 DEF Fits, rows
  <2> QED BY <1>3, <2>2, <2>3, <2>4, <2>7
<1>6. Shown(trips') = new
  <2>1. CASE done < Len(rows) /\ SameTrip(rows) = {}
    <3>1. trips' = trips \cup {rows[done + 1]} /\ new = table \cup {list[done + 1]}
      BY <1>2, <1>3, <2>1 DEF Insert, new
    <3>2. list[done + 1] = Face(rows[done + 1])
      BY <1>3, <2>1
    <3> QED BY <3>1, <3>2 DEF Shown, table
  <2>2. CASE ~(done < Len(rows) /\ SameTrip(rows) = {})
    <3>1. trips' = trips /\ new = table
      BY <1>2, <1>3, <2>2 DEF Insert, new
    <3> QED BY <3>1 DEF table
  <2> QED BY <2>1, <2>2
<1>7. /\ new \subseteq Rows(list)
      /\ pc' = "trips" => First(list, done') \subseteq new
      /\ pc' \in Storing \ {"trips"} \/ marker' => Rows(list) \subseteq new
      /\ pc' = "trips" \/ (pc' = "offers" /\ done' = 0)
  <2>1. NextRow(list, "offers")
    BY <1>2, <1>3 DEF NextRow
  <2>2. done < Len(list) /\ SameTrip(rows) # {} => list[done + 1] \in table
    BY <1>3, <1>5
  <2>3. PICK R : list \in Seq(R)
    BY <1>3
  <2> QED BY <1>1, <1>2, <1>4, <2>1, <2>2, <2>3, StageHolds DEF new
<1>8. pc' = "offers" => First(TheWeek["offers"], done') = {}
  <2>1. PICK Q : TheWeek["offers"] \in Seq(Q)
    BY <1>1 DEF Fits
  <2> QED BY <1>7, <2>1, NoneFirst
<1>9. Holds(Shown(trips), Faces(TheWeek["rows"]), "trips", Storing \ {"trips"})'
  BY <1>6, <1>7 DEF Holds, list
<1>10. Holds(offers, TheWeek["offers"], "offers", {"ratings", "warehouse", "load", "marker_set"})'
  BY <1>1, <1>2, <1>7, <1>8 DEF StoresHold, Holds
<1>11. Holds(ratings, TheWeek["ratings"], "ratings", {"warehouse", "load", "marker_set"})'
  BY <1>1, <1>2, <1>7 DEF StoresHold, Holds
<1>12. Events' = Events
  BY <1>2 DEF Events
<1>13. StoresHold'
  BY <1>1, <1>2, <1>7, <1>9, <1>10, <1>11, <1>12 DEF StoresHold, Shown
<1> QED BY <1>1, <1>2, <1>7, <1>13 DEF DayHolds, Storing

LEMMA OffersHold ==
    ASSUME DayHolds, done \in Nat, StoreOffers, TheWeek' = TheWeek
    PROVE  DayHolds'
<1> DEFINE list == TheWeek["offers"]
<1>1. pc = "offers" /\ Alike(week, TheWeek) /\ Fits(week) /\ Fits(TheWeek) /\ StoresHold
  BY DEF DayHolds, StoreOffers, Storing
<1>2. /\ \/ Fail /\ offers' = offers
         \/ /\ offers' = Insert(offers, list, SameOffer(list)) /\ NextRow(list, "ratings")
            /\ week' = week
      /\ trips' = trips /\ ratings' = ratings /\ warehouse' = warehouse /\ marker' = marker
  <2>1. week["offers"] = list
    BY <1>1 DEF Alike
  <2> QED BY <2>1 DEF StoreOffers, released
<1>3. PICK R : list \in Seq(R)
  BY <1>1 DEF Fits
<1>4. Holds(offers, list, "offers", {"ratings", "warehouse", "load", "marker_set"})
  BY <1>1 DEF StoresHold
<1>5. done < Len(list) /\ SameOffer(list) # {} => list[done + 1] \in offers
  <2> SUFFICES ASSUME done < Len(list), NEW old \in SameOffer(list) PROVE list[done + 1] \in offers
    OBVIOUS
  <2>1. /\ old \in offers /\ old.trip = list[done + 1].trip
        /\ old.offer.sequence = list[done + 1].offer.sequence
    BY DEF SameOffer
  <2>2. done + 1 \in DOMAIN list
    BY <1>3
  <2>3. old \in Rows(list) /\ list[done + 1] \in Rows(list)
    BY <1>4, <2>1, <2>2 DEF Holds, Rows
  <2> QED BY <1>1, <2>1, <2>3 DEF Fits
<1> HIDE DEF list
<1>11. Events' = Events
  BY <1>2 DEF Events
<1>6. CASE Fail /\ offers' = offers
  <2>1. pc' = "off"
    BY <1>6 DEF Fail
  <2>2. StoresHold'
    BY <1>1, <1>2, <1>6, <1>11, <2>1 DEF StoresHold, Holds, Storing, Shown
  <2> QED BY <1>1, <1>2, <2>1, <2>2 DEF DayHolds, Storing
<1>7. CASE /\ offers' = Insert(offers, list, SameOffer(list)) /\ NextRow(list, "ratings")
           /\ week' = week
  <2>1. /\ offers' \subseteq Rows(list)
        /\ pc' = "offers" => First(list, done') \subseteq offers'
        /\ pc' \in {"ratings", "warehouse", "load", "marker_set"} \/ marker' =>
              Rows(list) \subseteq offers'
        /\ pc' = "offers" \/ (pc' = "ratings" /\ done' = 0)
    BY <1>1, <1>2, <1>3, <1>4, <1>5, <1>7, StageHolds
  <2>2. pc' = "ratings" => First(TheWeek["ratings"], done') = {}
    <3>1. PICK Q : TheWeek["ratings"] \in Seq(Q)
      BY <1>1 DEF Fits
    <3> QED BY <2>1, <3>1, NoneFirst
  <2>3. Holds(Shown(trips), Faces(TheWeek["rows"]), "trips", Storing \ {"trips"})'
    BY <1>1, <1>2, <2>1 DEF StoresHold, Holds, Storing, Shown
  <2>4. Holds(offers, TheWeek["offers"], "offers", {"ratings", "warehouse", "load", "marker_set"})'
    BY <2>1 DEF Holds, list
  <2>5. Holds(ratings, TheWeek["ratings"], "ratings", {"warehouse", "load", "marker_set"})'
    BY <1>1, <1>2, <2>1, <2>2 DEF StoresHold, Holds
  <2>6. StoresHold'
    BY <1>1, <1>2, <1>11, <2>1, <2>3, <2>4, <2>5 DEF StoresHold, Shown
  <2> QED BY <1>1, <1>2, <1>7, <2>1, <2>6 DEF DayHolds, Storing
<1> QED BY <1>2, <1>6, <1>7

LEMMA RatingsHold ==
    ASSUME DayHolds, done \in Nat, StoreRatings, TheWeek' = TheWeek
    PROVE  DayHolds'
<1> DEFINE list == TheWeek["ratings"]
<1>1. pc = "ratings" /\ Alike(week, TheWeek) /\ Fits(week) /\ Fits(TheWeek) /\ StoresHold
  BY DEF DayHolds, StoreRatings, Storing
<1>2. /\ ratings' = Insert(ratings, list, SameRating(list)) /\ NextRow(list, "warehouse")
      /\ trips' = trips /\ offers' = offers /\ warehouse' = warehouse /\ marker' = marker
      /\ week' = week
  <2>1. week["ratings"] = list
    BY <1>1 DEF Alike
  <2> QED BY <2>1 DEF StoreRatings, released
<1>3. PICK R : list \in Seq(R)
  BY <1>1 DEF Fits
<1>4. Holds(ratings, list, "ratings", {"warehouse", "load", "marker_set"})
  BY <1>1 DEF StoresHold
<1>5. done < Len(list) /\ SameRating(list) # {} => list[done + 1] \in ratings
  BY DEF SameRating
<1> HIDE DEF list
<1>6. /\ ratings' \subseteq Rows(list)
      /\ pc' = "ratings" => First(list, done') \subseteq ratings'
      /\ pc' \in {"warehouse", "load", "marker_set"} \/ marker' => Rows(list) \subseteq ratings'
      /\ pc' = "ratings" \/ (pc' = "warehouse" /\ done' = 0)
  BY <1>1, <1>2, <1>3, <1>4, <1>5, StageHolds
<1>7. Holds(Shown(trips), Faces(TheWeek["rows"]), "trips", Storing \ {"trips"})'
  BY <1>1, <1>2, <1>6 DEF StoresHold, Holds, Storing, Shown
<1>8. Holds(offers, TheWeek["offers"], "offers", {"ratings", "warehouse", "load", "marker_set"})'
  BY <1>1, <1>2, <1>6 DEF StoresHold, Holds
<1>9. Holds(ratings, TheWeek["ratings"], "ratings", {"warehouse", "load", "marker_set"})'
  BY <1>6 DEF Holds, list
<1>10. Events' = Events
  BY <1>2 DEF Events
<1>11. StoresHold'
  BY <1>1, <1>2, <1>6, <1>7, <1>8, <1>9, <1>10 DEF StoresHold, Shown
<1> QED BY <1>1, <1>2, <1>6, <1>11 DEF DayHolds, Storing

\* What is sent to a table of the warehouse is a row of the week.
LEMMA BatchesAreRows ==
    ASSUME WeekHasNoRowTwice, pc = "load"
    PROVE  \A j \in DOMAIN Batches : \E t \in TableNames :
              Batches[j].table = t /\ Batches[j].row \in Rows(week[t])
<1> DEFINE S == UNION {Rows(RowsFor(t)) : t \in TableNames}
<1>1. ASSUME NEW t \in TableNames
      PROVE  RowsFor(t) \in Seq(S)
  <2>1. PICK R : week[t] \in Seq(R)
    BY TablesAre DEF WeekHasNoRowTwice, NoRowTwice
  <2> DEFINE n == Len(week[t])
             list == RowsFor(t)
  <2>2. n \in Nat /\ DOMAIN week[t] = 1..n
    BY <2>1
  <2>3. list = [i \in 1..n |-> list[i]]
    BY <2>2 DEF RowsFor
  <2>4. Rows(list) \subseteq S
    OBVIOUS
  <2> HIDE DEF S, list, n
  <2>5. list \in [1..n -> S]
    BY <2>3, <2>4 DEF Rows
  <2>6. list \in Seq(S)
    BY <2>2, <2>5, SeqDef
  <2> QED BY <2>6 DEF list
<1>2. ASSUME NEW t \in TableNames, NEW e \in Rows(RowsFor(t))
      PROVE  e.table = t /\ e.row \in Rows(week[t])
  <2>1. PICK i \in DOMAIN RowsFor(t) : e = RowsFor(t)[i]
    BY DEF Rows
  <2>2. i \in DOMAIN week[t] /\ e = [table |-> t, row |-> week[t][i]]
    BY <2>1 DEF RowsFor
  <2> QED BY <2>2 DEF Rows
<1>3. Batches \in Seq(S)
  <2>1. /\ RowsFor("trip_events") \in Seq(S) /\ RowsFor("dispatch_offers") \in Seq(S)
        /\ RowsFor("driver_positions") \in Seq(S) /\ RowsFor("rider_positions") \in Seq(S)
        /\ RowsFor("hotspot_history") \in Seq(S)
    BY <1>1 DEF TableNames
  <2> HIDE DEF S
  <2>2. \A a, b \in Seq(S) : a \o b \in Seq(S)
    OBVIOUS
  <2>3. Batches = (((RowsFor("trip_events") \o RowsFor("dispatch_offers"))
                       \o RowsFor("driver_positions")) \o RowsFor("rider_positions"))
                     \o RowsFor("hotspot_history")
    BY TablesAre DEF Batches
  <2> QED BY <2>1, <2>2, <2>3, Zenon
<1>4. \A j \in DOMAIN Batches : Batches[j] \in S
  <2> HIDE DEF S
  <2> QED BY <1>3
<1> QED BY <1>2, <1>4

\* The load, and the look at the warehouse before it.
LEMMA LoadHolds ==
    ASSUME DayHolds, Loading, NothingDoubled, WeekHasNoRowTwice, LoadWarehouse, TheWeek' = TheWeek
    PROVE  DayHolds'
<1>1. /\ pc = "load" /\ Alike(week, TheWeek) /\ Fits(week) /\ Fits(TheWeek) /\ StoresHold
      /\ done \in Nat /\ done <= Len(Batches)
  BY DEF DayHolds, LoadWarehouse, Storing, Loading
<1>2. /\ trips' = trips /\ offers' = offers /\ ratings' = ratings /\ marker' = marker
      /\ week' = week /\ NextRow(Batches, "marker_set")
  BY DEF LoadWarehouse, store, released
<1>3. Batches # <<>> /\ Len(Batches) \in Nat \ {0} /\ DOMAIN Batches = 1..Len(Batches)
  <2>1. Distinct(Batches, TableNames) /\ Batches # <<>>
    BY <1>1, BatchesAreDistinct
  <2>2. PICK R : Batches \in Seq(R)
    BY <2>1 DEF Distinct
  <2> QED BY <2>1, <2>2
<1>4. Loading'
  BY BatchIsNew
<1>5. pc' \in {"load", "marker_set"} /\ (pc' = "load" => done' = done + 1)
  BY <1>1, <1>2 DEF NextRow
<1>6. marker \/ pc' = "marker_set" => warehouse'["trip_events"] # <<>>
  <2>1. CASE pc' = "load"
    <3>1. done' # 0
      BY <1>1, <1>5, <2>1
    <3> QED BY <1>4, <2>1, <3>1 DEF Loading
  <2>2. CASE pc' = "marker_set"
    <3>1. done = Len(Batches)
      <4>1. ~(done < Len(Batches))
        BY <1>1, <1>2, <2>2 DEF NextRow
      <4>2. \A a, b \in Nat : a <= b /\ ~(a < b) => a = b
        OBVIOUS
      <4> QED BY <1>1, <1>3, <4>1, <4>2
    <3>2. warehouse' = warehouse /\ warehouse["trip_events"] # <<>>
      BY <1>1, <1>3, <3>1 DEF LoadWarehouse, Loading
    <3> QED BY <3>2
  <2> QED BY <1>5, <2>1, <2>2
<1>7. Shown(Events') \subseteq Rows(Faces(TheWeek["rows"]))
  <2> DEFINE faces == Rows(Faces(TheWeek["rows"]))
  <2>1. \A e \in Events : Face(e) \in faces
    BY <1>1 DEF StoresHold, Shown
  <2>0. Shown(Events) \subseteq faces
    BY <1>1 DEF StoresHold
  <2>6. \A row \in Rows(week["rows"]) : Face(row) \in faces
    <3>1. faces = Rows(Faces(week["rows"]))
      BY <1>1 DEF Alike
    <3> QED BY <3>1 DEF Rows, Faces
  <2> HIDE DEF faces
  <2>2. CASE warehouse' = warehouse
    <3>1. Events' = Events
      BY <2>2 DEF Events
    <3> QED BY <2>0, <3>1 DEF faces
  <2>3. CASE done < Len(Batches)
    <3> DEFINE batch == Batches[done + 1]
               old == warehouse["trip_events"]
    <3>1. warehouse' = [warehouse EXCEPT ![batch.table] = Append(@, batch.row)]
      <4>1. done # Len(Batches)
        <5>1. \A a, b \in Nat : a < b => a # b
          OBVIOUS
        <5> QED BY <1>1, <1>3, <2>3, <5>1
      <4> QED BY <4>1 DEF LoadWarehouse
    <3>2. done + 1 \in DOMAIN Batches
      BY <1>1, <1>3, <2>3
    <3>3. batch.table = "trip_events" => batch.row \in Rows(week["trip_events"])
      BY <1>1, <3>2, BatchesAreRows
    <3>4. "trip_events" \in DOMAIN warehouse /\ \E R : old \in Seq(R)
      BY TablesAre DEF Loading, TableNames
    <3>5. PICK R : old \in Seq(R)
      BY <3>4
    <3> HIDE DEF batch, old
    <3>6. CASE batch.table = "trip_events"
      <4> DEFINE new == Append(old, batch.row)
      <4>1. warehouse'["trip_events"] = new
        BY <3>1, <3>4, <3>6 DEF old
      <4>2. old \in Seq(R \cup {batch.row}) /\ batch.row \in R \cup {batch.row}
        BY <3>5
      <4>3. \A k \in DOMAIN new : new[k] = batch.row \/ (k \in DOMAIN old /\ new[k] = old[k])
        BY <4>2
      <4> HIDE DEF new
      <4>4. Face(batch.row.row) \in faces
        <5>1. batch.row.row \in Rows(week["rows"])
          BY <1>1, <3>3, <3>6 DEF Fits
        <5> QED BY <2>6, <5>1
      <4>5. \A k \in DOMAIN old : old[k].row \in Events
        BY DEF Events, old
      <4>6. \A k \in DOMAIN new : Face(new[k].row) \in faces
        BY <2>1, <4>3, <4>4, <4>5
      <4>7. \A e \in Events' : \E k \in DOMAIN new : e = new[k].row
        BY <4>1 DEF Events
      <4>8. \A e \in Events' : Face(e) \in faces
        BY <4>6, <4>7
      <4> QED BY <4>8 DEF Shown, faces
    <3>7. CASE batch.table # "trip_events"
      <4>1. warehouse'["trip_events"] = warehouse["trip_events"]
        BY <3>1, <3>7
      <4>2. Events' = Events
        BY <4>1 DEF Events
      <4> QED BY <2>0, <4>2 DEF faces
    <3> QED BY <3>6, <3>7
  <2>4. done = Len(Batches) => warehouse' = warehouse
    BY DEF LoadWarehouse
  <2>5. done = Len(Batches) \/ done < Len(Batches)
    <3>1. \A a, b \in Nat : a <= b => a = b \/ a < b
      OBVIOUS
    <3> QED BY <1>1, <1>3, <3>1
  <2> QED BY <2>2, <2>3, <2>4, <2>5
<1>8. Holds(Shown(trips), Faces(TheWeek["rows"]), "trips", Storing \ {"trips"})'
  BY <1>1, <1>2, <1>5 DEF StoresHold, Holds, Storing, Shown
<1>9. Holds(offers, TheWeek["offers"], "offers", {"ratings", "warehouse", "load", "marker_set"})'
  BY <1>1, <1>2, <1>5 DEF StoresHold, Holds
<1>10. Holds(ratings, TheWeek["ratings"], "ratings", {"warehouse", "load", "marker_set"})'
  BY <1>1, <1>2, <1>5 DEF StoresHold, Holds
<1>11. StoresHold'
  BY <1>2, <1>6, <1>7, <1>8, <1>9, <1>10 DEF StoresHold, Shown
<1> QED BY <1>1, <1>2, <1>5, <1>11 DEF DayHolds, Storing

\* The other steps write none of these tables.
TablesSame == UNCHANGED <<trips, offers, ratings, warehouse>>

LEMMA TablesStay ==
    ASSUME DayHolds, TablesSame, TheWeek' = TheWeek,
           marker' = marker \/ pc = "marker_set",
           \/ pc' \notin Storing \cup {"duplicates"}
           \/ pc' = pc /\ week' = week /\ done' = done
           \/ pc = "warehouse" /\ week' = week /\ pc' = "load"
           \/ /\ pc = "warehouse" /\ week' = week /\ pc' = "marker_set"
              /\ warehouse["trip_events"] # <<>>
           \/ pc = "duplicates" /\ week' = week /\ pc' = "trips" /\ done' = 0 /\ ~HasDuplicates(week)
    PROVE  DayHolds'
<1>1. Events' = Events
  BY DEF Events, TablesSame
<1>2. /\ pc' \in Storing \ {"trips"} \/ marker' => pc \in Storing \ {"trips"} \/ marker
      /\ pc' \in {"ratings", "warehouse", "load", "marker_set"} \/ marker' =>
            pc \in {"ratings", "warehouse", "load", "marker_set"} \/ marker
      /\ pc' \in {"warehouse", "load", "marker_set"} \/ marker' =>
            pc \in {"warehouse", "load", "marker_set"} \/ marker
  BY DEF Storing
<1>3. pc' \in {"offers", "ratings"} => pc' = pc /\ done' = done
  BY DEF Storing
<1>4. pc' = "trips" => \/ pc = "trips" /\ done' = done
                       \/ (done' = 0 /\ ~HasDuplicates(week) /\ pc = "duplicates")
  BY DEF Storing
<1>5. /\ pc' \in Storing \cup {"duplicates"} => Alike(week', TheWeek)
      /\ pc' = "duplicates" => HasDuplicates(TheWeek) \/ (Fits(week') /\ Fits(TheWeek))
      /\ pc' \in Storing => Fits(week')
      /\ pc' \in Storing \/ marker' => Fits(TheWeek)
  <2>1. pc = "duplicates" /\ ~HasDuplicates(week) => ~HasDuplicates(TheWeek)
    BY AlikeDuplicates DEF DayHolds
  <2>2. pc' \in Storing \cup {"duplicates"} => week' = week
    OBVIOUS
  <2> QED BY <2>1, <2>2 DEF DayHolds, Storing
<1>6. Holds(Shown(trips), Faces(TheWeek["rows"]), "trips", Storing \ {"trips"})'
  <2>1. ASSUME pc' = "trips" PROVE First(Faces(TheWeek["rows"]), done') \subseteq Shown(trips)
    <3>1. CASE pc = "trips" /\ done' = done
      BY <3>1 DEF DayHolds, StoresHold, Holds
    <3>2. CASE done' = 0
      <4>1. Fits(TheWeek)
        BY <1>5, <2>1 DEF Storing
      <4>2. PICK R : TheWeek["rows"] \in Seq(R)
        BY <4>1 DEF Fits
      <4>3. \A k \in DOMAIN Faces(TheWeek["rows"]) : ~(k <= 0)
        BY <4>2 DEF Faces
      <4> QED BY <3>2, <4>3 DEF First
    <3> QED BY <1>4, <2>1, <3>1, <3>2
  <2>2. Shown(trips') = Shown(trips)
    BY DEF TablesSame
  <2> QED BY <1>2, <2>1, <2>2 DEF DayHolds, StoresHold, Holds
<1>7. Holds(offers, TheWeek["offers"], "offers", {"ratings", "warehouse", "load", "marker_set"})'
  BY <1>2, <1>3 DEF DayHolds, StoresHold, Holds, TablesSame
<1>8. Holds(ratings, TheWeek["ratings"], "ratings", {"warehouse", "load", "marker_set"})'
  BY <1>2, <1>3 DEF DayHolds, StoresHold, Holds, TablesSame
<1>9. pc' = "marker_set" \/ marker' => warehouse'["trip_events"] # <<>>
  BY DEF DayHolds, StoresHold, TablesSame, Storing
<1>10. StoresHold'
  BY <1>1, <1>6, <1>7, <1>8, <1>9 DEF DayHolds, StoresHold, Shown
<1> QED BY <1>5, <1>10 DEF DayHolds

LEMMA StoresKeptStep ==
    ASSUME HistoryDays # 0, TripsPerDay # 0, Inductive, Streets, WeekKept, CityIsOne,
           Made, Loading, NothingDoubled, StoresKept, [Next]_vars
    PROVE  StoresKept'
<1>1. seed' = seed /\ today \in Nat /\ (today' = today \/ today' = today + 1)
  BY DEF WeekKept, Next, Make, Prepare, Rebuild, Populate, Fill, vars, world, CreateDatabase,
     CreateSchema, CheckMarker, Migrate, Migrated, Restore, RestoreWays, RestoreCorners,
     ImportMap, InsertZones, CloseZones, SeedPeople, Calibrate, SeedTraffic, GenerateWeek,
     CheckDuplicates, StoreTrips, StoreOffers, StoreRatings, CheckWarehouse, LoadWarehouse,
     SetMarker, Serve, Die, NewDay
<1>2. TheWeek' = TheWeek
  BY <1>1 DEF TheWeek, WeekIn, NoneLost, Reached, Kerbs
<1> SUFFICES ASSUME lost' = 0, today' = 0 PROVE DayHolds'
  BY DEF StoresKept
<1>3. lost = 0 /\ today = 0
  <2>1. lost = 0
    BY CityIsOneStep
  <2> QED BY <1>1, <2>1
<1>4. DayHolds /\ done \in Nat
  BY <1>3 DEF StoresKept, Loading
<1>5. CASE StoreTrips \/ StoreOffers \/ StoreRatings
  BY <1>2, <1>4, <1>5, TripsHold, OffersHold, RatingsHold
<1>6. CASE LoadWarehouse
  BY <1>2, <1>4, <1>6, LoadHolds DEF Made
<1>7. CASE GenerateWeek
  <2>1. week' = WeekIn(traffic)
    BY <1>3, <1>7, WeekInTraffic
  <2>2. /\ pc' = "duplicates" /\ trips' = trips /\ offers' = offers /\ ratings' = ratings
        /\ warehouse' = warehouse /\ marker' = marker /\ pc = "generate"
    BY <1>7 DEF GenerateWeek, store, released
  <2>3. grid = Reached /\ pools = Kerbs
    BY <1>3, <2>2 DEF CityIsOne
  <2>4. Servicable(Reached, Kerbs)
    BY <2>2, <2>3 DEF WeekKept, Streets, Servicable
  <2>5. /\ HasDuplicates(TheWeek) \/ Fits(TheWeek)
        /\ HasDuplicates(week') \/ Fits(week')
        /\ Alike(week', TheWeek)
    <3>1. seed \in Seeds /\ 0 \in Int /\ TRUE \in BOOLEAN /\ {} \in SUBSET TrafficRows
          /\ traffic \in SUBSET TrafficRows
      BY DEF WeekKept
    <3>2. \A held \in SUBSET TrafficRows : HasDuplicates(WeekIn(held)) \/ Fits(WeekIn(held))
      BY <2>4, <3>1, GeneratedFits DEF WeekIn
    <3>3. Alike(WeekIn(traffic), TheWeek)
      BY <2>4, <3>1, WeeksAreAlike DEF WeekIn, TheWeek, NoneLost
    <3> QED BY <2>1, <3>1, <3>2, <3>3 DEF TheWeek
  <2>8. HasDuplicates(TheWeek) \/ (Fits(week') /\ Fits(TheWeek))
    BY <2>5, AlikeDuplicates
  <2>6. Events' = Events
    BY <2>2 DEF Events
  <2>7. StoresHold'
    BY <1>2, <1>4, <2>2, <2>6 DEF DayHolds, StoresHold, Holds, Storing, Shown
  <2> QED BY <1>2, <1>4, <2>2, <2>5, <2>7, <2>8 DEF DayHolds, Storing
<1>8. CASE ~StoreTrips /\ ~StoreOffers /\ ~StoreRatings /\ ~LoadWarehouse /\ ~GenerateWeek
  <2>1. TablesSame
    BY <1>8 DEF TablesSame, Next, Make, Prepare, Rebuild, Populate, Fill, vars, store,
       CreateDatabase, CreateSchema, CheckMarker, Migrate, Migrated, Restore, RestoreWays,
       RestoreCorners, ImportMap, InsertZones, CloseZones, SeedPeople, Calibrate, SeedTraffic,
       CheckDuplicates, CheckWarehouse, SetMarker, Serve, Die, NewDay
  <2>2. marker' = marker \/ pc = "marker_set"
    BY <1>8 DEF Next, Make, Prepare, Rebuild, Populate, Fill, vars, released,
       CreateDatabase, CreateSchema, CheckMarker, Migrate, Migrated, Restore, RestoreWays,
       RestoreCorners, ImportMap, InsertZones, CloseZones, SeedPeople, Calibrate, SeedTraffic,
       CheckDuplicates, CheckWarehouse, SetMarker, Serve, Die, NewDay
  <2>3. CASE CheckWarehouse \/ CheckDuplicates
    <3>1. pc = "duplicates" => done = 0
      BY DEF Loading
    <3>2. \/ pc' \notin Storing \cup {"duplicates"}
          \/ pc = "warehouse" /\ week' = week /\ pc' = "load"
          \/ /\ pc = "warehouse" /\ week' = week /\ pc' = "marker_set"
             /\ warehouse["trip_events"] # <<>>
          \/ pc = "duplicates" /\ week' = week /\ pc' = "trips" /\ done' = 0 /\ ~HasDuplicates(week)
      BY <2>3, <3>1 DEF CheckWarehouse, CheckDuplicates, memory, Fail, Storing
    <3> QED BY <1>2, <1>4, <2>1, <2>2, <3>2, TablesStay
  <2>4. CASE ~CheckWarehouse /\ ~CheckDuplicates
    <3>1. \/ pc' \notin Storing \cup {"duplicates"}
          \/ pc' = pc /\ week' = week /\ done' = done
      BY <1>8, <2>4 DEF Next, Make, Prepare, Rebuild, Populate, Fill, vars, memory, Forget, Fail,
         EndPhase, CreateDatabase, CreateSchema, CheckMarker, Migrate, Migrated, Restore,
         RestoreWays, RestoreCorners, ImportMap, InsertZones, CloseZones, SeedPeople, Calibrate,
         SeedTraffic, SetMarker, Serve, Die, NewDay, Storing
    <3> QED BY <1>2, <1>4, <2>1, <2>2, <3>1, TablesStay
  <2> QED BY <2>3, <2>4
<1> QED BY <1>5, <1>6, <1>7, <1>8

\* However often bootstrap dies and is run again on its first day, as long as
\* no query was lost: once a service runs, each stored trip has its acceptance
\* and its ratings beside it, and the warehouse has events of these trips and of
\* no others, which say the same but for when a ride ended, whatever traffic
\* each run has drawn.  A history without trips is the exception: there is no
\* event.
THEOREM StoredWeekAgrees ==
    ASSUME HistoryDays # 0, TripsPerDay # 0
    PROVE  Spec => []StoresAgree
<1> DEFINE Stored == /\ Streets /\ WeekKept /\ CityIsOne
                     /\ Made /\ Loading /\ NothingDoubled /\ StoresKept
<1>1. Init => Stored
  <2> SUFFICES ASSUME Init PROVE Stored
    OBVIOUS
  <2>1. warehouse = Empty /\ \A t \in DOMAIN Empty : Empty[t] = <<>>
    BY DEF Init, Empty
  <2>2. \A t \in DOMAIN Empty : warehouse[t] \in Seq({})
    <3>1. <<>> \in Seq({})
      OBVIOUS
    <3> QED BY <2>1, <3>1
  <2>3. Loading
    BY <2>1, <2>2 DEF Init, Loading, AllEmpty
  <2>4. Made /\ Streets /\ WeekKept /\ CityIsOne /\ NothingDoubled
    BY <2>1 DEF Init, Made, WeekHasNoRowTwice, Streets, WeekKept, CityIsOne, Open, NothingDoubled
  <2>5. Events = {}
    <3>1. "trip_events" \in DOMAIN Empty
      BY TablesAre DEF TableNames
    <3> QED BY <2>1, <3>1 DEF Events
  <2>6. StoresKept
    BY <2>5 DEF Init, StoresKept, DayHolds, StoresHold, Holds, Storing, Shown
  <2> QED BY <2>3, <2>4, <2>6
<1>2. Inductive /\ Inductive' /\ Stored /\ [Next]_vars => Stored'
  BY StreetsStep, WeekKeptStep, CityIsOneStep, MadeStep, LoadingStep, StoresKeptStep DEF Made
<1>3. Inductive /\ Stored => StoresAgree
  <2> SUFFICES ASSUME Inductive, Stored, service = "running", lost = 0, today = 0
               PROVE  /\ \A row \in trips :
                            /\ AcceptedBy(row.id) = (IF row.driver = None THEN {} ELSE {row.driver})
                            /\ row.status = "completed" => \A who \in {"rider", "driver"} :
                                   [trip |-> row.id, rater |-> who] \in ratings
                      /\ Events # {}
                      /\ \A event \in Events : \E row \in trips :
                            WithoutEnd(event) = WithoutEnd(row)
    BY DEF StoresAgree
  <2>1. marker /\ DayHolds
    BY DEF Inductive, ReleaseKept, StoresKept
  <2>2. /\ Shown(trips) = Rows(Faces(TheWeek["rows"])) /\ offers = Rows(TheWeek["offers"])
        /\ ratings = Rows(TheWeek["ratings"]) /\ Shown(Events) \subseteq Shown(trips)
        /\ warehouse["trip_events"] # <<>> /\ Fits(TheWeek)
    BY <2>1 DEF DayHolds, StoresHold, Holds
  <2>3. \A id : AcceptedBy(id) = Takers(TheWeek["offers"], id)
    BY <2>2 DEF AcceptedBy, Takers
  <2>4. Events # {}
    <3>1. PICK R : warehouse["trip_events"] \in Seq(R)
      BY TablesAre DEF Loading, TableNames
    <3>2. 1 \in DOMAIN warehouse["trip_events"]
      BY <2>2, <3>1
    <3> QED BY <3>2 DEF Events
  <2>5. \A one, other : Face(one) = Face(other) =>
           /\ WithoutEnd(one) = WithoutEnd(other) /\ one.id = other.id
           /\ one.driver = other.driver /\ one.status = other.status
    BY DEF Face
  <2>6. ASSUME NEW row \in trips
        PROVE  /\ AcceptedBy(row.id) = (IF row.driver = None THEN {} ELSE {row.driver})
               /\ row.status = "completed" => \A who \in {"rider", "driver"} :
                      [trip |-> row.id, rater |-> who] \in ratings
    <3>1. Face(row) \in Rows(Faces(TheWeek["rows"]))
      BY <2>2 DEF Shown
    <3>2. PICK k \in DOMAIN TheWeek["rows"] : Face(row) = Face(TheWeek["rows"][k])
      BY <3>1 DEF Rows, Faces
    <3> DEFINE twin == TheWeek["rows"][k]
    <3>3. twin \in Rows(TheWeek["rows"])
      BY DEF Rows
    <3>4. row.id = twin.id /\ row.driver = twin.driver /\ row.status = twin.status
      BY <2>5, <3>2
    <3> HIDE DEF twin
    <3>5. /\ Takers(TheWeek["offers"], twin.id) = (IF twin.driver = None THEN {} ELSE {twin.driver})
          /\ twin.status = "completed" => \A who \in {"rider", "driver"} :
                 [trip |-> twin.id, rater |-> who] \in Rows(TheWeek["ratings"])
      BY <2>2, <3>3 DEF Fits
    <3> QED BY <2>2, <2>3, <3>4, <3>5
  <2>7. ASSUME NEW event \in Events
        PROVE  \E row \in trips : WithoutEnd(event) = WithoutEnd(row)
    <3>1. Face(event) \in Shown(trips)
      BY <2>2 DEF Shown
    <3>2. PICK row \in trips : Face(event) = Face(row)
      BY <3>1 DEF Shown
    <3> QED BY <2>5, <3>2
  <2> QED BY <2>4, <2>6, <2>7
<1> HIDE DEF Stored
<1> QED BY <1>1, <1>2, <1>3, BootstrapInductive, PTL DEF Spec
=============================================================================
