------------------------------ MODULE Routing ------------------------------
(***************************************************************************)
(* hailpath_common.routing: points snapped to the street network, and ways *)
(* along it.  A place is a point somebody drew or a corner of the main     *)
(* network; the map is constants, and how much of it is in the database,   *)
(* and which queries fail, are inputs of the operators.                    *)
(***************************************************************************)
EXTENDS Integers, Sequences, FiniteSets, SequencesExt

CONSTANTS
    Zones,
    Points,     \* places anywhere in the city, on a street or not
    Corners,    \* ways_vertices_pgr WHERE on_main_network
    NearestTo,  \* per place, its nearest corner
    MetresTo,   \* per place, how far that is
    CentreOf,   \* per zone, its centroid
    DrawnIn,    \* per zone, the points a seeded generator draws in it, in order
    Inside,     \* per zone, the corners its polygon contains
    TrafficRows, \* what segment_traffic may hold: a factor for a segment
    Ways,       \* per content of segment_traffic and pair of corners, the edges of the
                \* cheapest way, each with its seconds and metres; <<>>: no path
    MaxSnap,    \* MAX_SNAP_KM, in metres
    NoPoint, NoRoute,
    Refused     \* the call raises

\* SUM over the edges of a way.
Total(costs) ==
    LET sum[i \in 1..(Len(costs) + 1)] == IF i = 1 THEN 0 ELSE sum[i - 1] + costs[i - 1]
    IN  sum[Len(costs) + 1]
Metres(way) == Total([i \in DOMAIN way |-> way[i].metres])
Seconds(way) == Total([i \in DOMAIN way |-> way[i].seconds])

\* Traffic decides which way is the cheapest and what it costs.  It neither
\* opens nor closes a segment, and every segment has a length, so whether there
\* is a way is the same in any traffic.
ASSUME RoutingAssumption ==
    /\ NearestTo \in [Points \cup Corners -> Corners]
    /\ MetresTo \in [Points \cup Corners -> Nat]
    /\ CentreOf \in [Zones -> Points] /\ Inside \in [Zones -> SUBSET Corners]
    /\ DrawnIn \in [Zones -> Seq(Points)]
    /\ Ways \in [SUBSET TrafficRows ->
                    [Corners \X Corners -> Seq([seconds : Nat, metres : Nat])]]
    /\ \A traffic \in SUBSET TrafficRows : \A ends \in Corners \X Corners :
          Metres(Ways[traffic][ends]) = 0 <=> Metres(Ways[{}][ends]) = 0
    /\ MaxSnap \in Nat
    /\ NoRoute \notin [metres : Nat, seconds : Nat]
    /\ NoPoint \notin Points \cup Corners /\ Refused \notin Points \cup Corners

RouteQueryAttempts == 3
Anywhere == 1000000  \* the snap limit of the last resort, in metres

\* _query_with_retry: the first tries fail this often; the last failure is
\* what the caller sees.
QueryWithRetry(failures, answer, onFailure) ==
    IF failures < RouteQueryAttempts THEN answer ELSE onFailure

\* A query that answers at once, and one that never does.
Up == 0
Down == RouteQueryAttempts

\* nearest_road_point: too far, no network and no answer are all NoPoint.
NearestRoadPoint(network, place, limit, failures) ==
    QueryWithRetry(failures,
        IF network /\ MetresTo[place] <= limit THEN NearestTo[place] ELSE NoPoint,
        NoPoint)

\* A cost column that makes a way free is replaced by 25 km/h.
SecondsOf(way) ==
    IF Seconds(way) > 0 THEN Seconds(way) ELSE (Metres(way) * 36) \div 250

Queries == {"snap_from", "snap_to", "ksp", "geometry"}
AllUp == [q \in Queries |-> Up]

(***************************************************************************)
(* route: both ends have to be near the network, pgr_ksp has to find a way *)
(* between their corners, the cheapest in this traffic, and its geometry   *)
(* has to have a length.  A query that failed three times is no way either.*)
(***************************************************************************)
Ends(network, from, to, failures) ==
    <<NearestRoadPoint(network, from, MaxSnap, failures["snap_from"]),
      NearestRoadPoint(network, to, MaxSnap, failures["snap_to"])>>

WayBetween(traffic, ends, failures) ==
    IF NoPoint \in {ends[1], ends[2]} THEN <<>>
    ELSE QueryWithRetry(failures["ksp"], Ways[traffic][ends], <<>>)

RouteAlong(way, metres) ==
    IF metres = 0 THEN NoRoute ELSE [metres |-> metres, seconds |-> SecondsOf(way)]

Route(network, traffic, from, to, failures) ==
    LET way == WayBetween(traffic, Ends(network, from, to, failures), failures)
    IN  RouteAlong(way, QueryWithRetry(failures["geometry"], Metres(way), 0))

(***************************************************************************)
(* random_road_point_in_zone: a drawn point that snaps, else the centre,   *)
(* else a corner inside the polygon, else the nearest corner at all.  Only *)
(* an empty network lets an unsnapped point through; anything else raises. *)
(* down says which of the queries fail for good; the one for corners in    *)
(* the polygon has no retry and no handler.                                *)
(***************************************************************************)
PointQueries == {"drawn", "centre", "vertex", "unlimited", "count"}

RandomRoadPointInZone(network, zone, down) ==
    LET snapped == {i \in DOMAIN DrawnIn[zone] :
                       NearestRoadPoint(network, DrawnIn[zone][i], MaxSnap, Up) # NoPoint}
        centre == NearestRoadPoint(network, CentreOf[zone], MaxSnap, Up)
        last == NearestRoadPoint(network, CentreOf[zone], Anywhere, Up)
    IN  IF "drawn" \notin down /\ snapped # {} THEN NearestTo[DrawnIn[zone][Min(snapped)]]
        ELSE IF "centre" \notin down /\ centre # NoPoint THEN centre
        ELSE IF "vertex" \in down THEN Refused
        ELSE IF network /\ Inside[zone] # {} THEN CHOOSE c \in Inside[zone] : TRUE
        ELSE IF "unlimited" \notin down /\ last # NoPoint THEN last
        ELSE IF "count" \notin down /\ ~network THEN Head(DrawnIn[zone])
        ELSE Refused

\* build_road_point_pools: the pool of each servicable zone, here of one point.
BuildRoadPointPools(network, open, down) ==
    [z \in open |-> RandomRoadPointInZone(network, z, down[z])]
=============================================================================
