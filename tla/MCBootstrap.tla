---------------------------- MODULE MCBootstrap ----------------------------
\* Bootstrap on a city of three zones and a week of two trips, for TLC.
EXTENDS Bootstrap

CONSTANTS zTown, zPark, zWater, street, avenue, bridge, plaza, bench, buoy, pier, d1, d2, d3

MCPoints == {plaza, bench, buoy, pier}
MCCorners == {street, avenue}
MCNearest == [p \in MCPoints \cup MCCorners |->
                IF p \in {plaza, street, pier} THEN street ELSE avenue]
MCMetres == [p \in MCPoints \cup MCCorners |->
               CASE p \in MCCorners -> 0 [] p = plaza -> 80 [] p = bench -> 400
                 [] p = pier -> 700 [] OTHER -> 2500]
MCCentres == [z \in {zTown, zPark, zWater} |->
                CASE z = zTown -> plaza [] z = zPark -> bench [] OTHER -> buoy]
MCDrawn == [z \in {zTown, zPark, zWater} |->
              CASE z = zTown -> <<pier, plaza>> [] z = zPark -> <<pier, buoy>> [] OTHER -> <<buoy>>]
MCInside == [z \in {zTown, zPark, zWater} |->
               CASE z = zTown -> {street} [] z = zPark -> {avenue} [] OTHER -> {}]
\* The bridge may have a factor.
MCTraffic == {[segment |-> bridge, factor |-> 14]}
\* One way from the street to the avenue, over the bridge or, when it is slow,
\* round it; and none back.
MCWays == [t \in SUBSET MCTraffic |-> [c \in MCCorners \X MCCorners |->
             IF c # <<street, avenue>> THEN <<>>
             ELSE IF t = {} THEN <<[seconds |-> 60, metres |-> 500], [seconds |-> 0, metres |-> 20]>>
             ELSE <<[seconds |-> 75, metres |-> 900]>>]]
MCStraight == [c \in MCCorners \X MCCorners |-> IF c[1] = c[2] THEN 0 ELSE 400]
MCOrder == <<zTown, zPark, zWater>>

Draw(outcome, pickup, dropoff, suffix) ==
    [outcome |-> outcome, driver |-> d1, second |-> 40000, pickup |-> pickup,
     dropoff |-> dropoff, suffix |-> suffix]
Yes(s) == [status |-> "accepted", response |-> s]
No(s) == [status |-> "declined", response |-> s]
Silence == [status |-> "expired", response |-> None]
Luck(answers, reason) ==
    [asked |-> <<d2, d3, d2, d1, d3>>, answers |-> answers, reason |-> reason,
     accept |-> 1, arrive |-> 90, late |-> 120, early |-> 300, board |-> 20, pace |-> 75]
Quick == <<Yes(1), No(2), No(2), No(2), No(2)>>
Third == <<No(19), Silence, Yes(8), Silence, No(2)>>
Fifth == <<Silence, Silence, No(2), Silence, Yes(8)>>
Nobodys == <<Silence, Silence, Silence, Silence, No(19)>>

Seed(first, second, luck) ==
    [draws |-> <<<<first, second>>>>, luck |-> luck, home |-> [d \in {d1, d2, d3} |-> "high"]]

\* Four weeks of two trips.  The town has a way to the park; the park has none.
MCSeeds ==
    {\* both completed
     Seed(Draw("completed", "low", "high", 1), Draw("completed", "low", "high", 2),
          <<Luck(Third, 1), Luck(Quick, 1)>>),
     \* one cancelled at the kerb, one on the way there
     Seed(Draw("cancelled_by_driver", "low", "high", 1), Draw("cancelled_by_passenger", "low", "high", 2),
          <<Luck(Fifth, 1), Luck(Third, 2)>>),
     \* a trip without a way, so the other one gets its draws, and nobody takes it
     Seed(Draw("completed", "high", "high", 1), Draw("cancelled_by_passenger", "low", "high", 2),
          <<Luck(Nobodys, 3), Luck(Third, 1)>>),
     \* an id twice, for a trip nobody was to drive and for one somebody was
     Seed(Draw("no_driver_found", "low", "high", 1), Draw("completed", "low", "high", 1),
          <<Luck(Third, 1), Luck(Quick, 1)>>)}
=============================================================================
