CONSTANTS
    Drivers = {d1, d2, d3}
    d1 = d1
    d2 = d2
    d3 = d3
    None = None
    OfferTimeout = 20
    Zones = {zTown, zPark, zWater}
    zTown = zTown
    zPark = zPark
    zWater = zWater
    street = street
    avenue = avenue
    bridge = bridge
    plaza = plaza
    bench = bench
    buoy = buoy
    pier = pier
    Points <- MCPoints
    Corners <- MCCorners
    NearestTo <- MCNearest
    MetresTo <- MCMetres
    CentreOf <- MCCentres
    DrawnIn <- MCDrawn
    Inside <- MCInside
    TrafficRows <- MCTraffic
    Ways <- MCWays
    Straight <- MCStraight
    MaxSnap = 500
    NoPoint = NoPoint
    NoRoute = NoRoute
    Refused = Refused
    ZoneOrder <- MCOrder
    HistoryDays = 1
    TripsPerDay = 2
    Workers = 2
    PositionsPerTrip = 3
    Migrations = 2
    Seeds <- MCSeeds
    HasCsv = TRUE
    LastDay = 1
    MaxDeaths = 1
    MaxLost = 1
    NoWeek = NoWeek
SPECIFICATION FairSpec
INVARIANTS ReleasedMeansPrepared MigratedOnce NothingDoubled WeekIsConsistent StoresAgree OnTheStreets
PROPERTY EventuallyServing
