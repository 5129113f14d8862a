CONSTANTS
    Trips = {t1}
    Drivers = {d1}
    None = None
    MaxOffers = 1
    MaxPerTick = 1
    MaxCrashes = 0
    MaxShifts = 2
    MaxRestarts = 1
SPECIFICATION FairMarketSpec
INVARIANTS NobodyStranded PathIsForTrip OnTripMeansStarted OfflineClosesSession
PROPERTY DriversComeBack
