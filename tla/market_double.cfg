CONSTANTS
    Trips = {t1, t2}
    Drivers = {d1}
    None = None
    MaxOffers = 1
    MaxPerTick = 1
    MaxCrashes = 0
    MaxShifts = 0
    MaxRestarts = 0
SPECIFICATION MarketSpec
INVARIANT OneTripPerDriver
