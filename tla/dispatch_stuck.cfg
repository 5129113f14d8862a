CONSTANTS
    Trips = {t1}
    Drivers = {d1, d2}
    None = None
    MaxOffers = 2
    MaxPerTick = 1
    MaxCrashes = 1
SPECIFICATION Spec
INVARIANT AnsweredMeansMoved
