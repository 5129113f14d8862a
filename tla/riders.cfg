CONSTANTS
    Trips = {t1}
    Drivers = {d1}
    None = None
    MaxOffers = 1
    MaxPerTick = 1
    MaxCrashes = 1
    MaxDeaths = 1
    MaxFaults = 1
SPECIFICATION FairRidersSpec
INVARIANT RidersAreFollowed
PROPERTIES RowThenMessage EveryRiderIsHeard FollowingEnds
