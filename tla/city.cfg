CONSTANTS
    Zones = {z1, z2}
    Trips = {t1}
    Drivers = {d1}
    None = None
    Pickups = {z1}
    MaxNews = 3
    MaxReports = 2
    MaxFaults = 1
SPECIFICATION FairSpec
INVARIANTS WaitersAreCounted FreeWereIdleThere SpeedsCountOnce HistoryMatchesTable
PROPERTIES TrafficGoesOn DemandIsServed
