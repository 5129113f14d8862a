CONSTANTS
    Trips = {t1, t9}
    Seeded = {t9}
    Drivers = {d1}
    None = None
    MaxOffers = 1
    MaxPerTick = 1
    MaxCrashes = 1
    BatchSize = 2
    MaxBatches = 2
SPECIFICATION ArchiveSpec
PROPERTIES OnlyArchivedTripsGo OldTripsGo
