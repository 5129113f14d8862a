CONSTANTS
    Trips = {t1, t2}
    Drivers = {d1}
    None = None
    MaxOffers = 1
    MaxPerTick = 1
    MaxCrashes = 1
SPECIFICATION Spec
SYMMETRY Symmetric
INVARIANTS CommittedMeansDecided FourCopiesAgree AnnouncedIsReadable StampsInOrder OneAcceptTold
