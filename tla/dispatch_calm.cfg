CONSTANTS
    Trips = {t1}
    Drivers = {d1, d2}
    None = None
    MaxOffers = 2
    MaxPerTick = 1
    MaxCrashes = 0
SPECIFICATION FairCalmSpec
INVARIANTS OneStory AnsweredMeansMoved UnmatchedTookNoOffer PublishedIsRecorded
PROPERTY KeepsLifecycle
