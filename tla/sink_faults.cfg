CONSTANTS
    Stored = {lifecycle, positions}
    Enriched = {lifecycle}
    Unstored = {requests}
    MaxRows = 2
    Capacity = 3
    MaxEvents = 2
    MaxFaults = 2
SPECIFICATION FairSpec
PROPERTIES KeepsPromise EveryRowArrives
CHECK_DEADLOCK FALSE
