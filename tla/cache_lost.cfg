CONSTANTS
    Keys = {driver, trip}
    BatchSize = 2
    MaxChanges = 2
    MaxFaults = 1
SPECIFICATION FailingSpec
INVARIANT CommittedIsApplied
