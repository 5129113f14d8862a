CONSTANTS
    Keys = {driver, trip}
    BatchSize = 2
    MaxChanges = 3
    MaxFaults = 3
SPECIFICATION Spec
INVARIANTS CommittedIsApplied ReplayConverges BatchStaysSmall
CHECK_DEADLOCK FALSE
