SPECIFICATION Spec
CONSTANTS
    Workers = {w1, w2}
    MaxAttempts = 2
    RequestLimit = 1
    MaxCodes = 2
    MaxEntries = 5
    MaxFaults = 1
INVARIANTS
    EntriesBounded
    UsedOnce
    LastCodeWorks
CHECK_DEADLOCK FALSE
