\* A mail and its resend, two workers; two faults of any kind.
SPECIFICATION FairSpec
CONSTANTS
    Deliveries = {d1, d2}
    Resends = {d2}
    Workers = {w1, w2}
    None = None
    MaxAttempts = 2
    MaxStalls = 1
    MaxFaults = 2
CHECK_DEADLOCK FALSE
INVARIANTS
    GivenUpIsFailed
PROPERTIES
    SentIsFinal
    ImplementsOutbox
    Settles
