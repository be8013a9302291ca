SPECIFICATION FairSpec
CONSTANTS
    Exports = {e1}
    Workers = {w1, w2}
    NoOne = NoOne
    Attempts = 2
    MaxStalls = 1
    Polls = {p1, p2}
    MaxFaults = 1
CHECK_DEADLOCK FALSE
INVARIANTS
    CompletedIsDelivered
    GivenUpIsTold
PROPERTIES
    PageSettles
