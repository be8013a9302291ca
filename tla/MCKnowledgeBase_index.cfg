\* One worker and one crash of it, one failed call; requests and messages overlap.
SPECIFICATION FairSpec
CONSTANTS
    Articles = {a1}
    Workers = {w1}
    Requests = {r1}
    Chats = {q1, q2}
    NoOne = NoOne
    Size <- MCSize
    TurnCap = 1
    MaxRevision = 2
    MaxWaiting = 1
    MaxCrashes = 1
    MaxFaults = 1
CHECK_DEADLOCK FALSE
INVARIANTS
    OnlyPublishedIsUsed
    SettledIsWhole
    CapHolds
PROPERTIES
    ReindexRepairs
