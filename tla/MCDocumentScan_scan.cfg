\* One document, two workers; three faults of any kind among its three attempts.
SPECIFICATION FairSpec
CONSTANTS
    Documents = {d1}
    Workers = {w1, w2}
    NoOne = NoOne
    Attempts = 3
    MaxStalls = 1
    MaxFaults = 3
CHECK_DEADLOCK FALSE
INVARIANTS
    ServedIsClean
    EvidenceKept
    DeletedIsGone
PROPERTIES
    
    ScanSettles
