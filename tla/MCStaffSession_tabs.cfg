SPECIFICATION Spec
CONSTANTS
    Tabs = {t1, t2}
    Calls = {c1, c2}
    MaxRequests = 3
    MaxChanges = 1
    MaxFaults = 2
CHECK_DEADLOCK FALSE
INVARIANTS
    SessionKept
    RefusalIsARace
    VersionInherited
