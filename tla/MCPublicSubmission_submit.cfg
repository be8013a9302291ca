SPECIFICATION Spec
CONSTANTS
    Files = {f1, f2}
    NoFile = NoFile
    MaxFiles = 2
    MaxSends = 2
    MaxUploads = 3
    MaxLeaves = 1
    MaxFaults = 1
INVARIANTS
    ShownIsTrue
    OneComplaint
CHECK_DEADLOCK FALSE
PROPERTIES
    FormKept
