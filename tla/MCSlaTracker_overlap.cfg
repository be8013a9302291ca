SPECIFICATION FairSpec
CONSTANTS
    Complaints = {c1}
    Users = {chief}
    NoUser = NoUser
    Escalation = {chief}
    Monitors = {m1, m2}
    Never = Never
    WarnAfter = 1
    TargetAfter = 2
    MaxTime = 3
    MaxFaults = 1
INVARIANTS
    BreachAfterWarning
PROPERTIES
    OverdueIsBreached
    EscalationTold
