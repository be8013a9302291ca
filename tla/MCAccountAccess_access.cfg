SPECIFICATION FairSpec
CONSTANTS
    Workers = {w1, w2}
    ResetTokens = {t1}
    NoResetToken = NoResetToken
    MaxAttempts = 2
    MaxRequests = 5
    MaxPasswords = 2
    MaxFaults = 1
INVARIANTS
    LockEarned
    MissesBounded
    PasswordStands
PROPERTIES
    MissesForgotten
    CommitEndsSessions
CHECK_DEADLOCK FALSE
