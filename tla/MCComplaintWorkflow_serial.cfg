SPECIFICATION FairSpec
CONSTANTS
    admin = admin
    officer = officer
    lead = lead
    root = root
    w1 = w1
    w2 = w2
    Users = {admin, officer, lead}
    NoUser = NoUser
    RoleOf <- MCRoleOf
    Workers = {w1}
    ActiveUsers = {officer, lead}
    NotifyStatuses = {"CLOSED", "RESPONSE_ISSUED"}
    MaxHistory = 10
    MaxFaults = 1
INVARIANTS
    HistoryAuthorised
PROPERTIES
    OwnerDoesTheWork
    AssigneeTold
