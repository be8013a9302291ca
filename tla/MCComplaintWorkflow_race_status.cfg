SPECIFICATION Spec
CONSTANTS
    admin = admin
    officer = officer
    lead = lead
    root = root
    w1 = w1
    w2 = w2
    Users = {admin, officer}
    NoUser = NoUser
    RoleOf <- MCRoleOf
    Workers = {w1, w2}
    ActiveUsers = {}
    NotifyStatuses = {"CLOSED", "RESPONSE_ISSUED"}
    MaxHistory = 5
    MaxFaults = 0
PROPERTIES
    StatusFollowsGraph
