SPECIFICATION Spec
CONSTANTS
    admin = admin
    officer = officer
    lead = lead
    root = root
    w1 = w1
    w2 = w2
    Users = {admin, lead}
    NoUser = NoUser
    RoleOf <- MCRoleOf
    Workers = {w1, w2}
    ActiveUsers = {}
    NotifyStatuses = {}
    MaxHistory = 5
    MaxFaults = 0
SYMMETRY WorkerSymmetry
INVARIANTS
    HistoryTracksRow
    HistoryFollowsGraph
PROPERTIES
    GraphUnlessOvertaken
    DraftBeforeReview
