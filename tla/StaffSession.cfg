SPECIFICATION Spec
CONSTANTS
    u1 = u1
    l1 = l1
    l2 = l2
    r1 = r1
    r2 = r2
    o1 = o1
    c1 = c1
    EventAdmin = EventAdmin
    Users = {u1}
    Logins = {l1, l2}
    Refreshes = {r1, r2}
    Logouts = {o1}
    Calls = {c1}
    Roles = {EventAdmin}
    VoterToken = VoterToken
    Nobody = Nobody
    NoToken = NoToken
    Gone = Gone
    Forms <- MCForms
    Workers = 2
    MaxSaves = 2
SYMMETRY Symmetry
INVARIANTS TypeOK NothingMissing OverIsOver HoldersAreKnown
PROPERTIES OnlyFormsChangeAccounts
CHECK_DEADLOCK FALSE
