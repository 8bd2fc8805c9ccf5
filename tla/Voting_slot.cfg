SPECIFICATION Spec
CONSTANTS
    s1 = s1
    e1 = e1
    v1 = v1
    a1 = a1
    a2 = a2
    n1 = n1
    n2 = n2
    n3 = n3
    c1 = c1
    c2 = c2
    c3 = c3
    w1 = w1
    w2 = w2
    NoTime = NoTime
    Free = Free
    NoVote = NoVote
    NoChoice = NoChoice
    Editors = {}
    Setters = {}
    InitialEvents <- MCOpenNow
    Attrs <- NoAttrs
    MaxTime = 1
    Staff = {}
    Voters = {v1}
    Awards = {a1, a2}
    Nominations = {n1, n2, n3}
    InitiallyApproved <- AllApproved
    Patches <- KeepsActive
    AwardOf <- TwoAwards
    Casts = {c1, c2, c3}
    Removals = {a1}
    Voids = {w1, w2}
SYMMETRY Symmetry
INVARIANTS TypeOK OneActiveVote AuditMatchesVotes DuplicateWasReal VotesKeepTheirNomination
PROPERTIES AppendOnly ImplementsBallot
CHECK_DEADLOCK FALSE
