SPECIFICATION Spec
CONSTANTS
    s1 = s1
    e1 = e1
    v1 = v1
    a1 = a1
    a2 = a2
    n1 = n1
    n2 = n2
    n3 = n3
    c1 = c1
    c2 = c2
    c3 = c3
    w1 = w1
    w2 = w2
    NoTime = NoTime
    Free = Free
    NoVote = NoVote
    NoChoice = NoChoice
    Editors = {}
    Setters = {s1}
    InitialEvents <- MCAboutToOpen
    Attrs <- NoAttrs
    MaxTime = 2
    Staff = {s1}
    Voters = {v1}
    Awards = {a1}
    Nominations = {n1}
    InitiallyApproved <- NoneApproved
    Patches <- NoPatches
    AwardOf <- OneAward
    Casts = {c1, c2}
    Removals = {a1}
    Voids = {}
PROPERTIES ClosingDrains BlockingDrains CastsAreAnswered
