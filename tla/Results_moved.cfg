SPECIFICATION ReaderSpec
CONSTANTS
    e1 = e1
    e2 = e2
    k1 = k1
    k3 = k3
    a1 = a1
    a2 = a2
    n1 = n1
    n2 = n2
    n3 = n3
    n4 = n4
    x1 = x1
    x2 = x2
    x3 = x3
    Events = {e1, e2}
    Categories = {k1, k3}
    Awards = {a1, a2}
    Nominations = {n1, n2, n3, n4}
    AwardOf <- MCAwardOf
    InitialHome <- MCHome
    InitialShelf <- MCShelf
    VoteIds = {x1, x2, x3}
    NoVote = NoVote
    Requested = {e1}
    Nobody = Nobody
SYMMETRY Symmetry
INVARIANT TallyIsSumOfVotes
CHECK_DEADLOCK FALSE
