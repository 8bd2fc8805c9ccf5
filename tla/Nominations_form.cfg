SPECIFICATION Spec
CONSTANTS
    s1 = s1
    s2 = s2
    e1 = e1
    p1 = p1
    p2 = p2
    m1 = m1
    m2 = m2
    f1 = f1
    staff = staff
    a1 = a1
    bob = bob
    eve = eve
    NoTime = NoTime
    Free = Free
    NoNomination = NoNomination
    Editors = {}
    Staff = {}
    Attrs <- NoAttrs
    Awards = {a1}
    MaxTime = 1
    Setters = {}
    InitialEvents <- MCOpen
    Submissions = {p1}
    Reviews = {m1}
    Forms = {f1}
    Names = {bob}
PROPERTY StatusOnlyByReview
CHECK_DEADLOCK FALSE
