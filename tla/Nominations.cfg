SPECIFICATION Spec
CONSTANTS
    s1 = s1
    s2 = s2
    e1 = e1
    p1 = p1
    p2 = p2
    m1 = m1
    m2 = m2
    f1 = f1
    staff = staff
    a1 = a1
    bob = bob
    eve = eve
    NoTime = NoTime
    Free = Free
    NoNomination = NoNomination
    Editors = {e1}
    Staff = {staff}
    Attrs <- MCAttrs
    Awards = {a1}
    MaxTime = 1
    Setters = {s1, s2}
    InitialEvents <- MCInitial
    Submissions = {p1, p2}
    Reviews = {m1, m2}
    Forms = {f1}
    Names = {bob, eve}
SYMMETRY Symmetry
INVARIANTS TypeOK ReviewedExactlyOnce StatusWasReviewed DuplicatesOnlyFromRaces
           PublicationConsistent StatusWasDecided
PROPERTIES SubmissionsDrain StatusFollowsTransitions
CONSTRAINT PatchesKeepApart
CHECK_DEADLOCK FALSE
