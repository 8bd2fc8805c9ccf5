SPECIFICATION EventsSpec
CONSTANTS
    s1 = s1
    e1 = e1
    Setters = {s1}
    Editors = {e1}
    Attrs <- MCAttrs
    InitialEvents <- MCNewEvents
    MaxTime = 2
    NoTime = NoTime
    Free = Free
INVARIANT StatusIsAudited
