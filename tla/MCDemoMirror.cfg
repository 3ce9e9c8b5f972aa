CONSTANTS
    None = None
    p1 = p1
    p2 = p2
    e1 = e1
    e2 = e2
    Page = {p1, p2}
    Event = {e1, e2}
    Time = {1, 2}
    AcceptsUnsigned = {TRUE, FALSE}
    MaxSyncs = 2
    MaxReloads = 1
SPECIFICATION Spec
SYMMETRY MCSymmetry
INVARIANT MapMirrorsDag
CHECK_DEADLOCK FALSE
