CONSTANTS
    e = e
    s1 = s1
    s2 = s2
    None = None
    NoSearch = e
    Searches = {e, s1, s2}
    Pages = {1, 2}
    FirstPage = 1
    MaxTrail = 2
SPECIFICATION Spec
SYMMETRY Symmetry
INVARIANTS
    TypeOK
    ListFollowsTheUser
CHECK_DEADLOCK FALSE
