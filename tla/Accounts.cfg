CONSTANTS
    w1 = w1
    w2 = w2
    Workers = {w1, w2}
    u1 = u1
    Staff = {u1}
    a1 = a1
    a2 = a2
    Superusers = {a1, a2}
    b1 = b1
    Browsers = {b1}
    NoOne = NoOne
    MaxPasswords = 3
SYMMETRY Symmetry
SPECIFICATION Spec
INVARIANTS
    TypeOK
    UndoneOnlyByOverlap
    ChangeKeepsSession
    ProfileNamesLastEditor
