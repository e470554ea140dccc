CONSTANTS
    w1 = w1
    w2 = w2
    c1 = c1
    c2 = c2
    p1 = p1
    p2 = p2
    i1 = i1
    NoWorker = NoWorker
    NoPhone = NoPhone
    NoPicture = NoPicture
    Workers = {w1, w2}
    Customers = {c1, c2}
    Phones = {p1, p2}
    Pictures = {i1}
    Operations = {"create", "edit", "archive", "adminAdd", "adminSave"}
    MaxVersions = 4
SPECIFICATION SmallSpec
SYMMETRY Symmetry
INVARIANTS
    TypeOK
    CustomersConsistent
    OnlyFormsDeadlock
PROPERTIES
    ArchivedHistoryFrozen
CHECK_DEADLOCK FALSE
