CONSTANTS
    r1 = r1
    r2 = r2
    w1 = w1
    w2 = w2
    f1 = f1
    f2 = f2
    o1 = o1
    o2 = o2
    Readers = {r1}
    Writers = {w1, w2}
    Filters = {f1, f2}
    Orders = {o1, o2}
    InitialVersion = 0
    WriterOps = {"save", "import", "load"}
    MaxVersion = 4
    MaxContent = 2
    p1 = p1
    p2 = p2
    Requests = {p1, p2}
    Levels = {"division", "district"}
    n1 = n1
    n2 = n2
    Names = {n1, n2}
    MaxId = 2
SPECIFICATION Spec
SYMMETRY Symmetry
INVARIANTS
    TypeOK
    ListsServe
PROPERTIES
    RegistryKept
CHECK_DEADLOCK FALSE
