CONSTANTS
    w1 = w1
    w2 = w2
    c1 = c1
    c2 = c2
    c3 = c3
    h1 = h1
    Workers = {w1}
    Customers = {c1, c2, c3}
    Halkhatas = {h1}
    Balances = {0, 5}
    MaxGenerations = 1
    MaxMoments = 4
SPECIFICATION Spec
SYMMETRY Symmetry
INVARIANTS
    TypeOK
    CardsFitTheCustomers
CHECK_DEADLOCK FALSE
