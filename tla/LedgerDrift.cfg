CONSTANTS
    w1 = w1
    w2 = w2
    Workers = {w1, w2}
    c1 = c1
    Customers = {c1}
    h1 = h1
    Halkhatas = {h1}
    NoHalkhata = NoHalkhata
    NoWorker = NoWorker
    Amounts = {1}
    MaxTx = 2
    Operations = {"create", "correct", "void", "rebuild"}
SPECIFICATION Spec
INVARIANTS
    CachedBalanceExact
