CONSTANTS
    w1 = w1
    w2 = w2
    Workers = {w1, w2}
    c1 = c1
    Customers = {c1}
    h1 = h1
    Halkhatas = {h1}
    NoHalkhata = NoHalkhata
    NoWorker = NoWorker
    Amounts = {1}
    MaxTx = 1
    Operations = {"create", "pay", "void", "rebuild", "archive", "edit", "adminSave", "halkhata"}
SPECIFICATION FairSpec
INVARIANTS
    DriftOnlyByOverlap
PROPERTIES
    OnlyFormsUnarchive
    EveryRequestEnds
