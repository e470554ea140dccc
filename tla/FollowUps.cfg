CONSTANTS
    w1 = w1
    w2 = w2
    Workers = {w1, w2}
    c1 = c1
    Customers = {c1}
    n1 = n1
    NoNote = NoNote
    NoWorker = NoWorker
    Notes = {n1}
    MaxId = 3
    MaxDay = 1
    Operations = {"create", "update", "complete", "archive"}
SPECIFICATION FairSpec
INVARIANTS
    TypeOK
    RescheduleTrail
PROPERTIES
    InsertionsAllowed
    ImplementsReminders
    EveryRequestEnds
