SPECIFICATION Spec
CONSTANTS
    Requests = {q1, q2, q3}
    Workers = {w1, w2, w3}
    NoWorker = NoWorker
    MaxConcurrency = 2
    MaxRetries = 1
INVARIANTS TypeOK CountersExact CapacityRespected EveryProcessHasOneOwner SleepersWillBeWoken
PROPERTY WorkersAreReplaced
SYMMETRY Symmetry
CHECK_DEADLOCK FALSE
