SPECIFICATION Spec
CONSTANTS
    Requests = {q1, q2}
    Workers = {w1, w2, w3}
    NoWorker = NoWorker
    MaxConcurrency = 1
    MaxRetries = 1
INVARIANT OnlyOwnWorkerIsClosed
CHECK_DEADLOCK FALSE
