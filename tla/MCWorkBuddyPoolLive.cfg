SPECIFICATION FairSpec
CONSTANTS
    Requests = {q1, q2}
    Workers = {w1, w2, w3}
    NoWorker = NoWorker
    MaxConcurrency = 1
    MaxRetries = 1
PROPERTIES ImplementsWorkerLease CancelledCallEnds DrainingCallEnds RetiredPoolEnds
CHECK_DEADLOCK FALSE
