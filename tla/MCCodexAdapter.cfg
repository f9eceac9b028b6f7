SPECIFICATION FairSpec
CONSTANTS
    Requests = {q1, q2}
    Workers <- MCWorkers
    NoWorker = NoWorker
    MaxConcurrency = 2
INVARIANTS CodexTypeOK OnlyGatewayErrorsAreReplayed WorkersWithinLimit EveryProcessHasOneOwner
PROPERTIES ImplementsWorkerLease CancelledCallEnds
CHECK_DEADLOCK FALSE
