SPECIFICATION FairSpec
CONSTANTS
    RunIds = {q1, q2}
    Clients = {c1}
    Keys = {k1}
    NoKey = NoKey
    Fingerprints = {f1}
    Charges <- MCCharges
    DailyLimit <- Unlimited
    NoLimit = NoLimit
    NoRun = NoRun
    NoCharge = NoCharge
    DayLength = 1
    MaxTime = 0
    MaxFaults = 1
    MaxRestarts = 1
PROPERTIES CancelledRequestEnds AdapterIsReleased ImplementsRunLedger
CHECK_DEADLOCK FALSE
