SPECIFICATION Spec
CONSTANTS
    RunIds = {q1, q2}
    Clients = {c1}
    Keys = {k1}
    NoKey = NoKey
    Fingerprints = {f1, f2}
    Charges <- MCCharges
    DailyLimit <- Limited
    NoLimit = NoLimit
    NoRun = NoRun
    NoCharge = NoCharge
    DayLength = 1
    MaxTime = 1
    MaxFaults = 1
    MaxRestarts = 1
INVARIANTS TypeOK ShownBillIsOnRecord FailureIsFree OwnRunStaysOpen RunLeftOpenHasACause OneCallPerKey
PROPERTY CompletedKeyIsReplayed
SYMMETRY Symmetry
CHECK_DEADLOCK FALSE
