SPECIFICATION QuotaSpec
CONSTANTS
    RunIds = {r1, r2, r3}
    Clients = {c1, c2}
    Keys = {k1}
    NoKey = NoKey
    Fingerprints = {f1}
    Charges <- MCCharges
    DailyLimit <- Limited
    NoLimit = NoLimit
    NoRun = NoRun
    NoCharge = NoCharge
    DayLength = 2
    MaxTime = 2
INVARIANTS LedgerConsistent KeysOwnTheirRun OvershootIsBounded
PROPERTIES EndedRunsAreFinal UsedUpQuotaAdmitsNothing
SYMMETRY Symmetry
CHECK_DEADLOCK FALSE
