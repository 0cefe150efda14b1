SPECIFICATION Spec
CONSTANTS
    j1 = j1
    j2 = j2
    k = k
    Jobs = {j1, j2}
    Key <- MCKey
    NoKey = NoKey
    Granted = {j1}
    Limit <- MCLimit
    AttemptLimit <- MCAttemptLimit
    Capacity = 2
    Results = {r1, r2}
    NoResult = NoResult
    StoreFaults = FALSE
INVARIANTS
    RecordsAgree
    OneWorkerPerAttempt
    KeyExcludes
PROPERTIES
    EvidenceKept
    AttemptSettles
    ShutdownEnds
