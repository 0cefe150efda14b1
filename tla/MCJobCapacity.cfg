SPECIFICATION Spec
CONSTANTS
    j1 = j1
    j2 = j2
    j3 = j3
    Jobs = {j1, j2, j3}
    Key <- MCKey
    NoKey = NoKey
    Granted = {}
    Limit <- MCLimit
    AttemptLimit <- MCAttemptLimit
    Capacity = 2
    Results = {r1}
    NoResult = NoResult
    StoreFaults = TRUE
SYMMETRY MCSymmetry
INVARIANTS
    DispatchedIsOwned
    CapacityRespected
    CleanShutdown
