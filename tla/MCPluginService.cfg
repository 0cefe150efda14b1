SPECIFICATION Spec
CONSTANTS
    Drivers = {d1, d2}
    Keys = {k1}
    Calls = {c1}
    MaxAged = 0
    MaxEvents = 1
    Subscribed = {1}
    MaxQueue = 2
    MaxAttempts = 2
    MaxRecoveries = 1
    MaxFaults = 2
SYMMETRY DriverSymmetry
INVARIANTS
    TypeOK
    AttemptsDoNotOverlap
PROPERTIES
    ReceiptSpec
    AckIsFinal
CHECK_DEADLOCK FALSE
