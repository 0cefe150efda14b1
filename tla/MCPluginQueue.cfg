SPECIFICATION FairSpec
CONSTANTS
    Drivers = {d1, d2}
    Keys = {k1}
    Calls = {}
    MaxAged = 2
    MaxEvents = 3
    Subscribed = {1, 3}
    MaxQueue = 2
    MaxAttempts = 2
    MaxRecoveries = 1
    MaxFaults = 1
INVARIANTS
    RetainedIsNotSkipped
PROPERTIES
    EventSettles
CHECK_DEADLOCK FALSE
