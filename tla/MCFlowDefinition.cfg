SPECIFICATION Spec
CONSTANTS
    Cancelled = "$cancelled"
    CancelId = "$cancel"
    Names <- MCNames
    TransitionIds <- MCTransitionIds
    WellFormed <- MCIds
    Reserved <- MCReserved
    MaxStates = 3
    MaxTransitions = 2
    Sources <- MCSources
INVARIANTS
    GraphVerdictExact
    AcceptedIsRunnable
PROPERTIES
    Terminates
CHECK_DEADLOCK FALSE
