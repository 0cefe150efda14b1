SPECIFICATION Spec
CONSTANTS
    Invocations = {i1, i2}
    Keys = {k1}
    Calls = {c1, c2}
INVARIANTS
    EffectOnce
    ReceiptsAreTrue
PROPERTIES
    OutcomeIsFinal
CHECK_DEADLOCK FALSE
