\* A deletion whose answer is lost.
SPECIFICATION Spec
CONSTANTS
    Ops = {o1, o2}
    Procs = {p1, p2}
    Nobody = Nobody
    MaxAttempts = 3
    MaxRetries = 1
INVARIANT UncertainIsKept
CHECK_DEADLOCK FALSE
