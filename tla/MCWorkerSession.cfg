SPECIFICATION Spec
CONSTANTS
    plain = plain
    first = first
    again = again
    inv = inv
    None = None
    Subs <- MCSubs
    Notes = {n1}
    Invs <- MCInvs
    InvOf <- MCInvOf
    Procs = {p1, p2}
    First = p1
    MaxPending = 2
    MaxSegments = 2
VIEW View
SYMMETRY Symmetry
INVARIANTS
    RestartOwesTheSame
    InputOnce
    InvokedOnce
    WriterIsPublished
CHECK_DEADLOCK FALSE
