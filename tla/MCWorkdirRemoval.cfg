\* Two requests for one Workdir, two Backend processes that may overlap, and
\* three attempts between them.
SPECIFICATION Spec
CONSTANTS
    Ops = {o1, o2}
    Procs = {p1, p2}
    Nobody = Nobody
    MaxAttempts = 3
    MaxRetries = 1
SYMMETRY Interchangeable
INVARIANTS
    TypeOK
    DeletesOnce
    NobodyAttachesMeanwhile
    OneExecutor
PROPERTIES
    RemovedIsGone
    AnswerIsFinal
CHECK_DEADLOCK FALSE
