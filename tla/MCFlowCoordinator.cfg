SPECIFICATION Spec
CONSTANTS
    Definitions <- MCDefinitions
    Calls = {c1, c2}
    MaxInstances = 2
    MaxAttempts = 2
    MaxInputs = 2
    Cancelled = Cancelled
    CancelId = CancelId
    work = work
    review = review
    done = done
    submit = submit
    again = again
    accept = accept
INVARIANTS
    
    VerdictsFitAttempt
    TrailJustifiesState
PROPERTIES
    
    
    InFlightReleased
