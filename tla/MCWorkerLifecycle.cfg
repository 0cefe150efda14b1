SPECIFICATION Spec
CONSTANTS
    Restores = {r1, r2}
    Stops = {s1}
    Nobody = Nobody
SYMMETRY RequestSymmetry
INVARIANT StoppedMeansDown
PROPERTY AnswersStand
PROPERTY StopFencesWork
