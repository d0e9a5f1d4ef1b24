CONSTANTS
    Attempts = {a1, a2}
    MaxRevision = 1
    MaxLost = 1
    MaxRepeats = 1
    LeftOut = {"setup", "ocr", "parsing"}
SPECIFICATION Spec
SYMMETRY AttemptSymmetry
INVARIANTS CountedOnce StagesAreNested
CHECK_DEADLOCK FALSE
