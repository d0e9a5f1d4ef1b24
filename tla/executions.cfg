\* Every fault, two executions at a time, two versions, one retry each.
SPECIFICATION Spec
CONSTANTS
    Horses = {h1, h2}
    MaxVersion = 2
    MaxRevision = 0
    MaxRetries = 1
    Faults = {"redis", "api", "database", "pipeline", "horse", "orphan"}
SYMMETRY HorseSymmetry
CHECK_DEADLOCK FALSE
INVARIANTS
    MarksAgree
    OneResult
    EvidenceIsCurrent
PROPERTIES
    OnlyAwaitedVersionWrites
