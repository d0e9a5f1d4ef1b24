\* Redis does not confirm an enqueue.
SPECIFICATION Spec
CONSTANTS
    Horses = {h1}
    MaxVersion = 2
    MaxRevision = 0
    MaxRetries = 1
    Faults = {"redis"}
CHECK_DEADLOCK FALSE
INVARIANTS
    WaitingIsAttended
