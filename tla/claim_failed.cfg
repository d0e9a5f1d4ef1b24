\* PostgreSQL fails a transaction of a work horse.
SPECIFICATION Spec
CONSTANTS
    Horses = {h1}
    MaxVersion = 2
    MaxRevision = 0
    MaxRetries = 1
    Faults = {"database"}
CHECK_DEADLOCK FALSE
INVARIANTS
    WaitingIsAttended
