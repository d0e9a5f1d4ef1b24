\* Horses die, steps fail and Redis loses enqueues, but PostgreSQL and the API
\* answer.
SPECIFICATION FairSpec
CONSTANTS
    Horses = {h1, h2}
    MaxVersion = 2
    MaxRevision = 0
    MaxRetries = 1
    Faults = {"redis", "pipeline", "horse"}
CHECK_DEADLOCK FALSE
INVARIANTS
    OnlyUploadsStranded
PROPERTIES
    WaitingSettles
