CONSTANTS
    Requests = {q1, q2}
    Retries = 1
    MaxCommit = 2
    EmptyAt = {1}
    InvalidAt = {2}
    PageSizes = {1}
    MaxPage = 2
SPECIFICATION FairSpec
INVARIANTS InputIsOneReading PagesExist
PROPERTIES OnlyRacesExpose KeepsPromise RequestsEnd
CHECK_DEADLOCK FALSE
