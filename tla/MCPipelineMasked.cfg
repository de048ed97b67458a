\* RQ's scheduler running, as many faults as a job has retries.
SPECIFICATION FairSpec
CONSTANTS
    NULL = NULL
    Interviews = {i1}
    Workers = {w1}
    Apis = {a1}
    HasJob = {i1}
    Texts = {t1}
    Labelled = {t1}
    Empty = empty
    Turns = turns
    AsrResults = {t1}
    Pyannote = FALSE
    WithScheduler = TRUE
    MaxRetries = 2
    MaxTokens = 2
    MaxEnqueues = 3
    MaxFaults = 2
PROPERTY FaultsAreMasked
CHECK_DEADLOCK FALSE
