\* run_worker.py as it stands: worker.work() without RQ's scheduler.
SPECIFICATION FairSpec
CONSTANTS
    NULL = NULL
    Interviews = {i1}
    Workers = {w1}
    Apis = {a1}
    HasJob = {i1}
    Texts = {t1}
    Labelled = {t1}
    Empty = empty
    Turns = turns
    AsrResults = {t1}
    Pyannote = FALSE
    WithScheduler = FALSE
    MaxRetries = 1
    MaxTokens = 2
    MaxEnqueues = 2
    MaxFaults = 1
PROPERTY RetriesRun
CHECK_DEADLOCK FALSE
