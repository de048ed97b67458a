\* Two workers, no fault at all: the second job comes from reconciliation.
SPECIFICATION Spec
CONSTANTS
    NULL = NULL
    Interviews = {i1}
    Workers = {w1, w2}
    Apis = {a1}
    HasJob = {i1}
    Texts = {t1}
    Labelled = {t1}
    Empty = empty
    Turns = turns
    AsrResults = {t1}
    Pyannote = FALSE
    WithScheduler = FALSE
    MaxRetries = 1
    MaxTokens = 2
    MaxEnqueues = 2
    MaxFaults = 0
PROPERTY DecisionStands
CHECK_DEADLOCK FALSE
