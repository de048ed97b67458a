\* Two workers and duplicate jobs, an ASR that may return nothing, pyannote, and
\* RQ's scheduler.
SPECIFICATION Spec
CONSTANTS
    NULL = NULL
    Interviews = {i1}
    Workers = {w1, w2}
    Apis = {a1}
    HasJob = {i1}
    Texts = {t1}
    Labelled = {t1}
    Empty = empty
    Turns = turns
    AsrResults = {t1, empty}
    Pyannote = TRUE
    WithScheduler = TRUE
    MaxRetries = 1
    MaxTokens = 2
    MaxEnqueues = 2
    MaxFaults = 1
SYMMETRY Symmetric
INVARIANTS StatusBacked PipelineInvariant
CHECK_DEADLOCK FALSE
