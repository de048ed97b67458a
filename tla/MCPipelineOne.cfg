\* docker-compose.yml: one worker, one API process, transcripts from an API of
\* which one labels no speakers, no pyannote.  RQ's scheduler is not started, so
\* nothing but reconciliation retries.
SPECIFICATION FairSpec
CONSTANTS
    NULL = NULL
    Interviews = {i1, i2}
    Workers = {w1}
    Apis = {a1}
    HasJob = {i1}
    Texts = {t1, t2}
    Labelled = {t1}
    Empty = empty
    Turns = turns
    AsrResults = {t1, t2, empty}
    Pyannote = FALSE
    WithScheduler = FALSE
    MaxRetries = 1
    MaxTokens = 2
    MaxEnqueues = 3
    MaxFaults = 2
INVARIANTS ScorecardMatchesCheckpoints LinkWorksUntilDecision FailureIsExplained
PROPERTIES Lifecycle ReceivedIsPickedUp
CHECK_DEADLOCK FALSE
