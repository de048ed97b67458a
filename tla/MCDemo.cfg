\* A failed interview, one in review, one created or ingested, a reset.
SPECIFICATION FairStagingSpec
CONSTANTS
    NULL = NULL
    FailedSeeds = {f1}
    ReadySeeds = {a1}
    Externals = {x1}
    MaxRuntime = 1
    MaxResets = 1
    HandStages = {"triagem", "proposta"}
    MaxHandMoves = 1
INVARIANTS  RecordsAreOfTheirRow
PROPERTIES PlaybackEnds StampsTellRowsApart
CHECK_DEADLOCK FALSE
