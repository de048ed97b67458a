\* A failed interview, two created, a reset and a reload.
SPECIFICATION Spec
CONSTANTS
    NULL = NULL
    FailedSeeds = {f1}
    ReadySeeds = {}
    Externals = {}
    MaxRuntime = 2
    MaxResets = 1
    MaxReloads = 1
VIEW Timeless
INVARIANT StepsFindTheirInterview
PROPERTY TourPreparesItsStep
CHECK_DEADLOCK FALSE
