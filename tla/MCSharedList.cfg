\* Either mode: one interview, a change of dataset, two requests at once.
SPECIFICATION FairSpec
CONSTANTS
    NULL = NULL
    Ids = {i1}
    Statuses = {pontuando, aguardando}
    Moving = {pontuando}
    Modes = {TRUE, FALSE}
    Slots = {s1, s2}
    MaxSwitches = 1
    MaxWrites = 2
    MaxFaults = 1
INVARIANTS SummariesAreCurrent TitlesAreCurrent DemoIsReread
PROPERTY ListCatchesUp
CHECK_DEADLOCK FALSE
