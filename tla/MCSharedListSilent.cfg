\* The demonstration: an action, then a reset.
SPECIFICATION Spec
CONSTANTS
    NULL = NULL
    Ids = {i1, i2}
    Statuses = {pontuando, aguardando}
    Moving = {pontuando}
    Modes = {TRUE}
    Slots = {s1}
    MaxSwitches = 1
    MaxWrites = 1
    MaxFaults = 0
INVARIANT ResetIsSilent
CHECK_DEADLOCK FALSE
