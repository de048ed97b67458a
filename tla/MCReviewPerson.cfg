\* Two interviews; no request fails.
SPECIFICATION Spec
CONSTANTS
    NULL = NULL
    Ids = {i1, i2}
    Slots = {s1, s2}
    MaxFaults = 0
INVARIANT DecidesOnTheOneShown
CHECK_DEADLOCK FALSE
