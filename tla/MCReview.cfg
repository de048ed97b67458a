\* Two interviews and navigation between them; two requests at once, a fault.
SPECIFICATION Spec
CONSTANTS
    NULL = NULL
    Ids = {i1, i2}
    Slots = {s1, s2}
    MaxFaults = 1
SYMMETRY Symmetric
INVARIANTS OneDecisionInFlight NoPhantomDecision
CHECK_DEADLOCK FALSE
