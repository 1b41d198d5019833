\* The claim that a cancelled session stays cancelled.
CONSTANTS
    s1 = s1
    s2 = s2
    k1 = k1
    k2 = k2
    Sessions <- MCOneSession
    Kills <- MCOneKill
    Target <- MCTargetOne
    NumSteps = 1
    MaxConcurrency = 1
    MaxStalled = 1
SPECIFICATION Spec
PROPERTIES
    CancelledIsFinal
CHECK_DEADLOCK FALSE
