\* Two sessions compete for one slot of the installation; one is killed.
CONSTANTS
    s1 = s1
    s2 = s2
    k1 = k1
    k2 = k2
    Sessions <- MCTwoSessions
    Kills <- MCOneKill
    Target <- MCTargetOne
    NumSteps = 1
    MaxConcurrency = 1
    MaxStalled = 1
SPECIFICATION Spec
INVARIANTS
    QueueAnswers
CHECK_DEADLOCK FALSE
