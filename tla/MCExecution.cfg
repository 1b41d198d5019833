\* One session under two kill calls, a forgiven stall and a final one.
CONSTANTS
    s1 = s1
    s2 = s2
    k1 = k1
    k2 = k2
    Sessions <- MCOneSession
    Kills <- MCTwoKills
    Target <- MCTargetTwo
    NumSteps = 3
    MaxConcurrency = 1
    MaxStalled = 1
SPECIFICATION Spec
INVARIANTS
    TypeOK
    KillStopsRun
    SucceededMeansAllSteps
    StepRowsSettle
PROPERTIES
    ImplementsPromise
    EveryJobSettles
CHECK_DEADLOCK FALSE
