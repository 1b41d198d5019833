\* Hard gates only, two starts, windows deferred any number of times.
CONSTANTS
    d1 = d1
    c1 = c1
    s1 = s1
    s2 = s2
    e1 = e1
    p1 = p1
    r1 = r1
    w1 = w1
    w2 = w2
    Deployments <- MCOne
    Calls <- MCTwoStartCalls
    Kind <- MCKind
    Target <- MCTarget
    Workers <- MCOneWorker
    InitialPct = 5
    StepPct = 10
    MaxPct = 20
    AutoRollback = TRUE
    Results <- MCHardResults
    MaxWindow = 2
    DeferSlots = 2
    MaxStalled = 0
SPECIFICATION Spec
PROPERTIES
    HardGatesDecide
CHECK_DEADLOCK FALSE
