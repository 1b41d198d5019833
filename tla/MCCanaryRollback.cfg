\* The claim that the rollback after a failed gate stands.
CONSTANTS
    d1 = d1
    c1 = c1
    s1 = s1
    s2 = s2
    e1 = e1
    p1 = p1
    r1 = r1
    w1 = w1
    w2 = w2
    Deployments <- MCOne
    Calls <- MCRollbackCalls
    Kind <- MCKind
    Target <- MCTarget
    Workers <- MCWorkers
    InitialPct = 5
    StepPct = 10
    MaxPct = 20
    AutoRollback = TRUE
    Results <- MCAllResults
    MaxWindow = 3
    DeferSlots = 1
    MaxStalled = 0
SPECIFICATION Spec
PROPERTIES
    RollbackIsFinal
CHECK_DEADLOCK FALSE
