\* The claim that an active canary is evaluated again, soft gates included.
CONSTANTS
    d1 = d1
    c1 = c1
    s1 = s1
    s2 = s2
    e1 = e1
    p1 = p1
    r1 = r1
    w1 = w1
    w2 = w2
    Deployments <- MCOne
    Calls <- MCStartCalls
    Kind <- MCKind
    Target <- MCTarget
    Workers <- MCWorkers
    InitialPct = 5
    StepPct = 10
    MaxPct = 20
    AutoRollback = TRUE
    Results <- MCAllResults
    MaxWindow = 3
    DeferSlots = 1
    MaxStalled = 0
SPECIFICATION Spec
INVARIANTS
    ActiveHasEvaluation
CHECK_DEADLOCK FALSE
