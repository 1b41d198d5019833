\* Racing starts, a manual evaluation, all gate results, one redelivery.
CONSTANTS
    d1 = d1
    c1 = c1
    s1 = s1
    s2 = s2
    e1 = e1
    p1 = p1
    r1 = r1
    w1 = w1
    w2 = w2
    Deployments <- MCOne
    Calls <- MCRaceCalls
    Kind <- MCKind
    Target <- MCTarget
    Workers <- MCWorkers
    InitialPct = 5
    StepPct = 10
    MaxPct = 20
    AutoRollback = FALSE
    Results <- MCAllResults
    MaxWindow = 2
    DeferSlots = 0
    MaxStalled = 1
SYMMETRY MCSymmetry
SPECIFICATION Spec
INVARIANTS
    TypeOK
    TrafficEarned
    PromotionEarned
    DecisionRecorded
    OneEvaluation
CHECK_DEADLOCK FALSE
