\* Every graph of three nodes planned; every mix of kinds run on four shapes.
CONSTANTS
    a = a
    b = b
    c = c
    unknown = unknown
    Order <- MCOrder
    NoFlow = NoFlow
    Missing = unknown
    Flows <- MCFlows
SPECIFICATION Spec
INVARIANTS
    TypeOK
    PlanSound
    InOrder
    VerdictStands
PROPERTIES
    RunSettles
CHECK_DEADLOCK FALSE
