\* Two calls of any kind, two consumers, one fault or crash.
CONSTANTS
    Calls = {c1, c2}
    Kinds <- AllKinds
    Consumers = {k1, k2}
    BatchSize = 2
    MaxFaults = 1
SPECIFICATION Spec
INVARIANTS
    TypeOK
    Accounted
PROPERTIES
    TerminalStands
    EveryEntryTried
CHECK_DEADLOCK FALSE
