\* The claim that an entry whose handler failed is delivered again.
CONSTANTS
    Calls = {c1}
    Kinds <- AllKinds
    Consumers = {k1}
    BatchSize = 2
    MaxFaults = 0
SPECIFICATION Spec
PROPERTIES
    Redelivered
CHECK_DEADLOCK FALSE
