\* Two imports of one version, retried and redelivered, under two calls.
CONSTANTS
    j1 = j1
    j2 = j2
    s1 = s1
    s2 = s2
    c1 = c1
    c2 = c2
    t1 = t1
    Jobs <- MCJobs
    Slots <- MCSlots
    Calls <- MCCalls
    Requests <- MCRequests
    Tenants <- MCTenants
    TenantOf <- MCTenantOf
    MaxAttempts = 2
    MaxStalled = 1
SYMMETRY MCSymmetry
SPECIFICATION Spec
INVARIANTS
    TypeOK
    ImportedOnce
    CompletedMeansPublished
PROPERTIES
    BlockStands
CHECK_DEADLOCK FALSE
