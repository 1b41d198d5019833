\* One review under two calls of any kind; edits, patches, drift, promotion.
CONSTANTS
    r1 = r1
    r2 = r2
    c1 = c1
    c2 = c2
    b1 = b1
    b2 = b2
    Reviews <- MCOneReview
    Calls <- MCCalls
    Bodies <- MCBodies
    Nobody = Nobody
    Enforce = TRUE
    MaxEdits = 1
    MaxVersions = 2
SYMMETRY MCSymmetry
SPECIFICATION Spec
INVARIANTS
    TypeOK
    ReviewHolds
PROPERTIES
    DriftStands
    VersionsStand
CHECK_DEADLOCK FALSE
