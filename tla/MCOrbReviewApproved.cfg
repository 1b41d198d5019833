\* A review approved by its score alone, then promoted.
CONSTANTS
    r1 = r1
    r2 = r2
    c1 = c1
    c2 = c2
    b1 = b1
    b2 = b2
    Reviews <- MCOneReview
    Calls <- MCCalls
    Bodies <- MCBodies
    Nobody = Nobody
    Enforce = TRUE
    MaxEdits = 1
    MaxVersions = 1
SYMMETRY MCSymmetry
SPECIFICATION Spec
PROPERTIES
    PromotedIsApproved
CHECK_DEADLOCK FALSE
