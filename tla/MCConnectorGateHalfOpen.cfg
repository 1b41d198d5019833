\* The claim that a half-open circuit lets no more than halfOpenMax calls pass.
CONSTANTS
    Calls = {c1, c2, c3, c4}
    Requests = {r1}
    Windows <- MCWindows
    Cap <- MCLooseCap
    Length <- MCLength
    None = None
    Unit = 1
    Burst = 4
    Rate = 1
    Threshold = 1
    Reset = 1
    HalfOpenMax = 2
    MaxTime = 1
    MaxRestarts = 0
SPECIFICATION Spec
INVARIANTS
    HalfOpenLimited
SYMMETRY CallSymmetry
CHECK_DEADLOCK FALSE
