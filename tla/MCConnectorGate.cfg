\* Three calls, two management requests and a restart of the API.
CONSTANTS
    Calls = {c1, c2, c3}
    Requests = {r1, r2}
    Windows <- MCWindows
    Cap <- MCCap
    Length <- MCLength
    None = None
    Unit = 3
    Burst = 2
    Rate = 1
    Threshold = 2
    Reset = 2
    HalfOpenMax = 2
    MaxTime = 4
    MaxRestarts = 1
SPECIFICATION Spec
INVARIANTS
    TypeOK
    BurstBound
    WindowBound
    StreakOpens
PROPERTIES
    CloseEarned
SYMMETRY Symmetry
CHECK_DEADLOCK FALSE
