SPECIFICATION MCSpec
CONSTANTS
    Tabs = {t1, t2}
    SessionTtl = 1
    CsrfMaxAge = 1
    MfaTtl = 1
    MaxPosts = 3
    Absent = Absent
    Posts = {r1, r2, r3, r4}
    MaxAttempts = 2
    Window = 2
    TicksPerSecond = 2
    MaxTime = 6
SYMMETRY Symmetry
INVARIANTS
    LimiterHolds
    
PROPERTIES
    
    RedirectsEnd
\* The limiter's part ends when the clock is at its bound and all is served.
CHECK_DEADLOCK FALSE
