CONSTANTS
    s1 = s1  s2 = s2  q1 = q1  p1 = p1  p2 = p2
    w1 = w1  w2 = w2  c1 = c1  None = None
    Web = {w1}
    Celery = {w1}
    Shifts = {s1, s2}
    Swaps = {q1}
    Staff = {p1, p2}
    Windows <- TwoWindows
    Ops <- NoClockOut
    MaxTime = 1
    MaxCrashes = 0
SPECIFICATION FairSpec
INVARIANTS
    TypeOK
    NoDoubleBooking
PROPERTIES
    AttendedIsNoNoShow
    MissedAreSwept
    ImplementsRoster
\* The clock is bounded: a cluster whose shifts are all over can stop.
CHECK_DEADLOCK FALSE
