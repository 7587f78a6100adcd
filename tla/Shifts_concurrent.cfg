CONSTANTS
    s1 = s1  s2 = s2  q1 = q1  p1 = p1  p2 = p2
    w1 = w1  w2 = w2  c1 = c1  None = None
    Web = {w1, w2}
    Celery = {c1}
    Shifts = {s1}
    Swaps = {}
    Staff = {p1}
    Windows <- OneWindow
    Ops <- NoSwaps
    MaxTime = 2
    MaxCrashes = 1
SPECIFICATION Spec
INVARIANTS
    StatusMatchesClock

CHECK_DEADLOCK FALSE
