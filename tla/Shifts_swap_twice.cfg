CONSTANTS
    s1 = s1  s2 = s2  q1 = q1  p1 = p1  p2 = p2
    w1 = w1  w2 = w2  c1 = c1  None = None
    Web = {w1}
    Celery = {}
    Shifts = {s1, s2}
    Swaps = {q1}
    Staff = {p1, p2}
    Windows <- OneWindow
    Ops <- SwapOps
    MaxTime = 0
    MaxCrashes = 0
SPECIFICATION Spec
PROPERTIES
    AnswerIsFinal

CHECK_DEADLOCK FALSE
