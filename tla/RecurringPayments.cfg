SPECIFICATION Spec
CONSTANTS
    Workers = {w1, w2}
    Runs = {r1, r2}
    Payments = {p1}
    MaxFailed = 3
    MaxTries = 4
    None = None
SYMMETRY Symmetry
INVARIANTS
    TypeOK
    AutoPaused
    HonestCount
PROPERTIES
    CancelIsFinal
    ImplementsSchedule
