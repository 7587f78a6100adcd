SPECIFICATION Spec
CONSTANTS
    Workers = {w1, w2}
    Logs = {l1}
    Statuses = {"IN_PROGRESS", "COMPLETED", "POSTPONED"}
    Durations = {7}
    MaxTime = 2
    None = None
SYMMETRY Symmetry
INVARIANTS
    TypeOK
    DurationAgrees
    StatusIsStamped
    DeletedStaysDeleted
PROPERTIES
    StampsAreKept
    ImplementsBook
