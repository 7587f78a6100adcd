SPECIFICATION Spec
CONSTANTS
    w1 = w1
    w2 = w2
    a1 = a1
    a2 = a2
    u1 = u1
    u2 = u2
    c1 = c1
    c2 = c2
    None = None
    Workers = {w1, w2}
    Announcements = {a1}
    Comments = {c1}
    Users = {u1, u2}
    Ops <- Counted
    MaxCount = 2
    MaxCrashes = 0
SYMMETRY Symmetry
INVARIANTS
    ViewsNeverInflated
    CommentsNeverInflated
