SPECIFICATION Spec
CONSTANTS
    Workers = {w1, w2}
    Visitors = {v1}
    Invitations = {i1}
    Asked = {"ACTIVE"}
    AskedVisit = {"PENDING"}
    MaxDay = 1
    None = None
INVARIANTS
    TypeOK
    NoOrphans
    RevokedIsTraced
    DatesInOrder
PROPERTIES
    RevocationIsFinal
    NotRejectedInside
    OverdueExpire
    ImplementsList
