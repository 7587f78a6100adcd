CONSTANTS
    r1 = r1  r2 = r2  b1 = b1  b2 = b2  k1 = k1  k2 = k2  w1 = w1  w2 = w2
    None = None
    Cluster = cluster
    Keys = {k1, k2}
    Residents = {r1}
    Bills = {b1}
    Opening <- OneOpening
    Ops <- SharedOps
    Asked <- Lowered
    Workers = {w1, w2}
    MaxTime = 0
    MaxRequest = 1
    MaxCluster = 1
SPECIFICATION FairSpec
INVARIANTS TypeOK NeverOverpaid Solvent NothingInvented
PROPERTIES KeyChargedOnce PaymentsFit RequestsEnd
