------------------------------ MODULE MCShifts ------------------------------
(* Instances of Shifts for TLC: two shifts, at times that overlap.          *)
EXTENDS Shifts

CONSTANTS s1, s2, q1, p1, p2, w1, w2, c1

Early == [start |-> 0, end |-> 2]
Later == [start |-> 1, end |-> 3]

OneWindow  == {Later}
TwoWindows == {Early, Later}

NoClockOut == AllOps \ {"clock_out"}
NoSwaps    == AllOps \ {"approve", "reject"}
Booking    == {"create", "update", "cancel", "clock_in"}
SwapOps    == {"create", "approve", "reject"}
=============================================================================
