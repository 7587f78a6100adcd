--------------------------- MODULE MCBillPayments ---------------------------
(* Instances of BillPayments for TLC: one resident or two, one bill or two. *)
EXTENDS BillAccounts, TLC

CONSTANTS r1, r2, b1, b2, k1, k2, w1, w2

OneOpening   == r1 :> 2
LargeOpening == r1 :> 3
TwoOpenings  == r1 :> 2 @@ r2 :> 1

(* All operations; the same with the cluster's money left to one of two     *)
(* workers; and what it takes to pay a bill twice.                          *)
Money  == {"credit", "transfer"}
AllOps == Money \cup {"pay", "ack", "edit", "create", "delete", "leave"}

SerialOps == w1 :> AllOps
SharedOps == w1 :> Money \cup {"pay"} @@ w2 :> AllOps \ Money
PayingOps == w1 :> {"pay", "ack"} @@ w2 :> {"pay", "create"}

Term(a, u, t) == [amount |-> a, payer |-> u, until |-> t]

(* A bill as it is posted; also lowered; lowered and readdressed.           *)
Posted      == {Term(2, r1, None)}
Lowered     == {Term(2, r1, None), Term(1, r1, None)}
Readdressed == {Term(2, r1, 0), Term(1, r2, None)}
=============================================================================
