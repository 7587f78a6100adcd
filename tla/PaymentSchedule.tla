--------------------------- MODULE PaymentSchedule ---------------------------
(***************************************************************************)
(* What managing recurring payments promises, free of workers, copies and   *)
(* batches: a request or an attempt tests a payment and changes it in one   *)
(* step.  The one exception that is conceded is a payment saved over a      *)
(* change that was not seen: it may then be anything, and is remembered     *)
(* until it is properly resumed or an attempt on it succeeds.               *)
(***************************************************************************)
EXTENDS Integers

CONSTANTS Payments, MaxFailed, None

VARIABLES row, raced

vars == <<row, raced>>

Payment == [status : {"active", "paused", "cancelled", "expired"}, failed : 0..MaxFailed]

Becomes(p, new) == row' = [row EXCEPT ![p] = new]

Init == row = [p \in Payments |-> None] /\ raced = {}

Create(p) ==
    /\ row[p] = None
    /\ Becomes(p, [status |-> "active", failed |-> 0])
    /\ UNCHANGED raced

Pause(p) ==
    /\ row[p].status = "active"
    /\ Becomes(p, [row[p] EXCEPT !.status = "paused"])
    /\ UNCHANGED raced

(* A resumed payment starts with a clean record.                            *)
Resume(p) ==
    /\ row[p].status = "paused"
    /\ Becomes(p, [status |-> "active", failed |-> 0])
    /\ raced' = raced \ {p}

Cancel(p) ==
    /\ row[p].status # "cancelled"
    /\ Becomes(p, [row[p] EXCEPT !.status = "cancelled"])
    /\ UNCHANGED raced

(* Only an active payment is attempted; its last failure pauses it.         *)
Fail(p) ==
    /\ row[p].status = "active"
    /\ \/ /\ row[p].failed + 1 < MaxFailed
          /\ Becomes(p, [row[p] EXCEPT !.failed = @ + 1])
       \/ /\ row[p].failed + 1 = MaxFailed
          /\ Becomes(p, [status |-> "paused", failed |-> MaxFailed])
    /\ UNCHANGED raced

(* A success, be it the last, clears the record as well.                    *)
Succeed(p) ==
    /\ row[p].status = "active"
    /\ \E status \in {"active", "expired"} :
          Becomes(p, [status |-> status, failed |-> 0])
    /\ raced' = raced \ {p}

Overwrite(p) ==
    /\ \E new \in Payment : Becomes(p, new)
    /\ raced' = raced \cup {p}

Next ==
    \E p \in Payments :
        \/ Create(p)
        \/ /\ row[p] # None
           /\ Pause(p) \/ Resume(p) \/ Cancel(p)
              \/ Fail(p) \/ Succeed(p) \/ Overwrite(p)

Spec == Init /\ [][Next]_vars
=============================================================================
