-------------------------- MODULE RecurringPayments --------------------------
(***************************************************************************)
(* Recurring utility payments: the status and the failure counter of each,  *)
(* the requests of residents and managers that pause, resume, cancel and    *)
(* update them, and the runs of process_utility_payments, which may overlap *)
(* with the requests and with each other.                                   *)
(*                                                                         *)
(* A request decides on the payment it has loaded and saves it later.  A    *)
(* run loads every payment that is due at its start and saves each one when *)
(* its turn comes.  What is written is computed from the loaded copy.       *)
(*                                                                         *)
(* No attempt of the code as it stands takes money: the spending limit, the *)
(* balance or the provider's limits refuse it, or the transaction cannot be *)
(* inserted.  Each of these ends in the same save of counter and status,    *)
(* the only effect that is committed.  But an attempt whose metadata names  *)
(* the idempotency key of a transaction of the same wallet is taken for a   *)
(* repetition and counts as a success: the counter is cleared, the next     *)
(* date moves, and a payment whose end date it passes expires.              *)
(*                                                                         *)
(* Dates are left open: any active payment may be due, and any success may  *)
(* be the last before the end date.                                         *)
(*                                                                         *)
(* Left out: requests that the status refuses, which change nothing, and    *)
(* payments without a provider, which the daily task fails to process       *)
(* without changing their row.                                              *)
(***************************************************************************)
EXTENDS Integers

CONSTANTS
    Workers,     \* web workers, each serves one request at a time
    Runs,        \* runs of the management command that may overlap
    Payments,    \* primary keys
    MaxFailed,   \* max_failed_attempts, which no request changes
    MaxTries,    \* bound: the attempts on one payment that fail in a row
    None

Ops      == {"pause", "resume", "cancel", "update"}
Statuses == {"active", "paused", "cancelled", "expired"}

RecurringPayment == [status : Statuses, failed : 0..MaxFailed]

Job == [op : Ops, on : Payments]

ASSUME RecurringAssumption ==
    /\ MaxFailed \in Nat \ {0}
    /\ MaxTries \in Nat
    /\ None \notin RecurringPayment \cup Job

VARIABLES
    row,     \* the RecurringPayment rows
    job,     \* the request a worker serves
    copy,    \* the payment it has loaded
    batch,   \* the payments a run has loaded and not yet attempted
    tries,   \* history: failures since a payment was created, resumed or paid
    raced    \* history: payments saved, since then, over a change not yet seen

vars == <<row, job, copy, batch, tries, raced>>

-----------------------------------------------------------------------------
Saved(p, new) == row' = [row EXCEPT ![p] = new]

Create ==
    \E p \in Payments :
        /\ row[p] = None
        /\ Saved(p, [status |-> "active", failed |-> 0])
        /\ UNCHANGED <<job, copy, batch, tries, raced>>

(* Mutant: a pause does not look at the status.                             *)
AcceptsAnyPause(op, status) ==
    \/ op \in {"update", "pause"}
    \/ op = "resume" /\ status = "paused"
    \/ op = "cancel" /\ status # "cancelled"

(* The test that a request makes of the payment it has loaded.              *)
Accepts(op, status) ==
    \/ op = "update"
    \/ op = "pause"  /\ status = "active"
    \/ op = "resume" /\ status = "paused"
    \/ op = "cancel" /\ status # "cancelled"

Load(w) ==
    \E op \in Ops, p \in Payments :
        /\ job[w] = None
        /\ row[p] # None
        /\ Accepts(op, row[p].status)
        /\ job' = [job EXCEPT ![w] = [op |-> op, on |-> p]]
        /\ copy' = [copy EXCEPT ![w] = row[p]]
        /\ UNCHANGED <<row, batch, tries, raced>>

(* Mutant: a resumed payment keeps its count of failures.                   *)
WriteUncleared(op, now, seen) ==
    IF op = "update" THEN seen
    ELSE IF op = "resume" THEN [now EXCEPT !.status = "active"]
    ELSE [now EXCEPT !.status = IF op = "pause" THEN "paused" ELSE "cancelled"]

(* pause and cancel save the status alone, update saves every column.       *)
Write(op, now, seen) ==
    IF op = "update" THEN seen
    ELSE IF op = "resume" THEN [status |-> "active", failed |-> 0]
    ELSE [now EXCEPT !.status = IF op = "pause" THEN "paused" ELSE "cancelled"]

(* A column is written that has changed since the copy was loaded.          *)
Overtaken(op, now, seen) ==
    \/ now.status # seen.status
    \/ now.failed # seen.failed /\ op \notin {"pause", "cancel"}

Forget(w) ==
    /\ job' = [job EXCEPT ![w] = None]
    /\ copy' = [copy EXCEPT ![w] = None]

Save(w) ==
    /\ job[w] # None
    /\ LET op == job[w].op  p == job[w].on IN
        /\ Saved(p, Write(op, row[p], copy[w]))
        /\ tries' = IF op = "resume" THEN [tries EXCEPT ![p] = 0] ELSE tries
        /\ raced' = IF Overtaken(op, row[p], copy[w]) THEN raced \cup {p}
                    ELSE IF op = "resume" THEN raced \ {p}
                    ELSE raced
    /\ Forget(w)
    /\ UNCHANGED batch

-----------------------------------------------------------------------------
Empty == [p \in Payments |-> None]

(* A run loads the active payments that are due and have a provider.        *)
Start(r) ==
    \E due \in SUBSET {p \in Payments : row[p] # None /\ row[p].status = "active"} :
        /\ batch[r] = Empty
        /\ due # {}
        /\ batch' = [batch EXCEPT ![r] =
                        [p \in Payments |-> IF p \in due THEN row[p] ELSE None]]
        /\ UNCHANGED <<row, job, copy, tries, raced>>

(* Mutant: the payment is paused one failure too late.                      *)
FailLate(c) ==
    [status |-> IF c.failed + 1 > MaxFailed THEN "paused" ELSE c.status,
     failed |-> c.failed + 1]

(* Mutant: a run counts a failure twice.                                    *)
FailTwice(c) ==
    [status |-> IF c.failed + 2 >= MaxFailed THEN "paused" ELSE c.status,
     failed |-> c.failed + 2]

(* What every branch of process_utility_payment does on failure.            *)
Fail(c) ==
    [status |-> IF c.failed + 1 >= MaxFailed THEN "paused" ELSE c.status,
     failed |-> c.failed + 1]

(* What it does when the transaction is there already.                      *)
Succeed(c, isLast) ==
    [status |-> IF isLast THEN "expired" ELSE c.status, failed |-> 0]

(* One atomic block of the run.                                             *)
Attempt(r) ==
    \E p \in Payments :
        /\ batch[r][p] # None
        /\ LET seen == batch[r][p]
               late == Overtaken("attempt", row[p], seen) IN
            \/ /\ tries[p] < MaxTries
               /\ Saved(p, Fail(seen))
               /\ tries' = [tries EXCEPT ![p] = @ + 1]
               /\ raced' = IF late THEN raced \cup {p} ELSE raced
            \/ /\ \E isLast \in BOOLEAN : Saved(p, Succeed(seen, isLast))
               /\ tries' = [tries EXCEPT ![p] = 0]
               /\ raced' = IF late THEN raced \cup {p} ELSE raced \ {p}
        /\ batch' = [batch EXCEPT ![r][p] = None]
        /\ UNCHANGED <<job, copy>>

(* A worker or a run dies: what it had not saved is lost.                   *)
Die(w) ==
    /\ job[w] # None
    /\ Forget(w)
    /\ UNCHANGED <<row, batch, tries, raced>>

Stop(r) ==
    /\ batch[r] # Empty
    /\ batch' = [batch EXCEPT ![r] = Empty]
    /\ UNCHANGED <<row, job, copy, tries, raced>>

-----------------------------------------------------------------------------
Init ==
    /\ row = [p \in Payments |-> None]
    /\ job = [w \in Workers |-> None]
    /\ copy = [w \in Workers |-> None]
    /\ batch = [r \in Runs |-> Empty]
    /\ tries = [p \in Payments |-> 0]
    /\ raced = {}

Next ==
    \/ Create
    \/ \E w \in Workers : Load(w) \/ Save(w) \/ Die(w)
    \/ \E r \in Runs : Start(r) \/ Attempt(r) \/ Stop(r)

Spec == Init /\ [][Next]_vars

-----------------------------------------------------------------------------
(* Every variable has its type, copies in flight included: a failure is     *)
(* never counted beyond the limit.                                          *)
TypeOK ==
    /\ row \in [Payments -> RecurringPayment \cup {None}]
    /\ job \in [Workers -> Job \cup {None}]
    /\ copy \in [Workers -> RecurringPayment \cup {None}]
    /\ batch \in [Runs -> [Payments -> RecurringPayment \cup {None}]]
    /\ tries \in [Payments -> Nat]
    /\ raced \subseteq Payments

(* A payment whose failures are used up is not active, however runs and     *)
(* requests overwrite each other with counters and statuses of different    *)
(* ages.                                                                    *)
AutoPaused ==
    \A p \in Payments :
        row[p] # None /\ row[p].failed = MaxFailed => row[p].status # "active"

(* failed_attempts is the number of attempts that failed since the payment  *)
(* was created, resumed or taken for paid, through any sequence of runs,    *)
(* pauses and updates, as long as none of them since then was computed from *)
(* a copy that was out of date.                                             *)
HonestCount ==
    \A p \in Payments : row[p] # None /\ p \notin raced => row[p].failed = tries[p]

(* A cancelled payment stays cancelled, whatever is asked of it afterwards; *)
(* only a request or a run that loaded it before can bring it back.         *)
CancelIsFinal ==
    [][\A p \in Payments :
        row[p] # None /\ row[p].status = "cancelled" /\ p \notin raced'
            => row'[p].status = "cancelled"]_vars

(* Each request and each attempt is one atomic step of PaymentSchedule: its *)
(* test, made when the payment was loaded, still holds when it is saved,    *)
(* unless the payment has been saved in between.                            *)
Schedule == INSTANCE PaymentSchedule
ImplementsSchedule == Schedule!Spec
=============================================================================
