---------------------------- MODULE BillPayments ----------------------------
(***************************************************************************)
(* Paying user-managed bills from wallets, with the cluster's own wallet.   *)
(*                                                                         *)
(* Every worker serves one request at a time against one PostgreSQL        *)
(* database at READ COMMITTED.  The model objects a worker has loaded      *)
(* (mem) are plain copies: no query locks the rows it reads, and save()    *)
(* writes the values the copy holds.  A row that a transaction has written *)
(* stays locked until it commits or rolls back, and an unfinished          *)
(* transaction is invisible to the other workers.                          *)
(*                                                                         *)
(* A request is one of                                                     *)
(*   "pay"       bills.process_payment                                     *)
(*   "credit"    cluster_wallet.add_manual_credit                          *)
(*   "transfer"  cluster_wallet.transfer_from_wallet                       *)
(*   "ack"       bills.acknowledge                                         *)
(*   "edit"      PUT or PATCH of a bill: amount, addressee and due date may *)
(*               change at any time, also of a bill that has been paid      *)
(* or a single statement: the creation or deletion of a bill, the deletion  *)
(* of a resident's account.                                                 *)
(***************************************************************************)
EXTENDS Integers

CONSTANTS
    Workers,      \* the processes that serve requests
    Residents,    \* the users who own a wallet
    Cluster,      \* the user_id of the cluster's own wallet
    Bills,        \* primary keys of bills
    Keys,         \* idempotency keys; one payment per key, so a bound as well
    Opening,      \* the balance each resident starts with
    Ops,          \* bound: the operations that each worker is asked for
    Asked,        \* bound: the terms that bills are given
    MaxTime,      \* bound: the last moment of the clock
    MaxRequest,   \* bound: the largest amount a request names
    MaxCluster,   \* bound: credits are asked for below this balance
    None

Wallets == Residents \cup {Cluster}
Rows    == Wallets \cup Bills

WalletRow  == [balance : Int, available : Int]
PaymentRow == [bill : Bills, payer : Residents, amount : Nat]

(* The columns of a bill that decide on payments.  The payer is None on a   *)
(* bill that nobody can pay: a cluster-wide or cluster-managed one.  until  *)
(* is the due date, or None when payment is allowed after it.               *)
Terms == [amount : Nat \ {0}, payer : Residents \cup {None}, until : Int \cup {None}]

(* Requests.  The amount 0 of a payment stands for no amount given.         *)
PayJob     == [op : {"pay"}, bill : Bills, user : Residents,
               amount : 0 .. MaxRequest, key : Keys]
ClusterJob == [op : {"credit", "transfer"}, amount : 0 .. MaxRequest]
AckJob     == [op : {"ack"}, bill : Bills, user : Residents]
EditJob    == [op : {"edit"}, bill : Bills]
BillJob    == PayJob \cup AckJob \cup EditJob
Job        == BillJob \cup ClusterJob

ASSUME ConstantsAssumption ==
    /\ Cluster \notin Residents
    /\ Wallets \cap Bills = {}
    /\ None \notin Workers \cup Rows \cup Keys
    /\ Opening \in [Residents -> Nat]
    /\ Asked \subseteq Terms
    /\ MaxRequest \in Nat
    /\ MaxCluster \in Nat
    /\ MaxTime \in Nat
    /\ None \notin Int \cup Job \cup WalletRow \cup PaymentRow \cup Terms

VARIABLES
    wallet,    \* committed Wallet rows; the cluster's may not exist yet
    terms,     \* committed Bill rows but for paid_amount; None: no row
    paid,      \* committed Bill.paid_amount; 0: nothing paid, or no row
    payments,  \* committed BILL_PAYMENT transactions, by idempotency key
    acked,     \* committed rows of Bill.acknowledged_by: bills with users
    users,     \* the residents who have an account
    now,       \* the time
    highest,   \* history: the largest amount a bill has been given
    lock,      \* the worker whose open transaction has written a row
    pc,        \* what a worker does next
    job,       \* the request a worker serves
    mem        \* the objects a worker has in memory

desk == <<terms, acked, users, now, highest>>
db   == <<wallet, paid, payments, desk>>
vars == <<db, lock, pc, job, mem>>

(* A worker's copies: the bill, the payer's Wallet, the cluster's Wallet,   *)
(* and the local payment_amount.                                            *)
Mem == [terms : Terms \cup {None}, paid : Int, own : WalletRow,
        cluster : WalletRow, amount : Int]

Steps == {"idle", "load_wallet", "validate", "insert", "debit", "bill",
          "load_cluster", "write_cluster", "commit", "finish", "ack", "save"}

EmptyWallet == [balance |-> 0, available |-> 0]
EmptyMem    == [terms |-> None, paid |-> 0, own |-> EmptyWallet,
                cluster |-> EmptyWallet, amount |-> 0]

-----------------------------------------------------------------------------
(* Wallet.credit, Wallet.debit and the checks, on the object in memory.     *)

Credited(row, a) == [balance |-> row.balance + a, available |-> row.available + a]

(* Mutant: debit forgets available_balance.                                 *)
DebitedBalanceOnly(row, a) == [row EXCEPT !.balance = @ - a]

Debited(row, a)  == [balance |-> row.balance - a, available |-> row.available - a]

HasSufficientBalance(row, a) == row.available >= a

(* Addressee and due date are those of the copy, the acknowledgement is     *)
(* looked up.                                                               *)
CanBePaid(w) ==
    LET copy == mem[w].terms
    IN  /\ copy.payer = job[w].user
        /\ <<job[w].bill, job[w].user>> \in acked
        /\ copy.until # None => now <= copy.until

(* A row written by another open transaction cannot be written.             *)
Free(row, w) == lock[row] \in {None, w}

(* An INSERT of a key waits for the open transaction that inserted it.      *)
HoldsKey(w, k) ==
    /\ pc[w] \in {"debit", "bill", "load_cluster", "write_cluster", "commit", "finish"}
    /\ job[w].op = "pay"
    /\ job[w].key = k

KeyFree(w) == \A v \in Workers \ {w} : ~ HoldsKey(v, job[w].key)

Goto(w, step) == pc' = [pc EXCEPT ![w] = step]
Lock(w, row)  == lock' = [lock EXCEPT ![row] = w]
Unlock(w)     == lock' = [r \in Rows |-> IF lock[r] = w THEN None ELSE lock[r]]

(* The worker is ready for the next request.                                *)
Done(w) ==
    /\ Goto(w, "idle")
    /\ job' = [job EXCEPT ![w] = None]
    /\ mem' = [mem EXCEPT ![w] = EmptyMem]

(* An exception leaves the atomic block: what the transaction wrote is      *)
(* undone.                                                                  *)
Rollback(w) == Unlock(w) /\ Done(w) /\ UNCHANGED db

-----------------------------------------------------------------------------
(* A worker takes a request.  The requests on a bill load it at once, and   *)
(* an edit sets the terms it asks for on the copy; the cluster wallet       *)
(* operations start with the wallet.  An acknowledgement by somebody else   *)
(* than the addressee is refused on the copy.                               *)
FirstStep(op) ==
    CASE op = "pay" -> "load_wallet" [] op = "ack" -> "ack" [] op = "edit" -> "save"

(* A bound: the cluster wallet and all copies of it are small.               *)
BelowMaxCluster ==
    /\ wallet[Cluster] # None => wallet[Cluster].balance < MaxCluster
    /\ \A v \in Workers : mem[v].cluster.balance < MaxCluster

Receive(w) ==
    /\ pc[w] = "idle"
    /\ \/ \E j \in BillJob :
            /\ j.op \in Ops[w]
            /\ terms[j.bill] # None
            /\ j.op # "edit" => j.user \in users
            /\ j.op = "ack" => terms[j.bill].payer = j.user
            /\ job' = [job EXCEPT ![w] = j]
            /\ \E t \in IF j.op = "edit" THEN Asked ELSE {terms[j.bill]} :
                 mem' = [mem EXCEPT ![w].terms = t, ![w].paid = paid[j.bill]]
            /\ Goto(w, FirstStep(j.op))
       \/ \E j \in ClusterJob :
            /\ j.op \in Ops[w]
            /\ j.op = "credit" => BelowMaxCluster
            /\ job' = [job EXCEPT ![w] = j]
            /\ mem' = [mem EXCEPT ![w].amount = j.amount]
            /\ Goto(w, "load_cluster")
    /\ UNCHANGED <<db, lock>>

LoadWallet(w) ==
    /\ pc[w] = "load_wallet"
    /\ mem' = [mem EXCEPT ![w].own = wallet[job[w].user]]
    /\ Goto(w, "validate")
    /\ UNCHANGED <<db, lock, job>>

(* The amount asked for, or what the copy of the bill says is left.         *)
PaymentAmount(w) ==
    IF job[w].amount # 0 THEN job[w].amount
    ELSE mem[w].terms.amount - mem[w].paid

(* Mutant: the amount is not checked against what is left on the bill.      *)
PayableBeyondBill(w) ==
    /\ CanBePaid(w)
    /\ PaymentAmount(w) > 0
    /\ HasSufficientBalance(mem[w].own, PaymentAmount(w))

Payable(w) ==
    /\ CanBePaid(w)
    /\ PaymentAmount(w) <= mem[w].terms.amount - mem[w].paid
    /\ PaymentAmount(w) > 0
    /\ HasSufficientBalance(mem[w].own, PaymentAmount(w))

(* The committed transaction with this key on this wallet, if any.          *)
IsDuplicate(w) ==
    LET known == payments[job[w].key]
    IN  known # None /\ known.payer = job[w].user

(* process_payment up to the INSERT.  A duplicate ends the request with the *)
(* earlier transaction.                                                     *)
Validate(w) ==
    /\ pc[w] = "validate"
    /\ \/ /\ Payable(w) /\ ~ IsDuplicate(w)
          /\ mem' = [mem EXCEPT ![w].amount = PaymentAmount(w)]
          /\ Goto(w, "insert")
          /\ UNCHANGED <<db, lock, job>>
       \/ /\ ~ Payable(w) \/ IsDuplicate(w)
          /\ Rollback(w)

(* Mutant: idempotency_key without its unique constraint.                   *)
InsertWithoutUnique(w) ==
    /\ pc[w] = "insert"
    /\ Goto(w, "debit")
    /\ UNCHANGED <<db, lock, job, mem>>

(* INSERT of the PENDING transaction; idempotency_key is unique.            *)
InsertTransaction(w) ==
    /\ pc[w] = "insert"
    /\ KeyFree(w)
    /\ \/ /\ payments[job[w].key] = None
          /\ Goto(w, "debit")
          /\ UNCHANGED <<db, lock, job, mem>>
       \/ /\ payments[job[w].key] # None
          /\ Rollback(w)

(* Mutant: no atomic block around the debit.                                *)
DebitAutocommit(w) ==
    /\ pc[w] = "debit"
    /\ mem' = [mem EXCEPT ![w].own = Debited(@, mem[w].amount)]
    /\ wallet' = [wallet EXCEPT ![job[w].user] = mem'[w].own]
    /\ Goto(w, "bill")
    /\ UNCHANGED <<paid, payments, desk, lock, job>>

(* add_payment: Wallet.debit on the copy of the payer's wallet.  The checks  *)
(* of debit cannot fail here: process_payment made them on the same object. *)
(* When the account has been deleted since, add_payment returns before it   *)
(* moves any money, and the payment is completed all the same.              *)
DebitWallet(w) ==
    /\ pc[w] = "debit"
    /\ \/ /\ job[w].user \in users
          /\ Free(job[w].user, w)
          /\ Lock(w, job[w].user)
          /\ mem' = [mem EXCEPT ![w].own = Debited(@, mem[w].amount)]
          /\ Goto(w, "bill")
          /\ UNCHANGED <<db, job>>
       \/ /\ job[w].user \notin users
          /\ Goto(w, "finish")
          /\ UNCHANGED <<db, lock, job, mem>>

(* Mutant: no atomic block around the update of the bill.                   *)
UpdateBillAutocommit(w) ==
    /\ pc[w] = "bill"
    /\ mem' = [mem EXCEPT ![w].paid = @ + mem[w].amount]
    /\ paid' = [paid EXCEPT ![job[w].bill] = mem'[w].paid]
    /\ Goto(w, "load_cluster")
    /\ UNCHANGED <<wallet, payments, desk, lock, job>>

(* add_payment: can_be_paid_by again, then paid_amount += amount and a save *)
(* of named columns, which fails when the row is gone.                      *)
UpdateBill(w) ==
    LET b == job[w].bill
    IN  /\ pc[w] = "bill"
        /\ \/ /\ CanBePaid(w) /\ terms[b] # None
              /\ Free(b, w)
              /\ Lock(w, b)
              /\ mem' = [mem EXCEPT ![w].paid = @ + mem[w].amount]
              /\ Goto(w, "load_cluster")
              /\ UNCHANGED <<db, job>>
           \/ /\ ~ CanBePaid(w) \/ terms[b] = None
              /\ Rollback(w)

(* Mutant: the wallet is looked up and never created.                       *)
LoadClusterNoCreate(w) ==
    /\ pc[w] = "load_cluster"
    /\ mem' = [mem EXCEPT ![w].cluster = wallet[Cluster]]
    /\ Goto(w, "write_cluster")
    /\ UNCHANGED <<db, lock, job>>

(* Mutant: a request polls until somebody else has created the wallet.      *)
LoadClusterPolling(w) ==
    /\ wallet[Cluster] # None
    /\ LoadClusterNoCreate(w)

(* get_or_create of the cluster's wallet; a transfer only gets it.  A       *)
(* creation waits for another creation that has not committed.              *)
LoadCluster(w) ==
    /\ pc[w] = "load_cluster"
    /\ \/ /\ wallet[Cluster] # None
          /\ mem' = [mem EXCEPT ![w].cluster = wallet[Cluster]]
          /\ Goto(w, "write_cluster")
          /\ UNCHANGED <<db, lock, job>>
       \/ /\ wallet[Cluster] = None
          /\ job[w].op # "transfer"
          /\ Free(Cluster, w)
          /\ Lock(w, Cluster)
          /\ mem' = [mem EXCEPT ![w].cluster = EmptyWallet]
          /\ Goto(w, "write_cluster")
          /\ UNCHANGED <<db, job>>
       \/ /\ wallet[Cluster] = None
          /\ job[w].op = "transfer"
          /\ Rollback(w)

(* credit raises on an amount that is not positive, debit also on one the   *)
(* available balance does not cover.                                        *)
ClusterOpValid(w) ==
    /\ mem[w].amount > 0
    /\ job[w].op = "transfer" =>
         HasSufficientBalance(mem[w].cluster, mem[w].amount)

ClusterAfter(w) ==
    IF job[w].op = "transfer" THEN Debited(mem[w].cluster, mem[w].amount)
    ELSE Credited(mem[w].cluster, mem[w].amount)

(* credit_cluster_from_bill_payment, add_manual_credit and                  *)
(* transfer_from_wallet: the transaction row and the wallet.                *)
WriteCluster(w) ==
    /\ pc[w] = "write_cluster"
    /\ \/ /\ ClusterOpValid(w)
          /\ Free(Cluster, w)
          /\ Lock(w, Cluster)
          /\ mem' = [mem EXCEPT ![w].cluster = ClusterAfter(w)]
          /\ Goto(w, "commit")
          /\ UNCHANGED <<db, job>>
       \/ /\ ~ ClusterOpValid(w)
          /\ Rollback(w)

Complete(w) ==
    payments' = [payments EXCEPT ![job[w].key] =
                   [bill |-> job[w].bill, payer |-> job[w].user, amount |-> mem[w].amount]]

(* The transaction is marked COMPLETED and the atomic block commits: every  *)
(* row takes the value of the copy that was saved.                          *)
Commit(w) ==
    /\ pc[w] = "commit"
    /\ \/ /\ job[w].op = "pay"
          /\ wallet' = [wallet EXCEPT ![job[w].user] = mem[w].own,
                                      ![Cluster] = mem[w].cluster]
          /\ paid' = [paid EXCEPT ![job[w].bill] = mem[w].paid]
          /\ Complete(w)
       \/ /\ job[w].op \in {"credit", "transfer"}
          /\ wallet' = [wallet EXCEPT ![Cluster] = mem[w].cluster]
          /\ UNCHANGED <<paid, payments>>
    /\ Unlock(w)
    /\ Done(w)
    /\ UNCHANGED desk

(* The same after add_payment has returned early: there is no row but the   *)
(* transaction's own.                                                       *)
Finish(w) ==
    /\ pc[w] = "finish"
    /\ Complete(w)
    /\ Done(w)
    /\ UNCHANGED <<wallet, paid, desk, lock>>

(* The worker dies or its connection drops; the database rolls back.        *)
Crash(w) == pc[w] # "idle" /\ Rollback(w)

-----------------------------------------------------------------------------
(* What becomes of bills and accounts otherwise.                            *)

(* acknowledged_by.add, which fails when the bill or the account is gone.   *)
Acknowledge(w) ==
    LET j == job[w]
    IN  /\ pc[w] = "ack"
        /\ acked' = IF terms[j.bill] # None /\ j.user \in users
                    THEN acked \cup {<<j.bill, j.user>>} ELSE acked
        /\ Done(w)
        /\ UNCHANGED <<wallet, terms, paid, payments, users, now, highest, lock>>

(* perform_update: save() of the copy with the new terms writes all columns, *)
(* paid_amount as it was loaded among them, and inserts a bill that has been *)
(* deleted.  Nothing compares the amount with what has been paid.           *)
Save(w) ==
    LET b == job[w].bill
        a == mem[w].terms.amount
    IN  /\ pc[w] = "save"
        /\ Free(b, w)
        /\ terms' = [terms EXCEPT ![b] = mem[w].terms]
        /\ paid' = [paid EXCEPT ![b] = mem[w].paid]
        /\ highest' = [highest EXCEPT ![b] = IF a > @ THEN a ELSE @]
        /\ Done(w)
        /\ UNCHANGED <<wallet, payments, acked, users, now, lock>>

(* A new bill has a primary key that nothing refers to.                     *)
Unused(b) ==
    /\ \A v \in Workers : job[v] \in BillJob => job[v].bill # b
    /\ \A k \in Keys : payments[k] # None => payments[k].bill # b

Create(w, b) ==
    /\ "create" \in Ops[w]
    /\ pc[w] = "idle"
    /\ terms[b] = None /\ Unused(b)
    /\ \E t \in Asked :
         /\ terms' = [terms EXCEPT ![b] = t]
         /\ highest' = [highest EXCEPT ![b] = t.amount]
    /\ UNCHANGED <<wallet, paid, payments, acked, users, now, lock, pc, job, mem>>

(* perform_destroy, which takes the acknowledgements along.                 *)
Delete(w, b) ==
    /\ "delete" \in Ops[w]
    /\ pc[w] = "idle"
    /\ terms[b] # None /\ lock[b] = None
    /\ terms' = [terms EXCEPT ![b] = None]
    /\ paid' = [paid EXCEPT ![b] = 0]
    /\ acked' = {a \in acked : a[1] # b}
    /\ UNCHANGED <<wallet, payments, users, now, highest, lock, pc, job, mem>>

(* A resident's account is deleted; the wallet, which names its owner by a  *)
(* plain UUID, stays.                                                       *)
Leave(w, u) ==
    /\ "leave" \in Ops[w]
    /\ pc[w] = "idle"
    /\ u \in users
    /\ users' = users \ {u}
    /\ acked' = {a \in acked : a[2] # u}
    /\ UNCHANGED <<wallet, terms, paid, payments, now, highest, lock, pc, job, mem>>

Tick ==
    /\ now < MaxTime
    /\ now' = now + 1
    /\ UNCHANGED <<wallet, terms, paid, payments, acked, users, highest, lock, pc, job, mem>>

-----------------------------------------------------------------------------
Init ==
    /\ wallet = [u \in Wallets |->
                   IF u = Cluster THEN None
                   ELSE [balance |-> Opening[u], available |-> Opening[u]]]
    /\ terms = [b \in Bills |-> None]
    /\ paid = [b \in Bills |-> 0]
    /\ highest = [b \in Bills |-> 0]
    /\ payments = [k \in Keys |-> None]
    /\ acked = {} /\ users = Residents /\ now = 0
    /\ lock = [r \in Rows |-> None]
    /\ pc = [w \in Workers |-> "idle"]
    /\ job = [w \in Workers |-> None]
    /\ mem = [w \in Workers |-> EmptyMem]

(* The steps of a request once it is received.                              *)
Serve(w) ==
    \/ LoadWallet(w) \/ Validate(w) \/ InsertTransaction(w)
    \/ DebitWallet(w) \/ UpdateBill(w)
    \/ LoadCluster(w) \/ WriteCluster(w) \/ Commit(w) \/ Finish(w)
    \/ Acknowledge(w) \/ Save(w)

(* The requests of a single statement.                                      *)
Desk(w) ==
    \/ \E b \in Bills : Create(w, b) \/ Delete(w, b)
    \/ \E u \in Residents : Leave(w, u)

Next ==
    \/ \E w \in Workers : Receive(w) \/ Serve(w) \/ Desk(w) \/ Crash(w)
    \/ Tick

Spec == Init /\ [][Next]_vars

(* PostgreSQL queues the transactions that wait for a row, so one whose     *)
(* wait ends again and again is served in the end: strong fairness of the   *)
(* steps of every worker, all of which change pc.  Nothing obliges a worker *)
(* to crash, a client to send a request or an administrator to act.         *)
FairSpec == Spec /\ \A w \in Workers : SF_pc(Serve(w))

-----------------------------------------------------------------------------
TypeOK ==
    /\ wallet \in [Wallets -> WalletRow \cup {None}]
    /\ \A u \in Residents : wallet[u] # None
    /\ terms \in [Bills -> Terms \cup {None}]
    /\ paid \in [Bills -> Int]
    /\ highest \in [Bills -> Nat]
    /\ payments \in [Keys -> PaymentRow \cup {None}]
    /\ acked \subseteq Bills \X Residents
    /\ users \subseteq Residents
    /\ now \in 0 .. MaxTime
    /\ lock \in [Rows -> Workers \cup {None}]
    /\ pc \in [Workers -> Steps]
    /\ job \in [Workers -> Job \cup {None}]
    /\ \A w \in Workers : pc[w] # "idle" => job[w] # None
    /\ mem \in [Workers -> Mem]

(* Whatever stale copies of a bill requests save, also edits that overwrite *)
(* payments and payments that overtake edits, paid_amount never becomes     *)
(* negative and never exceeds the largest amount the bill has ever been     *)
(* given: a bill whose amount was never lowered is never overpaid.          *)
NeverOverpaid == \A b \in Bills : 0 <= paid[b] /\ paid[b] <= highest[b]

(* process_payment: "Payment amount exceeds remaining amount".  A payment   *)
(* that completes never takes paid_amount beyond the amount of the bill,    *)
(* unless the bill was edited after the payer's copy had been loaded:       *)
(* amounts lowered below what is paid, and payments of others in between,   *)
(* make no difference.                                                      *)
PaymentsFit ==
    [][\A w \in Workers :
         LET b == job[w].bill
         IN  pc[w] = "commit" /\ job[w].op = "pay" /\ payments'[job[w].key] # None
             /\ terms[b] = mem[w].terms
             => 0 <= paid'[b] /\ paid'[b] <= terms[b].amount]_vars

(* No interleaving of debits, credits and transfers that save stale copies  *)
(* drives a wallet below zero, or its available balance above its balance.  *)
Solvent ==
    \A u \in Wallets : wallet[u] # None =>
        0 <= wallet[u].available /\ wallet[u].available <= wallet[u].balance

(* A payment once committed under an idempotency key is never replaced by   *)
(* another: two requests with one key, also concurrent or retried after a   *)
(* crash, charge at most once.                                              *)
KeyChargedOnce ==
    [][\A k \in Keys : payments[k] # None => payments'[k] = payments[k]]_vars

(* w waits for v: its next statement needs a row, or a key, of v's open     *)
(* transaction.                                                             *)
WaitsFor(w, v) ==
    /\ w # v
    /\ \/ pc[w] = "insert" /\ HoldsKey(v, job[w].key)
       \/ pc[w] = "debit" /\ job[w].user \in users /\ lock[job[w].user] = v
       \/ /\ pc[w] = "bill"
          /\ CanBePaid(w) /\ terms[job[w].bill] # None
          /\ lock[job[w].bill] = v
       \/ pc[w] = "save" /\ lock[job[w].bill] = v
       \/ /\ pc[w] = "load_cluster"
          /\ wallet[Cluster] = None
          /\ job[w].op # "transfer"
          /\ lock[Cluster] = v
       \/ pc[w] = "write_cluster" /\ ClusterOpValid(w) /\ lock[Cluster] = v

(* The order in which add_payment and its callees write rows (key, wallet,  *)
(* bill, cluster wallet) never lets transactions wait for each other in a   *)
(* cycle, so PostgreSQL never has a deadlock to break.                      *)
NoWaitCycle ==
    \A S \in SUBSET Workers :
        S # {} => \E w \in S : \A v \in S : ~ WaitsFor(w, v)

(* Every request that a worker takes comes to an end, whatever the others   *)
(* do.                                                                      *)
RequestsEnd == \A w \in Workers : pc[w] # "idle" ~> pc[w] = "idle"

(* Payments as they should be: one atomic step each.                        *)
Ledger ==
    INSTANCE PaymentLedger WITH wallet <- wallet, terms <- terms, paid <- paid,
                                payments <- payments, acked <- acked

(* A single worker, which may crash at any point and be asked again with    *)
(* the same key, implements the atomic ledger.                              *)
ImplementsLedger == Ledger!Spec
=============================================================================
