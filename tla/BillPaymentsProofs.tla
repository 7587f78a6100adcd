------------------------- MODULE BillPaymentsProofs -------------------------
(***************************************************************************)
(* Safety of BillPayments for every number of workers, residents, bills and *)
(* keys.  The properties speak of committed rows only; the inductive        *)
(* invariant adds what a bill that is not there looks like (BillsOK) and,   *)
(* of every worker, what its request is and what its copies satisfy at each *)
(* step (JobOK, CopiesOK), that it alone holds the key it inserted (KeysOK), *)
(* how far it must have come to have locked a row and that it has locked    *)
(* the bill it is about to write (LocksOK).                                 *)
(* The last part shows that one worker implements PaymentLedger: alone, its *)
(* copies are the rows (OneWorkerImplementsLedger).                         *)
(***************************************************************************)
EXTENDS BillPayments, TLAPS

Sound(row) == 0 <= row.available /\ row.available <= row.balance

Paying  == {"load_wallet", "validate", "insert", "debit", "bill"}
Closing == {"load_cluster", "write_cluster", "commit"}

(* The payment has been added to the copy of the bill.                      *)
Added(w) == pc[w] \in Closing /\ job[w].op = "pay"

JobOK(w) ==
    /\ pc[w] \in Paying \cup {"finish"} => job[w] \in PayJob
    /\ pc[w] \in Closing => job[w] \in PayJob \cup ClusterJob
    /\ pc[w] = "ack" => job[w] \in AckJob
    /\ pc[w] = "save" => job[w] \in EditJob

(* A copy of a bill shows no more paid, and a payer's copy no higher amount, *)
(* than the bill has had; from "insert" on the payment fits the copy of the *)
(* bill, until it is added to it, and the copy of the wallet, until it is   *)
(* taken from it.                                                           *)
CopiesOK(w) ==
    /\ pc[w] \in Paying \cup {"save"} \/ Added(w) =>
         /\ mem[w].terms \in Terms
         /\ 0 <= mem[w].paid /\ mem[w].paid <= highest[job[w].bill]
    /\ pc[w] \in Paying \/ Added(w) => mem[w].terms.amount <= highest[job[w].bill]
    /\ pc[w] \in {"validate", "insert", "debit", "bill"} \/ Added(w) => Sound(mem[w].own)
    /\ pc[w] \in {"insert", "debit", "bill"} =>
         mem[w].paid + mem[w].amount <= mem[w].terms.amount
    /\ pc[w] \in {"insert", "debit", "bill", "finish"} \/ Added(w) => mem[w].amount > 0
    /\ Added(w) => mem[w].paid <= mem[w].terms.amount
    /\ pc[w] \in {"insert", "debit"} => mem[w].amount <= mem[w].own.available
    /\ pc[w] \in {"write_cluster", "commit"} => Sound(mem[w].cluster)

(* An open transaction owns the key it inserted.                            *)
KeysOK(w) ==
    \A k \in Keys : HoldsKey(w, k) =>
        /\ payments[k] = None
        /\ \A v \in Workers \ {w} : ~ HoldsKey(v, k)

LocksOK(w) ==
    /\ \A u \in Residents : lock[u] = w => pc[w] \in Closing \cup {"bill"}
    /\ \A b \in Bills : lock[b] = w => pc[w] \in Closing
    /\ lock[Cluster] = w => pc[w] \in {"write_cluster", "commit"}
    /\ Added(w) => lock[job[w].bill] = w /\ terms[job[w].bill] # None

WorkerOK(w) == JobOK(w) /\ CopiesOK(w) /\ KeysOK(w) /\ LocksOK(w)

BillsOK ==
    \A b \in Bills :
        /\ terms[b] = None => paid[b] = 0
        /\ terms[b] # None => terms[b].amount <= highest[b]

RowsOK == NeverOverpaid /\ Solvent /\ BillsOK

IInv == TypeOK /\ RowsOK /\ \A w \in Workers : WorkerOK(w)

-----------------------------------------------------------------------------
(* The types of what a worker holds, one fact per component.                *)
LEMMA MemTypes ==
    ASSUME IInv, NEW w \in Workers
    PROVE  /\ mem[w] \in Mem /\ mem[w].own \in WalletRow /\ mem[w].cluster \in WalletRow
           /\ mem[w].paid \in Int /\ mem[w].amount \in Int
           /\ mem[w].terms \in Terms \cup {None}
  BY DEF IInv, TypeOK, Mem

(* The types of what a payment asks for.                                    *)
LEMMA PayTypes ==
    ASSUME NEW j \in PayJob
    PROVE  /\ j.op = "pay" /\ j.bill \in Bills /\ j.user \in Residents
           /\ j.key \in Keys /\ j.amount \in Int
  BY ConstantsAssumption DEF PayJob

(* What others do to rows that a worker has not locked, and to bills it has *)
(* a copy of, leaves its part of the invariant alone.                       *)
LEMMA UntouchedWorker ==
    ASSUME IInv, NEW v \in Workers,
           pc'[v] = pc[v] /\ job'[v] = job[v] /\ mem'[v] = mem[v],
           \A r \in Rows : lock'[r] = lock[r] \/ (lock[r] # v /\ lock'[r] # v),
           highest' \in [Bills -> Nat],
           job[v] \in BillJob => highest[job[v].bill] <= highest'[job[v].bill],
           Added(v) => terms'[job[v].bill] # None,
           \A k \in Keys : HoldsKey(v, k) =>
               payments'[k] = None /\ \A u \in Workers \ {v} : ~ HoldsKey(u, k)'
    PROVE  WorkerOK(v)'
  <1> USE ConstantsAssumption
  <1>1. WorkerOK(v) /\ (Added(v)' <=> Added(v))
    BY DEF IInv, Added
  <1>2. (pc[v] \in Paying \cup {"save"} \/ Added(v)) =>
          /\ job[v] \in BillJob /\ job[v].bill \in Bills
          /\ highest[job[v].bill] \in Nat /\ highest'[job[v].bill] \in Nat
    BY <1>1 DEF WorkerOK, JobOK, Added, BillJob, PayJob, ClusterJob, EditJob, IInv, TypeOK
  <1>3. mem[v] \in Mem /\ mem[v].paid \in Int /\ (mem[v].terms \in Terms => mem[v].terms.amount \in Int)
    BY MemTypes DEF Terms
  <1>4. JobOK(v)' /\ KeysOK(v)'
    BY <1>1 DEF WorkerOK, JobOK, KeysOK, HoldsKey
  <1>5. CopiesOK(v)'
    BY <1>1, <1>2, <1>3 DEF WorkerOK, CopiesOK
  <1>6. LocksOK(v)'
    BY <1>1, <1>2 DEF WorkerOK, LocksOK, Rows, Wallets
  <1>7. QED
    BY <1>4, <1>5, <1>6 DEF WorkerOK

(* A step that writes no row: what the worker does to itself decides.       *)
LEMMA OwnStep ==
    ASSUME IInv, NEW w \in Workers, UNCHANGED db,
           pc' \in [Workers -> Steps] /\ job' \in [Workers -> Job \cup {None}],
           mem' \in [Workers -> Mem] /\ lock' \in [Rows -> Workers \cup {None}],
           \A v \in Workers \ {w} : pc'[v] = pc[v] /\ job'[v] = job[v] /\ mem'[v] = mem[v],
           \A r \in Rows : lock'[r] = lock[r] \/ (lock[r] \in {None, w} /\ lock'[r] \in {None, w}),
           pc'[w] # "idle" => job'[w] # None,
           WorkerOK(w)'
    PROVE  IInv'
  <1> USE ConstantsAssumption DEF db, desk
  <1>1. TypeOK'
    BY DEF IInv, TypeOK
  <1>2. RowsOK'
    BY DEF IInv, RowsOK, NeverOverpaid, Solvent, BillsOK
  <1>3. ASSUME NEW v \in Workers \ {w} PROVE WorkerOK(v)'
    <2>1. WorkerOK(v) /\ v # None
      BY DEF IInv
    <2>2. \A k \in Keys : HoldsKey(v, k) => HoldsKey(v, k)'
      BY DEF HoldsKey
    <2>3. \A k \in Keys : HoldsKey(v, k) =>
             payments'[k] = None /\ \A u \in Workers \ {v} : ~ HoldsKey(u, k)'
      <3>1. ASSUME NEW k \in Keys, HoldsKey(v, k), NEW u \in Workers \ {v}, HoldsKey(u, k)'
            PROVE  FALSE
        <4>1. CASE u = w
          BY <2>2, <3>1, <4>1 DEF WorkerOK, KeysOK
        <4>2. CASE u # w
          BY <2>1, <3>1, <4>2 DEF WorkerOK, KeysOK, HoldsKey
        <4>3. QED
          BY <4>1, <4>2
      <3>2. QED
        BY <2>1, <3>1 DEF WorkerOK, KeysOK
    <2>4. Added(v) => terms'[job[v].bill] # None
      BY <2>1 DEF WorkerOK, LocksOK
    <2>5. job[v] \in BillJob => highest[job[v].bill] <= highest'[job[v].bill]
      BY DEF IInv, TypeOK, BillJob, PayJob, AckJob, EditJob
    <2>6. \A r \in Rows : lock'[r] = lock[r] \/ (lock[r] # v /\ lock'[r] # v)
      BY <2>1
    <2>7. highest' \in [Bills -> Nat]
      BY DEF IInv, TypeOK
    <2>8. QED
      BY <2>3, <2>4, <2>5, <2>6, <2>7, UntouchedWorker
  <1>4. QED
    BY <1>1, <1>2, <1>3 DEF IInv

-----------------------------------------------------------------------------
LEMMA InitIInv == Init => IInv
  <1> SUFFICES ASSUME Init PROVE IInv
    OBVIOUS
  <1> USE ConstantsAssumption
  <1>1. TypeOK
    BY DEF Init, TypeOK, EmptyMem, EmptyWallet, Mem, WalletRow, Wallets, Rows, Steps
  <1>2. RowsOK
    BY DEF Init, RowsOK, NeverOverpaid, Solvent, Wallets, BillsOK
  <1>3. \A w \in Workers : WorkerOK(w)
    BY DEF Init, WorkerOK, CopiesOK, JobOK, KeysOK, LocksOK, HoldsKey, Rows, Wallets, Paying, Closing, Added
  <1>4. QED
    BY <1>1, <1>2, <1>3 DEF IInv

(* An idle worker with no locks satisfies its part.                         *)
LEMMA IdleWorkerOK ==
    ASSUME NEW w \in Workers, pc'[w] = "idle", \A r \in Rows : lock'[r] # w
    PROVE  WorkerOK(w)'
  BY DEF WorkerOK, JobOK, CopiesOK, KeysOK, LocksOK, HoldsKey, Added, Paying, Closing, Rows, Wallets

(* The types that survive the end of a request.                             *)
LEMMA DoneTypes ==
    ASSUME IInv, NEW w \in Workers, Done(w)
    PROVE  /\ pc' \in [Workers -> Steps] /\ job' \in [Workers -> Job \cup {None}]
           /\ mem' \in [Workers -> Mem] /\ pc'[w] = "idle"
           /\ \A v \in Workers \ {w} : pc'[v] = pc[v] /\ job'[v] = job[v] /\ mem'[v] = mem[v]
           /\ \A v \in Workers : pc'[v] # "idle" => job'[v] # None
  <1>1. EmptyMem \in Mem
    BY DEF EmptyMem, EmptyWallet, Mem, WalletRow
  <1>2. QED
    BY <1>1 DEF Done, Goto, IInv, TypeOK, Steps

(* A rollback undoes what the worker did and leaves nothing behind.         *)
LEMMA RollbackIInv ==
    ASSUME IInv, NEW w \in Workers, Rollback(w) PROVE IInv'
  <1> USE ConstantsAssumption
  <1>1. Done(w) /\ Unlock(w) /\ UNCHANGED db
    BY DEF Rollback
  <1>2. /\ lock' \in [Rows -> Workers \cup {None}] /\ \A r \in Rows : lock'[r] # w
        /\ \A r \in Rows : lock'[r] = lock[r] \/ (lock[r] \in {None, w} /\ lock'[r] \in {None, w})
    BY <1>1 DEF Unlock, IInv, TypeOK
  <1>3. QED
    BY <1>1, <1>2, DoneTypes, IdleWorkerOK, OwnStep

-----------------------------------------------------------------------------
(* A request starts with a copy of a committed bill; an edit puts its own   *)
(* terms on the copy.                                                       *)
LEMMA ReceiveIInv ==
    ASSUME IInv, NEW w \in Workers, Receive(w) PROVE IInv'
  <1> USE ConstantsAssumption
  <1>1. UNCHANGED <<db, lock>> /\ pc[w] = "idle" /\ WorkerOK(w) /\ mem[w] \in Mem
    BY MemTypes DEF Receive, IInv
  <1>2. ASSUME NEW j \in ClusterJob, job' = [job EXCEPT ![w] = j],
               mem' = [mem EXCEPT ![w].amount = j.amount], Goto(w, "load_cluster")
        PROVE  IInv'
    <2>1. j \in Job /\ j.op # "pay" /\ j.amount \in Int
      BY DEF ClusterJob, Job
    <2>2. [mem[w] EXCEPT !.amount = j.amount] \in Mem
      BY <1>1, <2>1 DEF Mem
    <2>3. mem' \in [Workers -> Mem]
      BY <1>2, <2>2 DEF IInv, TypeOK
    <2>4. pc'[w] = "load_cluster" /\ job'[w] = j
      BY <1>2 DEF Goto, IInv, TypeOK
    <2>5. WorkerOK(w)'
      BY <1>1, <2>1, <2>4 DEF WorkerOK, JobOK, CopiesOK, KeysOK, LocksOK, HoldsKey, Added, Paying, Closing
    <2>6. QED
      BY <1>1, <1>2, <2>1, <2>3, <2>4, <2>5, OwnStep DEF Goto, IInv, TypeOK, Steps
  <1>3. ASSUME NEW j \in BillJob, terms[j.bill] # None, job' = [job EXCEPT ![w] = j],
               NEW t \in Terms, j.op # "edit" => t = terms[j.bill],
               mem' = [mem EXCEPT ![w].terms = t, ![w].paid = paid[j.bill]],
               Goto(w, FirstStep(j.op))
        PROVE  IInv'
    <2>1. /\ j \in Job /\ j.bill \in Bills
          /\ \/ j \in PayJob /\ j.op = "pay" /\ FirstStep(j.op) = "load_wallet"
             \/ j \in AckJob /\ j.op = "ack" /\ FirstStep(j.op) = "ack"
             \/ j \in EditJob /\ j.op = "edit" /\ FirstStep(j.op) = "save"
      BY DEF BillJob, PayJob, AckJob, EditJob, FirstStep, Job
    <2>2. paid[j.bill] \in Int /\ 0 <= paid[j.bill] /\ paid[j.bill] <= highest[j.bill]
          /\ (j.op # "edit" => t.amount <= highest[j.bill])
      BY <1>3, <2>1 DEF IInv, TypeOK, RowsOK, NeverOverpaid, BillsOK
    <2>3. [mem[w] EXCEPT !.terms = t, !.paid = paid[j.bill]] \in Mem
      BY <1>1, <2>2 DEF Mem
    <2>4. mem' \in [Workers -> Mem] /\ mem'[w].terms = t /\ mem'[w].paid = paid[j.bill]
      BY <1>1, <1>3, <2>3 DEF IInv, TypeOK, Mem
    <2>5. pc'[w] = FirstStep(j.op) /\ job'[w] = j /\ highest' = highest
      BY <1>1, <1>3 DEF Goto, IInv, TypeOK, db, desk
    <2>6. JobOK(w)' /\ KeysOK(w)' /\ LocksOK(w)'
      BY <1>1, <2>1, <2>5 DEF WorkerOK, JobOK, KeysOK, LocksOK, HoldsKey, Added, Paying, Closing
    <2>7. CopiesOK(w)'
      BY <2>1, <2>2, <2>4, <2>5 DEF CopiesOK, Added, Paying, Closing
    <2>8. QED
      BY <1>1, <1>3, <2>1, <2>4, <2>5, <2>6, <2>7, OwnStep DEF WorkerOK, Goto, IInv, TypeOK, Steps
  <1>4. \A j \in BillJob : terms[j.bill] # None => terms[j.bill] \in Terms
    BY DEF IInv, TypeOK, BillJob, PayJob, AckJob, EditJob
  <1>5. Asked \subseteq Terms
    OBVIOUS
  <1>6. QED
    BY <1>2, <1>3, <1>4, <1>5 DEF Receive

(* What the steps of a request share: the worker alone changes, and it      *)
(* holds no key that it did not hold.                                       *)
LEMMA StepIInv ==
    ASSUME IInv, NEW w \in Workers, UNCHANGED <<db, job>>, job[w] # None,
           NEW s \in Steps, Goto(w, s),
           NEW m \in Mem, mem' = [mem EXCEPT ![w] = m],
           \/ lock' = lock
           \/ \E r \in Rows : Free(r, w) /\ Lock(w, r),
           JobOK(w)', CopiesOK(w)', KeysOK(w)', LocksOK(w)'
    PROVE  IInv'
  <1>1. /\ pc' \in [Workers -> Steps] /\ mem' \in [Workers -> Mem]
        /\ job' \in [Workers -> Job \cup {None}] /\ job'[w] # None
        /\ \A v \in Workers \ {w} : pc'[v] = pc[v] /\ job'[v] = job[v] /\ mem'[v] = mem[v]
    BY DEF IInv, TypeOK, Goto
  <1>2. /\ lock' \in [Rows -> Workers \cup {None}]
        /\ \A r \in Rows : lock'[r] = lock[r] \/ (lock[r] \in {None, w} /\ lock'[r] \in {None, w})
    BY DEF IInv, TypeOK, Free, Lock
  <1>3. QED
    BY <1>1, <1>2, OwnStep DEF WorkerOK

(* The copy of the wallet is as sound as the committed row.                 *)
LEMMA LoadWalletIInv ==
    ASSUME IInv, NEW w \in Workers, LoadWallet(w) PROVE IInv'
  <1> USE ConstantsAssumption
  <1> DEFINE own == wallet[job[w].user]
             m   == [mem[w] EXCEPT !.own = own]
  <1>1. /\ pc[w] = "load_wallet" /\ Goto(w, "validate")
        /\ mem' = [mem EXCEPT ![w] = m] /\ UNCHANGED <<db, lock, job>>
    BY DEF LoadWallet, IInv, TypeOK
  <1>2. WorkerOK(w) /\ job[w] \in PayJob
    BY <1>1 DEF IInv, WorkerOK, JobOK, Paying
  <1>3. own \in WalletRow /\ Sound(own)
    BY <1>2, PayTypes DEF IInv, RowsOK, Solvent, TypeOK, Sound, Wallets
  <1>4. m \in Mem
    BY <1>3, MemTypes DEF Mem
  <1>5. pc'[w] = "validate" /\ mem'[w] = m
    BY <1>1 DEF Goto, IInv, TypeOK
  <1>6. JobOK(w)' /\ KeysOK(w)' /\ LocksOK(w)'
    BY <1>1, <1>2, <1>5 DEF WorkerOK, JobOK, KeysOK, LocksOK, HoldsKey, Added, Paying, Closing
  <1>7. CopiesOK(w)'
    BY <1>1, <1>2, <1>3, <1>5, MemTypes DEF WorkerOK, CopiesOK, Added, Paying, Closing, Mem, db, desk
  <1>8. QED
    BY <1>1, <1>2, <1>4, <1>6, <1>7, StepIInv DEF Steps, IInv, TypeOK

(* The checks of process_payment bound the amount by the copies.            *)
LEMMA ValidateIInv ==
    ASSUME IInv, NEW w \in Workers, Validate(w) PROVE IInv'
  <1> USE ConstantsAssumption
  <1> DEFINE m == [mem[w] EXCEPT !.amount = PaymentAmount(w)]
  <1>1. CASE Rollback(w)
    BY <1>1, RollbackIInv
  <1>2. CASE ~ Rollback(w)
    <2>1. /\ pc[w] = "validate" /\ Payable(w) /\ Goto(w, "insert")
          /\ mem' = [mem EXCEPT ![w] = m] /\ UNCHANGED <<db, lock, job>>
      BY <1>2 DEF Validate, IInv, TypeOK
    <2>2. WorkerOK(w) /\ job[w] \in PayJob /\ mem[w].terms \in Terms
      BY <2>1 DEF IInv, WorkerOK, JobOK, CopiesOK, Paying
    <2>3. PaymentAmount(w) \in Int
      BY <2>2, PayTypes, MemTypes DEF PaymentAmount, Terms
    <2>4. m \in Mem
      BY <2>3, MemTypes DEF Mem
    <2>5. pc'[w] = "insert" /\ mem'[w] = m
      BY <2>1 DEF Goto, IInv, TypeOK
    <2>6. JobOK(w)' /\ KeysOK(w)' /\ LocksOK(w)'
      BY <2>1, <2>2, <2>5 DEF WorkerOK, JobOK, KeysOK, LocksOK, HoldsKey, Added, Paying, Closing
    <2>7. CopiesOK(w)'
      BY <2>1, <2>2, <2>3, <2>5, MemTypes
      DEF WorkerOK, CopiesOK, Added, Paying, Closing, Mem, db, desk, Payable,
          HasSufficientBalance, Terms
    <2>8. QED
      BY <2>1, <2>2, <2>4, <2>6, <2>7, StepIInv DEF Steps, IInv, TypeOK
  <1>3. QED
    BY <1>1, <1>2

(* Only a key that no transaction holds, open or committed, is inserted.    *)
LEMMA InsertTransactionIInv ==
    ASSUME IInv, NEW w \in Workers, InsertTransaction(w) PROVE IInv'
  <1> USE ConstantsAssumption
  <1>1. CASE Rollback(w)
    BY <1>1, RollbackIInv
  <1>2. CASE ~ Rollback(w)
    <2>1. /\ pc[w] = "insert" /\ KeyFree(w) /\ payments[job[w].key] = None
          /\ Goto(w, "debit") /\ UNCHANGED <<db, lock, job, mem>>
      BY <1>2 DEF InsertTransaction
    <2>2. WorkerOK(w) /\ job[w] \in PayJob
      BY <2>1 DEF IInv, WorkerOK, JobOK, Paying
    <2>3. pc'[w] = "debit" /\ mem'[w] = mem[w] /\ mem' = [mem EXCEPT ![w] = mem[w]]
      BY <2>1 DEF Goto, IInv, TypeOK
    <2>4. JobOK(w)' /\ LocksOK(w)'
      BY <2>1, <2>2, <2>3 DEF WorkerOK, JobOK, LocksOK, Added, Paying, Closing
    <2>5. KeysOK(w)'
      BY <2>1 DEF KeysOK, HoldsKey, KeyFree, Goto, IInv, TypeOK, db
    <2>6. CopiesOK(w)'
      BY <2>1, <2>2, <2>3 DEF WorkerOK, CopiesOK, Added, Paying, Closing, db, desk
    <2>7. QED
      BY <2>1, <2>2, <2>3, <2>4, <2>5, <2>6, StepIInv, MemTypes DEF Steps, IInv, TypeOK
  <1>3. QED
    BY <1>1, <1>2

(* The amount was checked against the copy it is taken from.                *)
LEMMA DebitWalletIInv ==
    ASSUME IInv, NEW w \in Workers, DebitWallet(w) PROVE IInv'
  <1> USE ConstantsAssumption
  <1> DEFINE own == Debited(mem[w].own, mem[w].amount)
             m   == [mem[w] EXCEPT !.own = own]
  <1>1. WorkerOK(w) /\ job[w] \in PayJob /\ pc[w] = "debit" /\ UNCHANGED <<db, job>>
    BY DEF IInv, WorkerOK, JobOK, Paying, DebitWallet
  <1>2. job[w].user \in Rows
    BY <1>1, PayTypes DEF Rows, Wallets
  <1>3. CASE job[w].user \in users
    <2>1. /\ Free(job[w].user, w) /\ Lock(w, job[w].user)
          /\ Goto(w, "bill") /\ mem' = [mem EXCEPT ![w] = m]
      BY <1>3 DEF DebitWallet, IInv, TypeOK
    <2>2. own \in WalletRow /\ Sound(own)
      BY <1>1, MemTypes DEF WorkerOK, CopiesOK, Sound, Debited, WalletRow
    <2>3. m \in Mem
      BY <2>2, MemTypes DEF Mem
    <2>4. pc'[w] = "bill" /\ mem'[w] = m
      BY <2>1 DEF Goto, IInv, TypeOK
    <2>5. JobOK(w)'
      BY <1>1, <2>4 DEF WorkerOK, JobOK, Paying, Closing
    <2>6. KeysOK(w)'
      BY <1>1, <2>1, <2>4 DEF WorkerOK, KeysOK, HoldsKey, Goto, db
    <2>7. LocksOK(w)'
      BY <1>1, <1>2, <2>1, <2>4, PayTypes
      DEF WorkerOK, LocksOK, Lock, Added, Closing, IInv, TypeOK, Rows, Wallets
    <2>8. CopiesOK(w)'
      BY <1>1, <2>2, <2>4, MemTypes DEF WorkerOK, CopiesOK, Added, Paying, Closing, Mem, db, desk
    <2>9. QED
      BY <1>1, <1>2, <2>1, <2>3, <2>5, <2>6, <2>7, <2>8, StepIInv DEF Steps, IInv, TypeOK
  <1>4. CASE job[w].user \notin users
    <2>1. Goto(w, "finish") /\ UNCHANGED <<lock, mem>>
      BY <1>4 DEF DebitWallet
    <2>2. pc'[w] = "finish" /\ mem'[w] = mem[w] /\ mem' = [mem EXCEPT ![w] = mem[w]]
      BY <2>1 DEF Goto, IInv, TypeOK
    <2>3. JobOK(w)' /\ LocksOK(w)' /\ CopiesOK(w)'
      BY <1>1, <2>1, <2>2 DEF WorkerOK, JobOK, LocksOK, CopiesOK, Added, Paying, Closing
    <2>4. KeysOK(w)'
      BY <1>1, <2>1, <2>2 DEF WorkerOK, KeysOK, HoldsKey, Goto, db
    <2>5. QED
      BY <1>1, <2>1, <2>2, <2>3, <2>4, StepIInv, MemTypes DEF Steps, IInv, TypeOK
  <1>5. QED
    BY <1>3, <1>4

(* The amount was checked against the copy it is added to.                  *)
LEMMA UpdateBillIInv ==
    ASSUME IInv, NEW w \in Workers, UpdateBill(w) PROVE IInv'
  <1> USE ConstantsAssumption
  <1> DEFINE m == [mem[w] EXCEPT !.paid = mem[w].paid + mem[w].amount]
             b == job[w].bill
  <1>1. CASE Rollback(w)
    BY <1>1, RollbackIInv
  <1>2. CASE ~ Rollback(w)
    <2>1. /\ pc[w] = "bill" /\ terms[b] # None /\ Free(b, w) /\ Lock(w, b)
          /\ Goto(w, "load_cluster") /\ mem' = [mem EXCEPT ![w] = m] /\ UNCHANGED <<db, job>>
      BY <1>2 DEF UpdateBill, IInv, TypeOK
    <2>2. WorkerOK(w) /\ job[w] \in PayJob /\ b \in Rows /\ b \in Bills /\ job[w].op = "pay"
      BY <2>1, PayTypes DEF IInv, WorkerOK, JobOK, Paying, Rows
    <2>3. m \in Mem
      BY MemTypes DEF Mem
    <2>4. pc'[w] = "load_cluster" /\ mem'[w] = m
      BY <2>1 DEF Goto, IInv, TypeOK
    <2>5. JobOK(w)'
      BY <2>1, <2>2, <2>4 DEF WorkerOK, JobOK, Paying, Closing
    <2>6. KeysOK(w)'
      BY <2>1, <2>2, <2>4 DEF WorkerOK, KeysOK, HoldsKey, Goto, db
    <2>7. LocksOK(w)'
      BY <2>1, <2>2, <2>4 DEF WorkerOK, LocksOK, Lock, Added, Closing, IInv, TypeOK, Rows, Wallets, db, desk
    <2>8. CopiesOK(w)'
      <3>1. highest[b] \in Nat /\ mem[w].terms \in Terms /\ mem[w].terms.amount \in Int
        BY <2>1, <2>2 DEF IInv, TypeOK, WorkerOK, CopiesOK, Paying, Terms
      <3>2. QED
        BY <2>1, <2>2, <2>4, <3>1, MemTypes
        DEF WorkerOK, CopiesOK, Added, Paying, Closing, Mem, db, desk
    <2>9. QED
      BY <2>1, <2>2, <2>3, <2>5, <2>6, <2>7, <2>8, StepIInv DEF Steps, IInv, TypeOK
  <1>3. QED
    BY <1>1, <1>2

(* The copy of the cluster wallet is sound, read or created.                *)
LEMMA LoadClusterIInv ==
    ASSUME IInv, NEW w \in Workers, LoadCluster(w) PROVE IInv'
  <1> USE ConstantsAssumption
  <1> DEFINE row == IF wallet[Cluster] = None THEN EmptyWallet ELSE wallet[Cluster]
             m   == [mem[w] EXCEPT !.cluster = row]
  <1>1. CASE Rollback(w)
    BY <1>1, RollbackIInv
  <1>2. CASE ~ Rollback(w)
    <2>1. /\ pc[w] = "load_cluster" /\ Goto(w, "write_cluster")
          /\ mem' = [mem EXCEPT ![w] = m] /\ UNCHANGED <<db, job>>
          /\ lock' = lock \/ (Free(Cluster, w) /\ Lock(w, Cluster))
      BY <1>2 DEF LoadCluster, IInv, TypeOK
    <2>2. WorkerOK(w) /\ job[w] \in PayJob \cup ClusterJob /\ job[w] # None /\ Cluster \in Rows
      BY <2>1 DEF IInv, TypeOK, WorkerOK, JobOK, Closing, Rows, Wallets
    <2>3. row \in WalletRow /\ Sound(row)
      BY DEF IInv, RowsOK, Solvent, TypeOK, Sound, Wallets, WalletRow, EmptyWallet
    <2>4. m \in Mem
      BY <2>3, MemTypes DEF Mem
    <2>5. pc'[w] = "write_cluster" /\ mem'[w] = m
      BY <2>1 DEF Goto, IInv, TypeOK
    <2>6. JobOK(w)'
      BY <2>1, <2>2, <2>5 DEF WorkerOK, JobOK, Paying, Closing
    <2>7. KeysOK(w)'
      BY <2>1, <2>2, <2>5 DEF WorkerOK, KeysOK, HoldsKey, Goto, db
    <2>8. LocksOK(w)'
      <3>1. Added(w)' => Added(w) /\ job[w].bill \in Bills /\ job[w].bill \in Rows
        BY <2>1, <2>2, <2>5 DEF Added, Closing, PayJob, ClusterJob, Rows
      <3>2. \A r \in Rows \ {Cluster} : lock'[r] = lock[r]
        BY <2>1 DEF Lock, IInv, TypeOK
      <3>3. QED
        BY <2>1, <2>2, <2>5, <3>1, <3>2
        DEF WorkerOK, LocksOK, Closing, Rows, Wallets, db, desk
    <2>9. CopiesOK(w)'
      BY <2>1, <2>2, <2>3, <2>5, MemTypes DEF WorkerOK, CopiesOK, Added, Paying, Closing, Mem, db, desk
    <2>10. QED
      BY <2>1, <2>2, <2>4, <2>6, <2>7, <2>8, <2>9, StepIInv DEF Steps
  <1>3. QED
    BY <1>1, <1>2

(* credit adds a positive amount; debit checks the copy.                    *)
LEMMA WriteClusterIInv ==
    ASSUME IInv, NEW w \in Workers, WriteCluster(w) PROVE IInv'
  <1> USE ConstantsAssumption
  <1> DEFINE m == [mem[w] EXCEPT !.cluster = ClusterAfter(w)]
  <1>1. CASE Rollback(w)
    BY <1>1, RollbackIInv
  <1>2. CASE ~ Rollback(w)
    <2>1. /\ pc[w] = "write_cluster" /\ ClusterOpValid(w) /\ Goto(w, "commit")
          /\ mem' = [mem EXCEPT ![w] = m] /\ UNCHANGED <<db, job>>
          /\ Free(Cluster, w) /\ Lock(w, Cluster)
      BY <1>2 DEF WriteCluster, IInv, TypeOK
    <2>2. WorkerOK(w) /\ job[w] \in PayJob \cup ClusterJob /\ job[w] # None /\ Cluster \in Rows
      BY <2>1 DEF IInv, TypeOK, WorkerOK, JobOK, Closing, Rows, Wallets
    <2>3. ClusterAfter(w) \in WalletRow /\ Sound(ClusterAfter(w))
      BY <2>1, <2>2, MemTypes
      DEF ClusterAfter, ClusterOpValid, Credited, Debited, HasSufficientBalance, WalletRow,
          WorkerOK, CopiesOK, Sound
    <2>4. m \in Mem
      BY <2>3, MemTypes DEF Mem
    <2>5. pc'[w] = "commit" /\ mem'[w] = m
      BY <2>1 DEF Goto, IInv, TypeOK
    <2>6. JobOK(w)'
      BY <2>1, <2>2, <2>5 DEF WorkerOK, JobOK, Paying, Closing
    <2>7. KeysOK(w)'
      BY <2>1, <2>2, <2>5 DEF WorkerOK, KeysOK, HoldsKey, Goto, db
    <2>8. LocksOK(w)'
      BY <2>1, <2>2, <2>5 DEF WorkerOK, LocksOK, Lock, Added, Closing, IInv, TypeOK, Rows, Wallets, db, desk
    <2>9. CopiesOK(w)'
      BY <2>1, <2>2, <2>3, <2>5, MemTypes DEF WorkerOK, CopiesOK, Added, Paying, Closing, Mem, db, desk
    <2>10. QED
      BY <2>1, <2>2, <2>4, <2>6, <2>7, <2>8, <2>9, StepIInv DEF Steps
  <1>3. QED
    BY <1>1, <1>2

-----------------------------------------------------------------------------
(* A request that ends with a write: the rows it leaves behind decide, as   *)
(* long as bills that others have locked stay and keys that others have     *)
(* inserted are not taken.                                                  *)
LEMMA LastStep ==
    ASSUME IInv, NEW w \in Workers, Done(w),
           \/ lock' = lock /\ pc[w] \in {"finish", "ack", "save"}
           \/ Unlock(w),
           wallet' \in [Wallets -> WalletRow \cup {None}], \A u \in Residents : wallet'[u] # None,
           terms' \in [Bills -> Terms \cup {None}], paid' \in [Bills -> Int],
           highest' \in [Bills -> Nat], \A b \in Bills : highest[b] <= highest'[b],
           payments' \in [Keys -> PaymentRow \cup {None}],
           acked' \subseteq Bills \X Residents, UNCHANGED <<users, now>>,
           \A b \in Bills : terms[b] # None => terms'[b] # None,
           \A k \in Keys : payments'[k] = payments[k] \/ HoldsKey(w, k),
           RowsOK'
    PROVE  IInv'
  <1> USE ConstantsAssumption
  <1>1. /\ lock' \in [Rows -> Workers \cup {None}] /\ \A r \in Rows : lock'[r] # w
        /\ \A r \in Rows : lock'[r] = lock[r] \/ (lock[r] = w /\ lock'[r] = None)
    BY DEF Unlock, IInv, TypeOK, WorkerOK, LocksOK, Closing, Rows, Wallets
  <1>2. TypeOK'
    BY <1>1, DoneTypes DEF IInv, TypeOK
  <1>3. ASSUME NEW v \in Workers \ {w} PROVE WorkerOK(v)'
    <2>1. WorkerOK(v) /\ v # None /\ pc'[v] = pc[v] /\ job'[v] = job[v] /\ mem'[v] = mem[v]
      BY DoneTypes DEF IInv
    <2>2. \A u \in Workers, k \in Keys : HoldsKey(u, k)' => HoldsKey(u, k)
      BY DoneTypes DEF HoldsKey
    <2>3. \A k \in Keys : HoldsKey(v, k) =>
             payments'[k] = None /\ \A u \in Workers \ {v} : ~ HoldsKey(u, k)'
      BY <2>1, <2>2 DEF WorkerOK, KeysOK
    <2>4. Added(v) => terms'[job[v].bill] # None
      BY <2>1 DEF WorkerOK, LocksOK, JobOK, Added, PayJob, ClusterJob
    <2>5. job[v] \in BillJob => highest[job[v].bill] <= highest'[job[v].bill]
      BY DEF BillJob, PayJob, AckJob, EditJob
    <2>6. \A r \in Rows : lock'[r] = lock[r] \/ (lock[r] # v /\ lock'[r] # v)
      BY <1>1, <2>1
    <2>7. QED
      BY <2>1, <2>3, <2>4, <2>5, <2>6, UntouchedWorker
  <1>4. WorkerOK(w)'
    BY <1>1, DoneTypes, IdleWorkerOK
  <1>5. QED
    BY <1>2, <1>3, <1>4 DEF IInv

(* Rows take the values of sound copies.                                    *)
LEMMA CommitIInv ==
    ASSUME IInv, NEW w \in Workers, Commit(w) PROVE IInv'
  <1> USE ConstantsAssumption
  <1>1. pc[w] = "commit" /\ Done(w) /\ Unlock(w) /\ UNCHANGED desk
    BY DEF Commit
  <1>2. WorkerOK(w) /\ job[w] \in PayJob \cup ClusterJob /\ Sound(mem[w].cluster)
    BY <1>1 DEF IInv, WorkerOK, JobOK, CopiesOK, Closing
  <1>3. \A b \in Bills : highest[b] \in Nat /\ highest[b] <= highest'[b]
    BY <1>1 DEF desk, IInv, TypeOK
  <1>4. CASE job[w].op = "pay"
    <2> DEFINE u == job[w].user
               b == job[w].bill
               k == job[w].key
               row == [bill |-> b, payer |-> u, amount |-> mem[w].amount]
    <2>1. job[w] \in PayJob /\ u \in Residents /\ u # Cluster /\ b \in Bills /\ k \in Keys
      BY <1>2, <1>4, PayTypes DEF ClusterJob
    <2>2. /\ wallet' = [wallet EXCEPT ![u] = mem[w].own, ![Cluster] = mem[w].cluster]
          /\ paid' = [paid EXCEPT ![b] = mem[w].paid]
          /\ payments' = [payments EXCEPT ![k] = row]
      BY <1>4 DEF Commit, Complete
    <2>3. /\ Sound(mem[w].own) /\ 0 <= mem[w].paid /\ mem[w].paid <= highest[b]
          /\ mem[w].amount > 0 /\ terms[b] # None /\ HoldsKey(w, k)
      BY <1>1, <1>2, <1>4 DEF WorkerOK, CopiesOK, LocksOK, Added, Closing, HoldsKey
    <2>4. row \in PaymentRow
      BY <2>1, <2>3, MemTypes DEF PaymentRow
    <2>5. wallet' \in [Wallets -> WalletRow \cup {None}] /\ \A r \in Residents : wallet'[r] # None
      BY <2>1, <2>2, MemTypes DEF IInv, TypeOK, Wallets
    <2>6. paid' \in [Bills -> Int] /\ payments' \in [Keys -> PaymentRow \cup {None}]
      BY <2>1, <2>2, <2>4, MemTypes DEF IInv, TypeOK
    <2>7. Solvent'
      BY <1>2, <2>1, <2>2, <2>3 DEF Solvent, IInv, RowsOK, TypeOK, Sound, Wallets
    <2>8. NeverOverpaid' /\ BillsOK'
      BY <1>1, <2>1, <2>2, <2>3 DEF NeverOverpaid, BillsOK, IInv, RowsOK, TypeOK, desk
    <2>9. \A x \in Keys : payments'[x] = payments[x] \/ HoldsKey(w, x)
      BY <2>2, <2>3 DEF IInv, TypeOK
    <2>10. QED
      BY <1>1, <1>3, <2>5, <2>6, <2>7, <2>8, <2>9, LastStep DEF RowsOK, IInv, TypeOK, desk
  <1>5. CASE job[w].op # "pay"
    <2>1. wallet' = [wallet EXCEPT ![Cluster] = mem[w].cluster] /\ UNCHANGED <<paid, payments>>
      BY <1>5 DEF Commit
    <2>2. wallet' \in [Wallets -> WalletRow \cup {None}] /\ \A r \in Residents : wallet'[r] # None
      BY <2>1, MemTypes DEF IInv, TypeOK, Wallets
    <2>3. RowsOK'
      BY <1>1, <1>2, <2>1
      DEF RowsOK, NeverOverpaid, BillsOK, Solvent, IInv, TypeOK, Sound, Wallets, desk
    <2>4. QED
      BY <1>1, <1>3, <2>1, <2>2, <2>3, LastStep DEF IInv, TypeOK, desk
  <1>6. QED
    BY <1>4, <1>5

(* A payment without an account leaves its transaction and no more.         *)
LEMMA FinishIInv ==
    ASSUME IInv, NEW w \in Workers, Finish(w) PROVE IInv'
  <1> USE ConstantsAssumption
  <1> DEFINE k   == job[w].key
             row == [bill |-> job[w].bill, payer |-> job[w].user, amount |-> mem[w].amount]
  <1>1. /\ pc[w] = "finish" /\ Done(w) /\ UNCHANGED <<wallet, paid, desk, lock>>
        /\ payments' = [payments EXCEPT ![k] = row]
    BY DEF Finish, Complete
  <1>2. WorkerOK(w) /\ job[w] \in PayJob /\ mem[w].amount > 0
    BY <1>1 DEF IInv, WorkerOK, JobOK, CopiesOK
  <1>3. row \in PaymentRow /\ HoldsKey(w, k)
    BY <1>1, <1>2, PayTypes, MemTypes DEF PaymentRow, HoldsKey
  <1>4. payments' \in [Keys -> PaymentRow \cup {None}]
        /\ \A x \in Keys : payments'[x] = payments[x] \/ HoldsKey(w, x)
    BY <1>1, <1>3 DEF IInv, TypeOK
  <1>5. RowsOK'
    BY <1>1 DEF RowsOK, NeverOverpaid, BillsOK, Solvent, IInv, desk
  <1>6. QED
    BY <1>1, <1>4, <1>5, LastStep DEF IInv, TypeOK, desk

LEMMA AcknowledgeIInv ==
    ASSUME IInv, NEW w \in Workers, Acknowledge(w) PROVE IInv'
  <1> USE ConstantsAssumption
  <1>1. /\ pc[w] = "ack" /\ Done(w)
        /\ UNCHANGED <<wallet, terms, paid, payments, users, now, highest, lock>>
        /\ acked' \subseteq acked \cup {<<job[w].bill, job[w].user>>}
    BY DEF Acknowledge
  <1>2. job[w] \in AckJob
    BY <1>1 DEF IInv, WorkerOK, JobOK
  <1>3. acked' \subseteq Bills \X Residents
    BY <1>1, <1>2 DEF AckJob, IInv, TypeOK
  <1>4. RowsOK'
    BY <1>1 DEF RowsOK, NeverOverpaid, BillsOK, Solvent, IInv
  <1>5. QED
    BY <1>1, <1>3, <1>4, LastStep DEF IInv, TypeOK

(* An edit writes back what was paid when it loaded the bill, which is at   *)
(* most the largest amount the bill had then.                               *)
LEMMA SaveIInv ==
    ASSUME IInv, NEW w \in Workers, Save(w) PROVE IInv'
  <1> USE ConstantsAssumption
  <1> DEFINE b == job[w].bill
             a == mem[w].terms.amount
             h == IF a > highest[b] THEN a ELSE highest[b]
  <1>1. /\ pc[w] = "save" /\ Done(w) /\ UNCHANGED <<wallet, payments, acked, users, now, lock>>
        /\ terms' = [terms EXCEPT ![b] = mem[w].terms]
        /\ paid' = [paid EXCEPT ![b] = mem[w].paid]
        /\ highest' = [highest EXCEPT ![b] = h]
    BY DEF Save
  <1>2. /\ b \in Bills /\ mem[w].terms \in Terms /\ a \in Nat
        /\ mem[w].paid \in Int /\ 0 <= mem[w].paid /\ mem[w].paid <= highest[b]
    BY <1>1, MemTypes DEF IInv, WorkerOK, JobOK, CopiesOK, EditJob, Terms
  <1>3. highest[b] \in Nat /\ h \in Nat /\ a <= h /\ highest[b] <= h
    BY <1>2 DEF IInv, TypeOK
  <1>4. /\ terms' \in [Bills -> Terms \cup {None}] /\ paid' \in [Bills -> Int]
        /\ highest' \in [Bills -> Nat]
    BY <1>1, <1>2, <1>3 DEF IInv, TypeOK
  <1>5. \A x \in Bills : highest[x] <= highest'[x] /\ (terms[x] # None => terms'[x] # None)
    BY <1>1, <1>2, <1>3 DEF IInv, TypeOK
  <1>6. NeverOverpaid'
    BY <1>1, <1>2, <1>3 DEF NeverOverpaid, IInv, RowsOK, TypeOK
  <1>7. BillsOK'
    BY <1>1, <1>2, <1>3 DEF BillsOK, IInv, RowsOK, TypeOK
  <1>8. Solvent'
    BY <1>1 DEF Solvent, IInv, RowsOK
  <1>9. QED
    BY <1>1, <1>4, <1>5, <1>6, <1>7, <1>8, LastStep DEF RowsOK, IInv, TypeOK

(* The other changes leave every request as it is.  A bill is deleted only  *)
(* when no transaction has locked it, and created under a primary key that  *)
(* no request refers to.                                                    *)
LEMMA DeskIInv ==
    ASSUME IInv, UNCHANGED <<wallet, payments, lock, pc, job, mem>>,
           terms' \in [Bills -> Terms \cup {None}], paid' \in [Bills -> Int],
           highest' \in [Bills -> Nat], acked' \subseteq Bills \X Residents,
           users' \subseteq Residents, now' \in 0 .. MaxTime,
           \A b \in Bills : terms[b] # None /\ lock[b] # None => terms'[b] # None,
           \A b \in Bills : highest[b] <= highest'[b]
              \/ \A v \in Workers : job[v] \in BillJob => job[v].bill # b,
           NeverOverpaid', BillsOK'
    PROVE  IInv'
  <1> USE ConstantsAssumption
  <1>1. TypeOK'
    BY DEF IInv, TypeOK
  <1>2. RowsOK'
    BY DEF IInv, RowsOK, Solvent
  <1>3. ASSUME NEW v \in Workers PROVE WorkerOK(v)'
    <2>1. WorkerOK(v) /\ v # None
      BY DEF IInv
    <2>2. \A k \in Keys : HoldsKey(v, k) =>
             payments'[k] = None /\ \A u \in Workers \ {v} : ~ HoldsKey(u, k)'
      BY <2>1 DEF WorkerOK, KeysOK, HoldsKey
    <2>3. Added(v) => terms'[job[v].bill] # None
      BY <2>1 DEF WorkerOK, LocksOK, JobOK, Added, PayJob, ClusterJob
    <2>4. job[v] \in BillJob => highest[job[v].bill] <= highest'[job[v].bill]
      BY DEF BillJob, PayJob, AckJob, EditJob
    <2>5. QED
      BY <2>2, <2>3, <2>4, UntouchedWorker
  <1>4. QED
    BY <1>1, <1>2, <1>3 DEF IInv

LEMMA CreateIInv ==
    ASSUME IInv, NEW w \in Workers, NEW b \in Bills, Create(w, b) PROVE IInv'
  <1> USE ConstantsAssumption
  <1>1. PICK t \in Asked : /\ terms' = [terms EXCEPT ![b] = t]
                           /\ highest' = [highest EXCEPT ![b] = t.amount]
    BY DEF Create
  <1>2. t \in Terms /\ t.amount \in Nat /\ terms[b] = None
        /\ UNCHANGED <<wallet, paid, payments, acked, users, now, lock, pc, job, mem>>
    BY DEF Create, Terms
  <1>3. terms' \in [Bills -> Terms \cup {None}] /\ highest' \in [Bills -> Nat]
    BY <1>1, <1>2 DEF IInv, TypeOK
  <1>4. paid[b] = 0
    BY <1>2 DEF IInv, RowsOK, BillsOK
  <1>5. NeverOverpaid' /\ BillsOK'
    BY <1>1, <1>2, <1>4 DEF NeverOverpaid, BillsOK, IInv, RowsOK, TypeOK
  <1>6. \A x \in Bills : highest[x] <= highest'[x]
              \/ \A v \in Workers : job[v] \in BillJob => job[v].bill # x
    <2>1. \A x \in Bills \ {b} : highest[x] \in Nat /\ highest'[x] = highest[x]
      BY <1>1 DEF IInv, TypeOK
    <2>2. QED
      BY <2>1 DEF Create, Unused
  <1>7. QED
    BY <1>1, <1>2, <1>3, <1>5, <1>6, DeskIInv DEF IInv, TypeOK

LEMMA DeleteIInv ==
    ASSUME IInv, NEW w \in Workers, NEW b \in Bills, Delete(w, b) PROVE IInv'
  <1>1. /\ terms' = [terms EXCEPT ![b] = None] /\ paid' = [paid EXCEPT ![b] = 0]
        /\ acked' \subseteq acked /\ lock[b] = None
        /\ UNCHANGED <<wallet, payments, users, now, highest, lock, pc, job, mem>>
    BY DEF Delete
  <1>2. terms' \in [Bills -> Terms \cup {None}] /\ paid' \in [Bills -> Int]
    BY <1>1 DEF IInv, TypeOK
  <1>3. NeverOverpaid' /\ BillsOK'
    BY <1>1 DEF NeverOverpaid, BillsOK, IInv, RowsOK, TypeOK
  <1>4. \A x \in Bills : (terms[x] # None /\ lock[x] # None => terms'[x] # None)
                         /\ highest[x] <= highest'[x]
    BY <1>1 DEF IInv, TypeOK
  <1>5. QED
    BY <1>1, <1>2, <1>3, <1>4, DeskIInv DEF IInv, TypeOK

LEMMA LeaveOrTickIInv ==
    ASSUME IInv, (\E w \in Workers, u \in Residents : Leave(w, u)) \/ Tick PROVE IInv'
  <1> USE ConstantsAssumption
  <1>1. /\ users' \subseteq users /\ acked' \subseteq acked /\ now' \in 0 .. MaxTime
        /\ UNCHANGED <<wallet, terms, paid, payments, highest, lock, pc, job, mem>>
    BY DEF Leave, Tick, IInv, TypeOK
  <1>2. NeverOverpaid' /\ BillsOK' /\ \A x \in Bills : highest[x] <= highest'[x]
    BY <1>1 DEF NeverOverpaid, BillsOK, IInv, RowsOK, TypeOK
  <1>3. QED
    BY <1>1, <1>2, DeskIInv DEF IInv, TypeOK

LEMMA NextIInv == IInv /\ [Next]_vars => IInv'
  <1> SUFFICES ASSUME IInv, [Next]_vars PROVE IInv'
    OBVIOUS
  <1>1. ASSUME NEW w \in Workers, Receive(w) PROVE IInv'
    BY <1>1, ReceiveIInv
  <1>2. ASSUME NEW w \in Workers, Serve(w) PROVE IInv'
    BY <1>2, LoadWalletIInv, ValidateIInv, InsertTransactionIInv, DebitWalletIInv,
       UpdateBillIInv, LoadClusterIInv, WriteClusterIInv, CommitIInv, FinishIInv,
       AcknowledgeIInv, SaveIInv DEF Serve
  <1>3. ASSUME NEW w \in Workers, Crash(w) PROVE IInv'
    BY <1>3, RollbackIInv DEF Crash
  <1>4. ASSUME NEW w \in Workers, Desk(w) PROVE IInv'
    BY <1>4, CreateIInv, DeleteIInv, LeaveOrTickIInv DEF Desk
  <1>5. CASE UNCHANGED vars
    BY <1>5 DEF vars, db, desk, IInv, TypeOK, RowsOK, NeverOverpaid, Solvent, BillsOK, WorkerOK,
                JobOK, CopiesOK, KeysOK, LocksOK, HoldsKey, Added
  <1>6. QED
    BY <1>1, <1>2, <1>3, <1>4, <1>5, LeaveOrTickIInv DEF Next

(* The inductive invariant holds in every reachable state.                  *)
THEOREM Invariance == Spec => []IInv
  BY InitIInv, NextIInv, PTL DEF Spec

(* Every variable keeps the type the models declare, for any constants.     *)
THEOREM TypeCorrect == Spec => []TypeOK
  BY Invariance, PTL DEF IInv

(* Whatever stale copies of a bill concurrent payments and edits save, in   *)
(* any number, paid_amount stays between 0 and the largest amount the bill  *)
(* has been given.                                                          *)
THEOREM BillsNeverOverpaid == Spec => []NeverOverpaid
  BY Invariance, PTL DEF IInv, RowsOK

(* No wallet is ever overdrawn, nor shows more available than it holds, for *)
(* any number of concurrent debits, credits and transfers.                  *)
THEOREM WalletsSolvent == Spec => []Solvent
  BY Invariance, PTL DEF IInv, RowsOK

-----------------------------------------------------------------------------
(* How far a worker has come.  A worker that has locked the cluster wallet  *)
(* waits for nobody.                                                        *)
Level(w) ==
    CASE pc[w] = "insert"          -> 1
      [] pc[w] = "debit"           -> 2
      [] pc[w] \in {"bill", "save"} -> 3
      [] pc[w] = "load_cluster"    -> 4
      [] pc[w] = "write_cluster"   -> IF lock[Cluster] = w THEN 6 ELSE 5
      [] OTHER                     -> 6

LEMMA WaitsForHigher ==
    ASSUME IInv, NEW w \in Workers, NEW v \in Workers, WaitsFor(w, v)
    PROVE  Level(w) < Level(v)
  <1> USE ConstantsAssumption
  <1>1. JobOK(w) /\ LocksOK(v)
    BY DEF IInv, WorkerOK
  <1>2. CASE pc[w] = "insert"
    BY <1>2 DEF WaitsFor, HoldsKey, Level
  <1>3. CASE pc[w] = "debit"
    <2>1. job[w].user \in Residents /\ lock[job[w].user] = v
      BY <1>1, <1>3, PayTypes DEF JobOK, Paying, WaitsFor
    <2>2. pc[v] \in Closing \cup {"bill"}
      BY <1>1, <2>1 DEF LocksOK
    <2>3. QED
      BY <1>3, <2>2 DEF Level, Closing
  <1>4. CASE pc[w] \in {"bill", "save"}
    <2>1. job[w].bill \in Bills /\ lock[job[w].bill] = v
      BY <1>1, <1>4, PayTypes DEF JobOK, Paying, EditJob, WaitsFor
    <2>2. pc[v] \in Closing
      BY <1>1, <2>1 DEF LocksOK
    <2>3. QED
      BY <1>4, <2>2 DEF Level, Closing
  <1>5. CASE pc[w] \in {"load_cluster", "write_cluster"}
    <2>1. lock[Cluster] = v /\ v # w
      BY <1>5 DEF WaitsFor
    <2>2. pc[v] \in {"write_cluster", "commit"}
      BY <1>1, <2>1 DEF LocksOK
    <2>3. QED
      BY <1>5, <2>1, <2>2 DEF Level
  <1>6. QED
    BY <1>2, <1>3, <1>4, <1>5 DEF WaitsFor

(* A set of workers has one that has come as far as any of them.            *)
LEMMA FarthestWorker ==
    ASSUME NEW S \in SUBSET Workers, S # {}
    PROVE  \E w \in S : \A v \in S : Level(v) <= Level(w)
  <1>1. \A w \in S : Level(w) \in 1 .. 6
    BY DEF Level
  <1>2. CASE \E w \in S : Level(w) = 6
    BY <1>1, <1>2
  <1>3. CASE (\A w \in S : Level(w) <= 5) /\ \E w \in S : Level(w) = 5
    BY <1>1, <1>3
  <1>4. CASE (\A w \in S : Level(w) <= 4) /\ \E w \in S : Level(w) = 4
    BY <1>1, <1>4
  <1>5. CASE (\A w \in S : Level(w) <= 3) /\ \E w \in S : Level(w) = 3
    BY <1>1, <1>5
  <1>6. CASE (\A w \in S : Level(w) <= 2) /\ \E w \in S : Level(w) = 2
    BY <1>1, <1>6
  <1>7. CASE \A w \in S : Level(w) <= 1
    BY <1>1, <1>7
  <1>8. QED
    BY <1>1, <1>2, <1>3, <1>4, <1>5, <1>6, <1>7

(* Transactions never wait for each other in a cycle: whoever is waited for *)
(* has come farther through the fixed order key, wallet, bill, cluster.     *)
THEOREM NoDeadlock == Spec => []NoWaitCycle
  <1>1. IInv => NoWaitCycle
    <2> SUFFICES ASSUME IInv, NEW S \in SUBSET Workers, S # {}
                 PROVE  \E w \in S : \A v \in S : ~ WaitsFor(w, v)
      BY DEF NoWaitCycle
    <2>1. PICK w \in S : \A v \in S : Level(v) <= Level(w)
      BY FarthestWorker
    <2>2. ASSUME NEW v \in S PROVE ~ WaitsFor(w, v)
      <3>1. Level(v) \in Int /\ Level(w) \in Int
        BY DEF Level
      <3>2. QED
        BY <2>1, <3>1, WaitsForHigher
    <2>3. QED
      BY <2>2
  <1>2. QED
    BY <1>1, Invariance, PTL

(* Payments are written by the two ends of a payment, under its own key.    *)
LEMMA WhoWritesPayments ==
    ASSUME IInv, [Next]_vars, NEW k \in Keys, payments'[k] # payments[k]
    PROVE  \E w \in Workers : /\ Commit(w) \/ Finish(w)
                             /\ job[w].op = "pay" /\ job[w].key = k /\ HoldsKey(w, k)
  <1>1. ASSUME NEW w \in Workers, Commit(w) \/ Finish(w)
        PROVE  job[w].op = "pay" /\ job[w].key = k /\ HoldsKey(w, k)
    <2>1. job[w].op = "pay"
      BY <1>1, PayTypes DEF Commit, Finish, IInv, WorkerOK, JobOK
    <2>2. job[w].key = k
      BY <1>1, <2>1 DEF Commit, Finish, Complete, IInv, TypeOK
    <2>3. QED
      BY <1>1, <2>1, <2>2 DEF Commit, Finish, HoldsKey
  <1>2. ASSUME NEW w \in Workers, Receive(w) \/ Crash(w) \/ Desk(w) PROVE FALSE
    BY <1>2 DEF Receive, Crash, Rollback, db, Desk, Create, Delete, Leave
  <1>3. ASSUME NEW w \in Workers, Serve(w), ~ Commit(w), ~ Finish(w) PROVE FALSE
    BY <1>3 DEF Serve, LoadWallet, Validate, InsertTransaction, DebitWallet, UpdateBill,
                LoadCluster, WriteCluster, Acknowledge, Save, Rollback, db
  <1>4. CASE Tick \/ UNCHANGED vars
    BY <1>4 DEF Tick, vars, db
  <1>5. QED
    BY <1>1, <1>2, <1>3, <1>4 DEF Next

(* No payment committed under a key is ever replaced: concurrent requests   *)
(* and retries with one idempotency key charge at most once.                *)
THEOREM KeysChargeOnce == Spec => KeyChargedOnce
  <1>1. ASSUME IInv, [Next]_vars, NEW k \in Keys, payments[k] # None
        PROVE  payments'[k] = payments[k]
    <2>1. \A w \in Workers : ~ HoldsKey(w, k)
      BY <1>1 DEF IInv, WorkerOK, KeysOK
    <2>2. QED
      BY <1>1, <2>1, WhoWritesPayments
  <1>2. IInv /\ [Next]_vars =>
          [\A k \in Keys : payments[k] # None => payments'[k] = payments[k]]_vars
    BY <1>1
  <1>3. QED
    BY <1>2, Invariance, PTL DEF Spec, KeyChargedOnce

(* Whoever edits bills and pays at the same time, a payment that completes  *)
(* on a bill with the terms its payer was shown leaves paid_amount between  *)
(* 0 and the bill's amount.                                                 *)
THEOREM PaymentsNeverExceed == Spec => PaymentsFit
  <1> DEFINE Fits(w) ==
        pc[w] = "commit" /\ job[w].op = "pay" /\ payments'[job[w].key] # None
        /\ terms[job[w].bill] = mem[w].terms
        => 0 <= paid'[job[w].bill] /\ paid'[job[w].bill] <= terms[job[w].bill].amount
  <1>1. ASSUME IInv, [Next]_vars, NEW w \in Workers PROVE Fits(w)
    <2> SUFFICES ASSUME pc[w] = "commit", job[w].op = "pay", payments'[job[w].key] # None,
                        terms[job[w].bill] = mem[w].terms
                 PROVE  0 <= paid'[job[w].bill] /\ paid'[job[w].bill] <= terms[job[w].bill].amount
      OBVIOUS
    <2>1. WorkerOK(w) /\ Added(w) /\ job[w] \in PayJob /\ job[w].bill \in Bills
          /\ job[w].key \in Keys /\ HoldsKey(w, job[w].key)
      <3>1. WorkerOK(w) /\ Added(w) /\ job[w] \in PayJob
        BY <1>1 DEF IInv, WorkerOK, JobOK, Added, Closing, ClusterJob
      <3>2. QED
        BY <3>1, PayTypes DEF HoldsKey
    <2>2. Commit(w)
      <3>1. payments[job[w].key] = None
        BY <2>1 DEF WorkerOK, KeysOK
      <3>2. PICK v \in Workers : (Commit(v) \/ Finish(v)) /\ HoldsKey(v, job[w].key)
        BY <1>1, <2>1, <3>1, WhoWritesPayments
      <3>3. v = w
        BY <2>1, <3>2 DEF WorkerOK, KeysOK
      <3>4. QED
        BY <3>2, <3>3 DEF Finish
    <2>3. paid'[job[w].bill] = mem[w].paid
      BY <1>1, <2>1, <2>2 DEF Commit, IInv, TypeOK
    <2>4. QED
      BY <2>1, <2>3 DEF WorkerOK, CopiesOK
  <1>2. IInv /\ [Next]_vars => [\A w \in Workers : Fits(w)]_vars
    BY <1>1
  <1>3. QED
    BY <1>2, Invariance, PTL DEF Spec, PaymentsFit

-----------------------------------------------------------------------------
(* A worker that nobody disturbs.  Its copies are the committed rows, or    *)
(* what these will be once it commits, and what it is about to commit is    *)
(* what the ledger would do in one step.                                    *)
OneWorker == \A v, w \in Workers : v = w

PayerRow(w) == wallet[job[w].user]

(* The bill and the account are there and are what the request was shown;   *)
(* for an edit the copy has its own terms.                                  *)
Current(w) ==
    /\ pc[w] \in Paying \cup {"ack", "save"} => terms[job[w].bill] # None
    /\ pc[w] \in Paying \/ Added(w) =>
         /\ mem[w].terms = terms[job[w].bill]
         /\ job[w].user \in users
    /\ pc[w] = "ack" => terms[job[w].bill].payer = job[w].user
    /\ pc[w] = "save" => mem[w].terms \in Asked
    /\ pc[w] # "finish"

Fresh(w) ==
    /\ pc[w] \in Paying \cup {"save"} => mem[w].paid = paid[job[w].bill]
    /\ pc[w] \in {"validate", "insert", "debit"} => mem[w].own = PayerRow(w)

Charged(w) ==
    pc[w] = "bill" \/ Added(w) =>
        /\ mem[w].own = Debited(PayerRow(w), mem[w].amount)
        /\ mem[w].amount <= PayerRow(w).available

Settled(w) ==
    Added(w) =>
        /\ mem[w].paid = paid[job[w].bill] + mem[w].amount
        /\ mem[w].terms.payer = job[w].user
        /\ <<job[w].bill, job[w].user>> \in acked

ClusterMove(w) ==
    /\ pc[w] \in Closing /\ job[w].op # "pay" => mem[w].amount \in 0 .. MaxRequest
    /\ pc[w] = "write_cluster" => mem[w].cluster = Ledger!ClusterRow
    /\ pc[w] = "commit" =>
        /\ mem[w].amount > 0
        /\ job[w].op # "transfer" => mem[w].cluster = Credited(Ledger!ClusterRow, mem[w].amount)
        /\ job[w].op = "transfer" =>
             /\ mem[w].cluster = Debited(Ledger!ClusterRow, mem[w].amount)
             /\ mem[w].amount <= Ledger!ClusterRow.available

InLine(w) == Current(w) /\ Fresh(w) /\ Charged(w) /\ Settled(w) /\ ClusterMove(w)

Undisturbed == \A w \in Workers : InLine(w)

(* The worker is idle: nothing is claimed of its copies.                    *)
LEMMA IdleUndisturbed ==
    ASSUME OneWorker, NEW w \in Workers, pc'[w] = "idle" PROVE Undisturbed'
  <1>1. \A v \in Workers : pc'[v] = "idle"
    BY DEF OneWorker
  <1>2. QED
    BY <1>1 DEF Undisturbed, InLine, Current, Fresh, Charged, Settled, ClusterMove,
                Paying, Closing, Added

LEMMA ReceiveUndisturbed ==
    ASSUME IInv, OneWorker, NEW w \in Workers, Receive(w) PROVE Undisturbed'
  <1> USE ConstantsAssumption
  <1> SUFFICES InLine(w)'
    BY DEF OneWorker, Undisturbed
  <1>1. UNCHANGED db
    BY DEF Receive
  <1>2. ASSUME NEW j \in ClusterJob, job' = [job EXCEPT ![w] = j],
               mem' = [mem EXCEPT ![w].amount = j.amount], Goto(w, "load_cluster")
        PROVE  InLine(w)'
    <2>1. pc'[w] = "load_cluster" /\ job'[w] = j /\ mem'[w].amount = j.amount
          /\ j.op # "pay" /\ j.amount \in 0 .. MaxRequest
      BY <1>2 DEF Goto, IInv, TypeOK, Mem, ClusterJob
    <2>2. QED
      BY <2>1 DEF InLine, Current, Fresh, Charged, Settled, ClusterMove, Paying, Closing, Added
  <1>3. ASSUME NEW j \in BillJob, terms[j.bill] # None, job' = [job EXCEPT ![w] = j],
               j.op # "edit" => j.user \in users,
               j.op = "ack" => terms[j.bill].payer = j.user,
               NEW t, IF j.op = "edit" THEN t \in Asked ELSE t = terms[j.bill],
               mem' = [mem EXCEPT ![w].terms = t, ![w].paid = paid[j.bill]],
               Goto(w, FirstStep(j.op))
        PROVE  InLine(w)'
    <2>1. pc'[w] = FirstStep(j.op) /\ job'[w] = j
          /\ mem'[w].terms = t /\ mem'[w].paid = paid[j.bill]
      BY <1>3 DEF Goto, IInv, TypeOK, Mem
    <2>2. \/ j.op = "pay" /\ FirstStep(j.op) = "load_wallet"
          \/ j.op = "ack" /\ FirstStep(j.op) = "ack"
          \/ j.op = "edit" /\ FirstStep(j.op) = "save"
      BY DEF BillJob, PayJob, AckJob, EditJob, FirstStep
    <2>3. terms' = terms /\ paid' = paid /\ users' = users
      BY <1>1 DEF db, desk
    <2>4. QED
      BY <1>3, <2>1, <2>2, <2>3
      DEF InLine, Current, Fresh, Charged, Settled, ClusterMove, Paying, Closing, Added
  <1>4. QED
    BY <1>2, <1>3 DEF Receive

(* Every step of a request before its last keeps the copies in line.        *)
LEMMA ServeUndisturbed ==
    ASSUME IInv, Undisturbed, OneWorker, NEW w \in Workers, Serve(w)
    PROVE  Undisturbed'
  <1> USE ConstantsAssumption
  <1> SUFFICES InLine(w)'
    BY DEF OneWorker, Undisturbed
  <1>1. CASE Done(w)
    BY <1>1, DoneTypes, IdleUndisturbed DEF Undisturbed
  <1>2. mem[w] \in Mem /\ mem[w].own \in WalletRow /\ mem[w].cluster \in WalletRow
        /\ mem[w].paid \in Int /\ mem[w].amount \in Int
    BY MemTypes
  <1>3. InLine(w) /\ JobOK(w)
    BY DEF Undisturbed, IInv, WorkerOK
  <1>4. pc \in [Workers -> Steps] /\ mem \in [Workers -> Mem]
    BY DEF IInv, TypeOK
  <1>5. pc[w] \in Paying => job[w].op = "pay"
    BY <1>3, PayTypes DEF JobOK
  <1> USE DEF Goto, db, desk, Rollback, InLine, Current, Fresh, Charged, Settled, ClusterMove,
              PayerRow, Paying, Closing, Added, Ledger!ClusterRow
  <1>6. CASE LoadWallet(w)
    BY <1>2, <1>3, <1>4, <1>5, <1>6 DEF LoadWallet, Mem
  <1>7. CASE Validate(w) /\ ~ Done(w)
    BY <1>2, <1>3, <1>4, <1>5, <1>7 DEF Validate, Mem
  <1>8. CASE InsertTransaction(w) /\ ~ Done(w)
    BY <1>2, <1>3, <1>4, <1>5, <1>8 DEF InsertTransaction
  <1>9. CASE DebitWallet(w)
    <2>1. mem[w].amount <= mem[w].own.available
      BY <1>9 DEF DebitWallet, IInv, WorkerOK, CopiesOK
    <2>2. QED
      BY <1>2, <1>3, <1>4, <1>5, <1>9, <2>1 DEF DebitWallet, Mem
  <1>10. CASE UpdateBill(w) /\ ~ Done(w)
    BY <1>2, <1>3, <1>4, <1>5, <1>10 DEF UpdateBill, CanBePaid, Mem
  <1>11. CASE LoadCluster(w) /\ ~ Done(w)
    BY <1>2, <1>3, <1>4, <1>11 DEF LoadCluster, Mem, EmptyWallet
  <1>12. CASE WriteCluster(w) /\ ~ Done(w)
    <2>1. /\ pc[w] = "write_cluster" /\ ClusterOpValid(w) /\ UNCHANGED <<db, job>>
          /\ pc'[w] = "commit" /\ mem'[w] = [mem[w] EXCEPT !.cluster = ClusterAfter(w)]
      BY <1>4, <1>12 DEF WriteCluster
    <2>2. mem'[w].cluster = ClusterAfter(w) /\ mem'[w].amount = mem[w].amount
          /\ mem'[w].own = mem[w].own /\ mem'[w].paid = mem[w].paid /\ mem'[w].terms = mem[w].terms
      BY <1>2, <2>1 DEF Mem
    <2>3. (Current(w) /\ Fresh(w) /\ Charged(w) /\ Settled(w))'
      BY <1>3, <2>1, <2>2
    <2>4. ClusterMove(w)'
      BY <1>2, <1>3, <2>1, <2>2 DEF ClusterOpValid, ClusterAfter, HasSufficientBalance
    <2>5. QED
      BY <2>3, <2>4
  <1>13. CASE Commit(w) \/ Finish(w) \/ Acknowledge(w) \/ Save(w)
    BY <1>1, <1>13 DEF Commit, Finish, Acknowledge, Save
  <1>14. QED
    BY <1>1, <1>6, <1>7, <1>8, <1>9, <1>10, <1>11, <1>12, <1>13 DEF Serve

(* The commit of a payment is one payment of the ledger.                    *)
LEMMA PayIsLedgerStep ==
    ASSUME IInv, Undisturbed, NEW w \in Workers, Commit(w), job[w].op = "pay" PROVE Ledger!Next
  <1> USE ConstantsAssumption
  <1> DEFINE a == mem[w].amount
             b == job[w].bill
             k == job[w].key
             u == job[w].user
  <1>1. pc[w] = "commit" /\ Added(w) /\ job[w] \in PayJob /\ InLine(w) /\ WorkerOK(w)
    BY DEF Commit, Added, Closing, Undisturbed, IInv, WorkerOK, JobOK, ClusterJob
  <1>2. b \in Bills /\ k \in Keys /\ u \in Residents /\ u # Cluster /\ a \in Int /\ a > 0
    BY <1>1, PayTypes, MemTypes DEF WorkerOK, CopiesOK
  <1>3. payments[k] = None
    BY <1>1, <1>2 DEF WorkerOK, KeysOK, HoldsKey
  <1>4. /\ terms[b] # None /\ terms[b] \in Terms /\ terms[b].payer = u /\ <<b, u>> \in acked
        /\ mem[w].paid = paid[b] + a /\ mem[w].paid <= terms[b].amount
    BY <1>1, <1>2 DEF InLine, Current, Settled, WorkerOK, CopiesOK, LocksOK, IInv, TypeOK
  <1>5. /\ mem[w].own = Debited(wallet[u], a) /\ a <= wallet[u].available
        /\ mem[w].cluster = Credited(Ledger!ClusterRow, a)
    BY <1>1 DEF InLine, Charged, ClusterMove, PayerRow
  <1>6. wallet[u] \in WalletRow /\ paid[b] \in Int /\ terms[b].amount \in Int
    BY <1>2, <1>4 DEF IInv, TypeOK, Wallets, Terms
  <1>7. a \in 1 .. terms[b].amount - paid[b]
    BY <1>2, <1>4, <1>6
  <1>8. mem[w].own = Ledger!Shift(wallet[u], -a)
        /\ mem[w].cluster = Ledger!Shift(Ledger!ClusterRow, a)
    BY <1>2, <1>5, <1>6 DEF Debited, Credited, Ledger!Shift, WalletRow
  <1>9. /\ wallet' = [wallet EXCEPT ![u] = mem[w].own, ![Cluster] = mem[w].cluster]
        /\ paid' = [paid EXCEPT ![b] = mem[w].paid]
        /\ payments' = [payments EXCEPT ![k] = [bill |-> b, payer |-> u, amount |-> a]]
        /\ UNCHANGED <<terms, acked>>
    BY DEF Commit, Complete, desk
  <1>10. wallet' = [wallet EXCEPT ![u] = Ledger!Shift(@, -a),
                                  ![Cluster] = Ledger!Shift(Ledger!ClusterRow, a)]
    BY <1>2, <1>8, <1>9
  <1>11. paid' = [paid EXCEPT ![b] = @ + a]
    BY <1>4, <1>9
  <1>12. Ledger!Pay(k, b, u)
    BY <1>3, <1>4, <1>5, <1>7, <1>9, <1>10, <1>11 DEF Ledger!Pay
  <1>13. QED
    BY <1>2, <1>12 DEF Ledger!Next

(* The commit of a manual credit or a transfer is one such step.            *)
LEMMA ClusterIsLedgerStep ==
    ASSUME IInv, Undisturbed, NEW w \in Workers, Commit(w), job[w].op # "pay" PROVE Ledger!Next
  <1> USE ConstantsAssumption
  <1> DEFINE a == mem[w].amount
  <1>1. pc[w] = "commit" /\ InLine(w) /\ a \in Int
    BY MemTypes DEF Commit, Undisturbed
  <1>2. a \in 1 .. MaxRequest
    BY <1>1 DEF InLine, ClusterMove, Closing
  <1>3. wallet' = [wallet EXCEPT ![Cluster] = mem[w].cluster] /\ UNCHANGED <<paid, payments, terms, acked>>
    BY DEF Commit, desk
  <1>4. CASE job[w].op = "transfer"
    <2>1. /\ mem[w].cluster = Debited(Ledger!ClusterRow, a)
          /\ a <= Ledger!ClusterRow.available
      BY <1>1, <1>4 DEF InLine, ClusterMove
    <2>2. Ledger!ClusterRow \in WalletRow
      BY DEF IInv, TypeOK, Ledger!ClusterRow, Wallets, WalletRow
    <2>3. mem[w].cluster = Ledger!Shift(Ledger!ClusterRow, -a)
      BY <1>1, <2>1, <2>2 DEF Debited, Ledger!Shift, WalletRow
    <2>4. QED
      BY <1>2, <1>3, <2>1, <2>3 DEF Ledger!Transfer, Ledger!Next
  <1>5. CASE job[w].op # "transfer"
    <2>1. mem[w].cluster = Ledger!Shift(Ledger!ClusterRow, a)
      BY <1>1, <1>5 DEF InLine, ClusterMove, Credited, Ledger!Shift
    <2>2. QED
      BY <1>2, <1>3, <2>1 DEF Ledger!Credit, Ledger!Next
  <1>6. QED
    BY <1>4, <1>5

(* The other requests that end are edits and acknowledgements.              *)
LEMMA SaveIsLedgerStep ==
    ASSUME IInv, Undisturbed, NEW w \in Workers, Save(w) PROVE Ledger!Next
  <1> DEFINE b == job[w].bill
  <1>1. pc[w] = "save" /\ InLine(w) /\ b \in Bills
    BY DEF Save, Undisturbed, IInv, WorkerOK, JobOK, EditJob
  <1>2. terms[b] # None /\ mem[w].terms \in Asked /\ mem[w].paid = paid[b]
    BY <1>1 DEF InLine, Current, Fresh
  <1>3. paid' = paid
    BY <1>1, <1>2 DEF Save, IInv, TypeOK
  <1>4. Ledger!Revise(b)
    BY <1>2, <1>3 DEF Save, Ledger!Revise
  <1>5. QED
    BY <1>1, <1>4 DEF Ledger!Next

LEMMA AcknowledgeIsLedgerStep ==
    ASSUME IInv, Undisturbed, NEW w \in Workers, Acknowledge(w)
    PROVE  [Ledger!Next]_(Ledger!vars)
  <1> USE ConstantsAssumption
  <1> DEFINE b == job[w].bill
  <1>1. pc[w] = "ack" /\ InLine(w) /\ b \in Bills /\ job[w].user \in Residents
    BY DEF Acknowledge, Undisturbed, IInv, WorkerOK, JobOK, AckJob
  <1>2. terms[b] # None /\ terms[b].payer = job[w].user /\ terms[b].payer # None
    BY <1>1 DEF InLine, Current, Rows, Wallets
  <1>3. UNCHANGED <<wallet, terms, paid, payments>>
    BY DEF Acknowledge
  <1>4. acked' = acked \cup {<<b, terms[b].payer>>} \/ acked' = acked
    BY <1>2 DEF Acknowledge
  <1>5. QED
    BY <1>1, <1>2, <1>3, <1>4 DEF Ledger!Acknowledge, Ledger!Next, Ledger!vars

(* Posting, withdrawing and leaving are steps of the ledger as they are.    *)
LEMMA DeskIsLedgerStep ==
    ASSUME IInv, OneWorker, NEW w \in Workers, Desk(w)
    PROVE  Undisturbed' /\ Ledger!Next
  <1>1. ASSUME NEW b \in Bills, Create(w, b) PROVE pc'[w] = "idle" /\ Ledger!Next
    BY <1>1 DEF Create, Unused, Ledger!Post, Ledger!Next
  <1>2. ASSUME NEW b \in Bills, Delete(w, b) PROVE pc'[w] = "idle" /\ Ledger!Next
    BY <1>2 DEF Delete, Ledger!Withdraw, Ledger!Next
  <1>3. ASSUME NEW u \in Residents, Leave(w, u) PROVE pc'[w] = "idle" /\ Ledger!Next
    BY <1>3 DEF Leave, Ledger!Leave, Ledger!Next
  <1>4. QED
    BY <1>1, <1>2, <1>3, IdleUndisturbed DEF Desk

(* A step of the one worker is a step of the ledger or a stutter.           *)
LEMMA StepIsLedgerStep ==
    ASSUME IInv, Undisturbed, OneWorker, [Next]_vars
    PROVE  Undisturbed' /\ [Ledger!Next]_(Ledger!vars)
  <1>1. ASSUME NEW w \in Workers, Serve(w)
        PROVE  Undisturbed' /\ [Ledger!Next]_(Ledger!vars)
    <2>1. Undisturbed'
      BY <1>1, ServeUndisturbed
    <2>2. CASE Commit(w) \/ Save(w) \/ Acknowledge(w)
      BY <2>1, <2>2, PayIsLedgerStep, ClusterIsLedgerStep, SaveIsLedgerStep, AcknowledgeIsLedgerStep
    <2>3. ~ Finish(w)
      BY DEF Finish, Undisturbed, InLine, Current
    <2>4. CASE ~ (Commit(w) \/ Save(w) \/ Acknowledge(w))
      BY <1>1, <2>1, <2>3, <2>4 DEF Serve, LoadWallet, Validate, InsertTransaction,
         DebitWallet, UpdateBill, LoadCluster, WriteCluster, Rollback, db, desk, Ledger!vars
    <2>5. QED
      BY <2>2, <2>4
  <1>2. ASSUME NEW w \in Workers, Receive(w) \/ Crash(w)
        PROVE  Undisturbed' /\ [Ledger!Next]_(Ledger!vars)
    BY <1>2, ReceiveUndisturbed, DoneTypes, IdleUndisturbed
    DEF Receive, Crash, Rollback, db, desk, Ledger!vars
  <1>3. ASSUME NEW w \in Workers, Desk(w)
        PROVE  Undisturbed' /\ [Ledger!Next]_(Ledger!vars)
    BY <1>3, DeskIsLedgerStep
  <1>4. CASE Tick \/ UNCHANGED vars
    <2>1. UNCHANGED <<wallet, terms, paid, payments, acked, users, pc, job, mem>>
      BY <1>4 DEF Tick, vars, db, desk
    <2>2. QED
      BY <2>1 DEF Ledger!vars, Undisturbed, InLine, Current, Fresh, Charged, Settled, ClusterMove,
                  PayerRow, Added, Ledger!ClusterRow
  <1>5. QED
    BY <1>1, <1>2, <1>3, <1>4 DEF Next

(* One worker, which may die at any point and be asked again, implements    *)
(* the ledger in which a payment is a single step.                          *)
THEOREM OneWorkerImplementsLedger ==
    ASSUME OneWorker PROVE Spec => ImplementsLedger
  <1>1. Init => Undisturbed /\ Ledger!Init
    BY DEF Init, Undisturbed, InLine, Current, Fresh, Charged, Settled, ClusterMove, Added,
       Paying, Closing, Ledger!Init, Ledger!Wallets, Wallets
  <1>2. IInv /\ Undisturbed /\ [Next]_vars => Undisturbed' /\ [Ledger!Next]_(Ledger!vars)
    BY StepIsLedgerStep
  <1>3. QED
    BY <1>1, <1>2, Invariance, PTL DEF Spec, ImplementsLedger, Ledger!Spec
=============================================================================
