------------------------ MODULE RecurringPaymentsProofs ------------------------
(***************************************************************************)
(* Safety of RecurringPayments for every number of workers, runs, payments  *)
(* and every limit.  A step writes what was computed from a copy of any     *)
(* age, so the inductive invariant says of every copy in flight what the    *)
(* properties say of the rows: that its failures are not used up while it   *)
(* is active (Sound), and that it passed the test of the request or the     *)
(* filter of the run that holds it (Serving, Pending).                      *)
(***************************************************************************)
EXTENDS RecurringPayments, TLAPS

Sound(c) == c.failed = MaxFailed => c.status # "active"

Serving ==
    \A w \in Workers : job[w] # None =>
        /\ row[job[w].on] # None
        /\ copy[w] # None
        /\ Sound(copy[w])
        /\ Accepts(job[w].op, copy[w].status)

Pending ==
    \A r \in Runs, p \in Payments : batch[r][p] # None =>
        /\ row[p] # None
        /\ batch[r][p].status = "active"
        /\ Sound(batch[r][p])

(* A payment that does not exist yet has not been attempted.                *)
Unborn == \A p \in Payments : row[p] = None => tries[p] = 0

IInv == TypeOK /\ AutoPaused /\ HonestCount /\ Unborn /\ Serving /\ Pending

-----------------------------------------------------------------------------
(* What a failed attempt makes of an active payment.                        *)
LEMMA FailResult ==
    ASSUME NEW c \in RecurringPayment, c.status = "active", Sound(c)
    PROVE  /\ Fail(c) \in RecurringPayment
           /\ Sound(Fail(c))
           /\ Fail(c).failed = c.failed + 1
  <1>1. c.failed \in Nat /\ c.failed < MaxFailed
    BY RecurringAssumption DEF RecurringPayment, Sound
  <1>2. QED
    BY <1>1, RecurringAssumption DEF Fail, RecurringPayment, Statuses, Sound

(* And a successful one.                                                    *)
LEMMA SuccessResult ==
    ASSUME NEW c \in RecurringPayment, c.status = "active", NEW isLast \in BOOLEAN
    PROVE  /\ Succeed(c, isLast) \in RecurringPayment
           /\ Sound(Succeed(c, isLast))
           /\ Succeed(c, isLast).failed = 0
  BY RecurringAssumption DEF Succeed, RecurringPayment, Statuses, Sound

(* What a request makes of the row it finds, given the copy it has seen.    *)
LEMMA WriteResult ==
    ASSUME NEW op \in Ops, NEW now \in RecurringPayment, NEW seen \in RecurringPayment,
           Sound(now), Sound(seen)
    PROVE  /\ Write(op, now, seen) \in RecurringPayment
           /\ Sound(Write(op, now, seen))
           /\ op # "resume" /\ ~Overtaken(op, now, seen)
                  => Write(op, now, seen).failed = now.failed
           /\ op = "resume" => Write(op, now, seen).failed = 0
           /\ ~Overtaken(op, now, seen) /\ Accepts(op, seen.status)
                  /\ now.status = "cancelled"
                  => Write(op, now, seen).status = "cancelled" /\ op # "resume"
  <1>1. CASE op = "pause"
    BY <1>1 DEF Write, Sound, RecurringPayment, Statuses, Overtaken, Accepts
  <1>2. CASE op = "cancel"
    BY <1>2 DEF Write, Sound, RecurringPayment, Statuses, Overtaken, Accepts
  <1>3. CASE op = "resume"
    BY <1>3, RecurringAssumption
    DEF Write, Sound, RecurringPayment, Statuses, Overtaken, Accepts
  <1>4. CASE op = "update"
    BY <1>4 DEF Write, Sound, RecurringPayment, Statuses, Overtaken, Accepts
  <1>5. QED
    BY <1>1, <1>2, <1>3, <1>4 DEF Ops

LEMMA InitIInv == Init => IInv
  BY RecurringAssumption
  DEF Init, Empty, IInv, TypeOK, AutoPaused, HonestCount, Unborn, Serving, Pending

(* One payment gets a sound row; what is in flight was there before.         *)
LEMMA RowIInv ==
    ASSUME IInv, NEW p \in Payments, NEW new \in RecurringPayment,
           Saved(p, new), Sound(new),
           TypeOK',
           p \notin raced' => new.failed = tries'[p],
           \A q \in Payments \ {p} : q \in raced => q \in raced',
           \A q \in Payments \ {p} : tries'[q] = tries[q],
           \A w \in Workers : job'[w] # None => job'[w] = job[w] /\ copy'[w] = copy[w],
           \A r \in Runs, q \in Payments :
               batch'[r][q] # None => batch'[r][q] = batch[r][q]
    PROVE  IInv'
  <1>1. /\ \A q \in Payments : row'[q] = IF q = p THEN new ELSE row[q]
        /\ new # None
    BY RecurringAssumption DEF Saved, IInv, TypeOK
  <1>2. AutoPaused'
    BY <1>1 DEF IInv, AutoPaused, Sound
  <1>3. HonestCount' /\ Unborn'
    BY <1>1 DEF IInv, HonestCount, Unborn
  <1>4. Serving'
    <2>1. SUFFICES ASSUME NEW w \in Workers, job'[w] # None
                   PROVE  /\ row'[job'[w].on] # None
                          /\ copy'[w] # None
                          /\ Sound(copy'[w])
                          /\ Accepts(job'[w].op, copy'[w].status)
      BY DEF Serving, Sound, Accepts
    <2>2. job[w] \in Job
      BY <2>1 DEF IInv, TypeOK
    <2>3. QED
      BY <1>1, <2>1, <2>2 DEF IInv, Serving, Job
  <1>5. Pending'
    <2>1. SUFFICES ASSUME NEW r \in Runs, NEW q \in Payments, batch'[r][q] # None
                   PROVE  /\ row'[q] # None
                          /\ batch'[r][q].status = "active"
                          /\ Sound(batch'[r][q])
      BY DEF Pending, Sound
    <2>2. QED
      BY <1>1, <2>1 DEF IInv, Pending
  <1>6. QED
    BY <1>2, <1>3, <1>4, <1>5 DEF IInv

LEMMA CreateIInv == IInv /\ Create => IInv'
  <1> SUFFICES ASSUME IInv, NEW p \in Payments, row[p] = None,
                      Saved(p, [status |-> "active", failed |-> 0]),
                      UNCHANGED <<job, copy, batch, tries, raced>>
               PROVE  IInv'
    BY DEF Create
  <1> DEFINE new == [status |-> "active", failed |-> 0]
  <1>1. new \in RecurringPayment /\ Sound(new) /\ new.failed = 0
    BY RecurringAssumption DEF RecurringPayment, Statuses, Sound
  <1>2. TypeOK'
    BY <1>1 DEF IInv, TypeOK, Saved
  <1>3. tries[p] = 0
    BY DEF IInv, Unborn
  <1> HIDE DEF new
  <1>4. Saved(p, new)
    BY DEF new
  <1>5. QED
    BY <1>1, <1>2, <1>3, <1>4, RowIInv

LEMMA LoadIInv == ASSUME IInv, NEW w \in Workers, Load(w) PROVE IInv'
  <1>1. PICK op \in Ops, p \in Payments :
            /\ row[p] # None
            /\ Accepts(op, row[p].status)
            /\ job' = [job EXCEPT ![w] = [op |-> op, on |-> p]]
            /\ copy' = [copy EXCEPT ![w] = row[p]]
            /\ UNCHANGED <<row, batch, tries, raced>>
    BY DEF Load
  <1>2. [op |-> op, on |-> p] \in Job /\ row[p] \in RecurringPayment
    BY <1>1 DEF Job, IInv, TypeOK
  <1>3. TypeOK'
    BY <1>1, <1>2 DEF IInv, TypeOK
  <1>4. Serving'
    <2>1. SUFFICES ASSUME NEW v \in Workers, job'[v] # None
                   PROVE  /\ row[job'[v].on] # None
                          /\ copy'[v] # None
                          /\ Sound(copy'[v])
                          /\ Accepts(job'[v].op, copy'[v].status)
      BY <1>1 DEF Serving, Sound, Accepts
    <2>2. CASE v = w
      BY <1>1, <1>2, <2>2 DEF IInv, TypeOK, AutoPaused, Sound
    <2>3. CASE v # w
      BY <1>1, <2>1, <2>3 DEF IInv, TypeOK, Serving
    <2>4. QED
      BY <2>2, <2>3
  <1>5. AutoPaused' /\ HonestCount' /\ Unborn' /\ Pending'
    BY <1>1 DEF IInv, AutoPaused, HonestCount, Unborn, Pending, Sound
  <1>6. QED
    BY <1>3, <1>4, <1>5 DEF IInv

LEMMA SaveIInv == ASSUME IInv, NEW w \in Workers, Save(w) PROVE IInv'
  <1> DEFINE op == job[w].op
             p == job[w].on
             new == Write(op, row[p], copy[w])
  <1>1. /\ job[w] # None
        /\ Saved(p, new)
        /\ tries' = IF op = "resume" THEN [tries EXCEPT ![p] = 0] ELSE tries
        /\ raced' = IF Overtaken(op, row[p], copy[w]) THEN raced \cup {p}
                    ELSE IF op = "resume" THEN raced \ {p} ELSE raced
        /\ job' = [job EXCEPT ![w] = None]
        /\ copy' = [copy EXCEPT ![w] = None]
        /\ batch' = batch
    BY DEF Save, Forget
  <1>2. /\ op \in Ops /\ p \in Payments
        /\ row[p] \in RecurringPayment /\ Sound(row[p])
        /\ copy[w] \in RecurringPayment /\ Sound(copy[w])
    BY <1>1 DEF IInv, TypeOK, Job, Serving, AutoPaused, Sound
  <1>3. /\ new \in RecurringPayment /\ Sound(new)
        /\ op # "resume" /\ ~Overtaken(op, row[p], copy[w]) => new.failed = row[p].failed
        /\ op = "resume" => new.failed = 0
    BY <1>2, WriteResult
  <1>4. p \notin raced => row[p].failed = tries[p]
    BY <1>2, RecurringAssumption DEF IInv, HonestCount
  <1> HIDE DEF new, op, p
  <1>5. TypeOK'
    BY <1>1, <1>2, <1>3 DEF IInv, TypeOK, Saved
  <1>6. p \notin raced' => new.failed = tries'[p]
    BY <1>1, <1>2, <1>3, <1>4 DEF IInv, TypeOK
  <1>7. QED
    <2>1. /\ \A q \in Payments \ {p} : q \in raced => q \in raced'
          /\ \A q \in Payments \ {p} : tries'[q] = tries[q]
          /\ \A v \in Workers : job'[v] # None => job'[v] = job[v] /\ copy'[v] = copy[v]
      BY <1>1, <1>2 DEF IInv, TypeOK
    <2>2. QED
      BY <1>1, <1>2, <1>3, <1>5, <1>6, <2>1, RowIInv

LEMMA StartIInv == ASSUME IInv, NEW r \in Runs, Start(r) PROVE IInv'
  <1>1. PICK due \in SUBSET {p \in Payments : row[p] # None /\ row[p].status = "active"} :
            /\ batch' = [batch EXCEPT ![r] =
                            [p \in Payments |-> IF p \in due THEN row[p] ELSE None]]
            /\ UNCHANGED <<row, job, copy, tries, raced>>
    BY DEF Start
  <1>2. TypeOK'
    BY <1>1 DEF IInv, TypeOK
  <1>3. Pending'
    <2>1. SUFFICES ASSUME NEW s \in Runs, NEW q \in Payments, batch'[s][q] # None
                   PROVE  /\ row[q] # None
                          /\ batch'[s][q].status = "active"
                          /\ Sound(batch'[s][q])
      BY <1>1 DEF Pending, Sound
    <2>2. CASE s = r
      BY <1>1, <2>1, <2>2 DEF IInv, TypeOK, AutoPaused, Sound
    <2>3. CASE s # r
      BY <1>1, <2>1, <2>3 DEF IInv, TypeOK, Pending
    <2>4. QED
      BY <2>2, <2>3
  <1>4. AutoPaused' /\ HonestCount' /\ Unborn' /\ Serving'
    BY <1>1 DEF IInv, AutoPaused, HonestCount, Unborn, Serving, Sound, Accepts
  <1>5. QED
    BY <1>2, <1>3, <1>4 DEF IInv

(* A step of a run, whatever the outcome: the new row is sound, and honest  *)
(* if what the run had seen was the row.                                    *)
LEMMA AttemptIInv == ASSUME IInv, NEW r \in Runs, Attempt(r) PROVE IInv'
  <1>1. PICK p \in Payments :
            /\ batch[r][p] # None
            /\ \/ /\ Saved(p, Fail(batch[r][p]))
                  /\ tries' = [tries EXCEPT ![p] = @ + 1]
                  /\ raced' = IF Overtaken("attempt", row[p], batch[r][p])
                              THEN raced \cup {p} ELSE raced
               \/ /\ \E isLast \in BOOLEAN : Saved(p, Succeed(batch[r][p], isLast))
                  /\ tries' = [tries EXCEPT ![p] = 0]
                  /\ raced' = IF Overtaken("attempt", row[p], batch[r][p])
                              THEN raced \cup {p} ELSE raced \ {p}
            /\ batch' = [batch EXCEPT ![r][p] = None]
            /\ UNCHANGED <<job, copy>>
    BY DEF Attempt
  <1> DEFINE c == batch[r][p]
  <1>2. c \in RecurringPayment /\ c.status = "active" /\ Sound(c) /\ row[p] # None
    BY <1>1 DEF IInv, TypeOK, Pending
  <1>3. PICK new \in RecurringPayment :
            /\ Saved(p, new)
            /\ Sound(new)
            /\ \/ /\ new.failed = c.failed + 1
                  /\ tries' = [tries EXCEPT ![p] = @ + 1]
                  /\ ~ Overtaken("attempt", row[p], c) => raced' = raced
               \/ /\ new.failed = 0
                  /\ tries' = [tries EXCEPT ![p] = 0]
    <2>1. CASE Saved(p, Fail(c)) /\ tries' = [tries EXCEPT ![p] = @ + 1]
                 /\ (~ Overtaken("attempt", row[p], c) => raced' = raced)
      BY <1>2, <2>1, FailResult
    <2>2. ASSUME NEW isLast \in BOOLEAN, Saved(p, Succeed(c, isLast)),
                 tries' = [tries EXCEPT ![p] = 0]
          PROVE  \E new \in RecurringPayment :
                     Saved(p, new) /\ Sound(new) /\ new.failed = 0
      BY <1>2, <2>2, SuccessResult
    <2>3. QED
      BY <1>1, <2>1, <2>2
  <1>4. /\ p \notin raced' => ~ Overtaken("attempt", row[p], c)
        /\ \A q \in Payments \ {p} : q \in raced => q \in raced'
        /\ raced' \subseteq Payments
    BY <1>1 DEF IInv, TypeOK
  <1>5. p \notin raced' => c.failed = row[p].failed
    BY <1>4 DEF Overtaken
  <1>6. p \notin raced => row[p].failed = tries[p]
    BY <1>2 DEF IInv, HonestCount
  <1>7. /\ tries' \in [Payments -> Nat]
        /\ \A q \in Payments \ {p} : tries'[q] = tries[q]
    BY <1>1 DEF IInv, TypeOK
  <1>8. p \notin raced' => new.failed = tries'[p]
    BY <1>3, <1>4, <1>5, <1>6 DEF IInv, TypeOK
  <1>9. TypeOK'
    BY <1>1, <1>3, <1>4, <1>7 DEF IInv, TypeOK, Saved
  <1>10. \A s \in Runs, q \in Payments : batch'[s][q] # None => batch'[s][q] = batch[s][q]
    BY <1>1 DEF IInv, TypeOK
  <1>11. QED
    BY <1>1, <1>3, <1>4, <1>7, <1>8, <1>9, <1>10, RowIInv

LEMMA EndIInv ==
    IInv /\ (\/ \E w \in Workers : Die(w)
             \/ \E r \in Runs : Stop(r)
             \/ UNCHANGED vars) => IInv'
  <1>1. ASSUME IInv, NEW w \in Workers, Die(w) PROVE IInv'
    BY <1>1 DEF Die, Forget, IInv, TypeOK, AutoPaused, HonestCount, Unborn, Serving,
                Pending, Sound, Accepts
  <1>2. ASSUME IInv, NEW r \in Runs, Stop(r) PROVE IInv'
    BY <1>2 DEF Stop, Empty, IInv, TypeOK, AutoPaused, HonestCount, Unborn, Serving,
                Pending, Sound, Accepts
  <1>3. ASSUME IInv, UNCHANGED vars PROVE IInv'
    BY <1>3 DEF vars, IInv, TypeOK, AutoPaused, HonestCount, Unborn, Serving, Pending,
                Sound, Accepts
  <1>4. QED
    BY <1>1, <1>2, <1>3

-----------------------------------------------------------------------------
(* The inductive invariant holds in every reachable state.                  *)
THEOREM Invariance == Spec => []IInv
  <1>1. Init => IInv
    BY InitIInv
  <1>2. IInv /\ [Next]_vars => IInv'
    BY CreateIInv, LoadIInv, SaveIInv, StartIInv, AttemptIInv, EndIInv DEF Next
  <1>3. QED
    BY <1>1, <1>2, PTL DEF Spec

(* Every variable keeps its type; no failure is counted beyond the limit.   *)
THEOREM RecurringTypeCorrect == Spec => []TypeOK
  <1>1. IInv => TypeOK
    BY DEF IInv
  <1>2. QED
    BY <1>1, Invariance, PTL

(* A payment whose failures are used up is not active, for any number of    *)
(* overlapping requests and runs.                                           *)
THEOREM PaymentsArePaused == Spec => []AutoPaused
  <1>1. IInv => AutoPaused
    BY DEF IInv
  <1>2. QED
    BY <1>1, Invariance, PTL

(* The failure counter counts the attempts that failed since the payment    *)
(* was created, resumed or taken for paid, unless it was saved from a copy  *)
(* that was out of date.                                                    *)
THEOREM CountIsHonest == Spec => []HonestCount
  <1>1. IInv => HonestCount
    BY DEF IInv
  <1>2. QED
    BY <1>1, Invariance, PTL

(* Only a request or a run that had loaded a payment before it was          *)
(* cancelled can take the cancellation back.                                *)
THEOREM CancellationIsFinal == Spec => CancelIsFinal
  <1> DEFINE Final(p) == row[p] # None /\ row[p].status = "cancelled" /\ p \notin raced'
                             => row'[p].status = "cancelled"
  <1>1. ASSUME IInv, [Next]_vars, NEW p \in Payments PROVE Final(p)
    <2>1. CASE Create
      BY <1>1, <2>1 DEF Create, Saved, IInv, TypeOK
    <2>2. ASSUME NEW w \in Workers, Save(w) PROVE Final(p)
      <3> DEFINE op == job[w].op
                 q == job[w].on
      <3>1. /\ op \in Ops /\ q \in Payments
            /\ row[q] \in RecurringPayment /\ Sound(row[q])
            /\ copy[w] \in RecurringPayment /\ Sound(copy[w])
            /\ Accepts(op, copy[w].status)
        BY <1>1, <2>2 DEF Save, IInv, TypeOK, Job, Serving, AutoPaused, Sound
      <3>2. /\ ~Overtaken(op, row[q], copy[w]) /\ row[q].status = "cancelled"
                   => Write(op, row[q], copy[w]).status = "cancelled" /\ op # "resume"
        BY <3>1, WriteResult
      <3>3. /\ row' = [row EXCEPT ![q] = Write(op, row[q], copy[w])]
            /\ raced' = IF Overtaken(op, row[q], copy[w]) THEN raced \cup {q}
                        ELSE IF op = "resume" THEN raced \ {q} ELSE raced
        BY <2>2 DEF Save, Saved
      <3> HIDE DEF op, q
      <3>4. QED
        BY <1>1, <3>1, <3>2, <3>3 DEF IInv, TypeOK
    <2>3. ASSUME NEW r \in Runs, Attempt(r) PROVE Final(p)
      <3>1. PICK q \in Payments :
                /\ batch[r][q] # None
                /\ \E new : row' = [row EXCEPT ![q] = new]
                /\ Overtaken("attempt", row[q], batch[r][q]) => raced' = raced \cup {q}
        BY <2>3 DEF Attempt, Saved
      <3>2. batch[r][q].status = "active"
        BY <1>1, <3>1 DEF IInv, Pending
      <3>3. QED
        BY <1>1, <3>1, <3>2 DEF IInv, TypeOK, Overtaken
    <2>4. CASE UNCHANGED row
      BY <2>4
    <2>5. QED
      BY <1>1, <2>1, <2>2, <2>3, <2>4 DEF Next, vars, Load, Die, Start, Stop
  <1>2. IInv /\ [Next]_vars => [\A p \in Payments : Final(p)]_vars
    BY <1>1
  <1>3. QED
    BY <1>2, Invariance, PTL DEF Spec, CancelIsFinal

-----------------------------------------------------------------------------
(* A save that overwrites nothing unseen finds the payment as its request   *)
(* tested it.                                                               *)
LEMMA SaveIsAtomic ==
    ASSUME IInv, NEW w \in Workers, Save(w)
    PROVE  [Schedule!Next]_(Schedule!vars)
  <1> DEFINE op == job[w].op
             p == job[w].on
             new == Write(op, row[p], copy[w])
  <1>1. /\ row' = [row EXCEPT ![p] = new]
        /\ raced' = IF Overtaken(op, row[p], copy[w]) THEN raced \cup {p}
                    ELSE IF op = "resume" THEN raced \ {p} ELSE raced
    BY DEF Save, Saved
  <1>2. /\ op \in Ops /\ p \in Payments /\ row[p] # None
        /\ row[p] \in RecurringPayment /\ Sound(row[p])
        /\ copy[w] \in RecurringPayment /\ Sound(copy[w])
        /\ Accepts(op, copy[w].status)
    BY DEF Save, IInv, TypeOK, Job, Serving, AutoPaused, Sound
  <1>3. new \in Schedule!Payment
    BY <1>2, WriteResult DEF Schedule!Payment, RecurringPayment, Statuses
  <1>4. row \in [Payments -> RecurringPayment \cup {None}]
    BY DEF IInv, TypeOK
  <1>5. CASE Overtaken(op, row[p], copy[w])
    <2>1. Schedule!Overwrite(p)
      BY <1>1, <1>3, <1>5 DEF Schedule!Overwrite, Schedule!Becomes
    <2> QED
      BY <1>2, <2>1 DEF Schedule!Next
  <1>6. CASE ~ Overtaken(op, row[p], copy[w])
    <2>1. row[p].status = copy[w].status /\ (op = "update" => row[p] = copy[w])
      BY <1>2, <1>6 DEF Overtaken, RecurringPayment
    <2>2. CASE op = "update"
      <3>1. new = row[p]
        BY <2>1, <2>2 DEF Write
      <3> HIDE DEF new, op, p
      <3>2. row' = row /\ raced' = raced
        BY <1>1, <1>2, <1>4, <1>6, <2>2, <3>1
      <3> QED
        BY <3>2 DEF Schedule!vars
    <2>3. CASE op = "pause"
      <3>1. Schedule!Pause(p)
        BY <1>1, <1>2, <1>6, <2>1, <2>3 DEF Schedule!Pause, Schedule!Becomes, Write, Accepts
      <3> QED
        BY <1>2, <3>1 DEF Schedule!Next
    <2>4. CASE op = "resume"
      <3>1. Schedule!Resume(p)
        BY <1>1, <1>2, <1>6, <2>1, <2>4 DEF Schedule!Resume, Schedule!Becomes, Write, Accepts
      <3> QED
        BY <1>2, <3>1 DEF Schedule!Next
    <2>5. CASE op = "cancel"
      <3>1. Schedule!Cancel(p)
        BY <1>1, <1>2, <1>6, <2>1, <2>5 DEF Schedule!Cancel, Schedule!Becomes, Write, Accepts
      <3> QED
        BY <1>2, <3>1 DEF Schedule!Next
    <2> QED
      BY <1>2, <2>2, <2>3, <2>4, <2>5 DEF Ops
  <1> QED
    BY <1>5, <1>6

(* And so does a run that attempts what it loaded when it started.          *)
LEMMA AttemptIsAtomic ==
    ASSUME IInv, NEW r \in Runs, Attempt(r)
    PROVE  [Schedule!Next]_(Schedule!vars)
  <1>1. PICK p \in Payments :
            /\ batch[r][p] # None
            /\ \/ /\ row' = [row EXCEPT ![p] = Fail(batch[r][p])]
                  /\ raced' = IF Overtaken("attempt", row[p], batch[r][p])
                              THEN raced \cup {p} ELSE raced
               \/ /\ \E isLast \in BOOLEAN :
                        row' = [row EXCEPT ![p] = Succeed(batch[r][p], isLast)]
                  /\ raced' = IF Overtaken("attempt", row[p], batch[r][p])
                              THEN raced \cup {p} ELSE raced \ {p}
    BY DEF Attempt, Saved
  <1> DEFINE c == batch[r][p]
             late == Overtaken("attempt", row[p], c)
  <1>2. /\ c \in RecurringPayment /\ c.status = "active" /\ Sound(c)
        /\ row[p] # None /\ row[p] \in RecurringPayment
    BY <1>1 DEF IInv, TypeOK, Pending
  <1>3. c.failed \in Nat /\ c.failed + 1 <= MaxFailed
    BY <1>2, RecurringAssumption DEF RecurringPayment, Sound
  <1>4. ~ late => row[p] = c
    BY <1>2 DEF Overtaken, RecurringPayment
  <1>5. CASE /\ row' = [row EXCEPT ![p] = Fail(c)]
             /\ raced' = IF late THEN raced \cup {p} ELSE raced
    <2>1. Fail(c) \in Schedule!Payment
      BY <1>2, FailResult DEF Schedule!Payment, RecurringPayment, Statuses
    <2>2. CASE late
      <3>1. Schedule!Overwrite(p)
        BY <1>5, <2>1, <2>2 DEF Schedule!Overwrite, Schedule!Becomes
      <3> QED
        BY <1>2, <3>1 DEF Schedule!Next
    <2>3. CASE ~ late
      <3>1. \/ /\ c.failed + 1 < MaxFailed
               /\ Fail(c) = [c EXCEPT !.failed = c.failed + 1]
            \/ /\ c.failed + 1 = MaxFailed
               /\ Fail(c) = [status |-> "paused", failed |-> MaxFailed]
        BY <1>2, <1>3, RecurringAssumption DEF Fail, RecurringPayment
      <3>2. Schedule!Fail(p)
        BY <1>2, <1>4, <1>5, <2>3, <3>1 DEF Schedule!Fail, Schedule!Becomes
      <3> QED
        BY <1>2, <3>2 DEF Schedule!Next
    <2> QED
      BY <2>2, <2>3
  <1>6. ASSUME NEW isLast \in BOOLEAN,
               row' = [row EXCEPT ![p] = Succeed(c, isLast)],
               raced' = IF late THEN raced \cup {p} ELSE raced \ {p}
        PROVE  Schedule!Next
    <2>1. Succeed(c, isLast) \in Schedule!Payment
      BY <1>2, SuccessResult DEF Schedule!Payment, RecurringPayment, Statuses
    <2>2. CASE late
      <3>1. Schedule!Overwrite(p)
        BY <1>6, <2>1, <2>2 DEF Schedule!Overwrite, Schedule!Becomes
      <3> QED
        BY <1>2, <3>1 DEF Schedule!Next
    <2>3. CASE ~ late
      <3>1. \E status \in {"active", "expired"} :
                Succeed(c, isLast) = [status |-> status, failed |-> 0]
        BY <1>2 DEF Succeed
      <3>2. Schedule!Succeed(p)
        BY <1>2, <1>4, <1>6, <2>3, <3>1 DEF Schedule!Succeed, Schedule!Becomes
      <3> QED
        BY <1>2, <3>2 DEF Schedule!Next
    <2> QED
      BY <2>2, <2>3
  <1> QED
    BY <1>1, <1>5, <1>6

(* For any number of workers, runs and payments, everything that happens to *)
(* a payment is one of the atomic steps of PaymentSchedule, tested on the   *)
(* payment as it is, or a save over a change its copy had not seen.         *)
THEOREM ScheduleIsImplemented == Spec => ImplementsSchedule
  <1>1. Init => Schedule!Init
    BY DEF Init, Schedule!Init
  <1>2. IInv /\ [Next]_vars => [Schedule!Next]_(Schedule!vars)
    <2> SUFFICES ASSUME IInv, [Next]_vars PROVE [Schedule!Next]_(Schedule!vars)
      OBVIOUS
    <2>1. CASE Create
      BY <2>1 DEF Create, Saved, Schedule!Create, Schedule!Becomes, Schedule!Next
    <2>2. CASE UNCHANGED <<row, raced>>
      BY <2>2 DEF Schedule!vars
    <2> QED
      BY <2>1, <2>2, SaveIsAtomic, AttemptIsAtomic DEF Next, vars, Load, Die, Start, Stop
  <1> QED
    BY <1>1, <1>2, Invariance, PTL DEF Spec, ImplementsSchedule, Schedule!Spec
=============================================================================
