---------------------------- MODULE ShiftsProofs ----------------------------
(***************************************************************************)
(* Safety of Shifts.  For every number of workers: the rows are well typed  *)
(* and a row's status agrees with its clock times.  For a single worker: no *)
(* staff member is booked twice, and no shift that was clocked in for       *)
(* becomes a no-show.  The first needs that every object a worker holds     *)
(* agrees with itself (HeldOK); the second that what passed full_clean      *)
(* still passes it when it is saved (SavingOK); the third that an object    *)
(* about to become a no-show was not attended in the meantime (NoShowsOK).  *)
(***************************************************************************)
EXTENDS Shifts, TLAPS

Agrees(r) ==
    /\ r.status = "SCHEDULED" => ~ r.started /\ ~ r.ended
    /\ r.status = "IN_PROGRESS" => r.started
    /\ r.status = "COMPLETED" => r.ended

AllAgree(rows) == \A s \in Shifts : rows[s] # None => Agrees(rows[s])

StatusOps == {"mark_no_show", "cancel"}

(* A worker's objects: those still to be saved are there, and one whose     *)
(* status alone is saved has a status that needs no clock time.             *)
HeldOK ==
    \A w \in Workers :
        /\ IF pc[w] = "idle" THEN todo[w] = {} ELSE job[w] # None
        /\ AllAgree(copy[w])
        /\ \A s \in todo[w] :
             /\ copy[w][s] # None
             /\ job[w].op \in StatusOps =>
                  copy[w][s].status \in {"NO_SHOW", "CANCELLED"}
        /\ todo[w] # {} => job[w] # None /\ job[w].op \notin {"reject", "edit_swap"}
        /\ pc[w] = "write" => saving[w] \in todo[w]
        /\ pc[w] = "answer" =>
             job[w].op \in {"approve", "reject"} /\ job[w].swap \in Swaps
        /\ pc[w] = "save_swap" => job[w] \in EditJob

(* Foreign keys of a swap request.                                          *)
Refers ==
    \A q \in Swaps : swap[q] # None =>
        /\ shift[swap[q].original] # None
        /\ swap[q].target # None => shift[swap[q].target] # None

IInv == TypeOK /\ AllAgree(shift) /\ HeldOK /\ Refers

-----------------------------------------------------------------------------
LEMMA InitIInv == Init => IInv
  BY ShiftsAssumption DEF Init, IInv, TypeOK, AllAgree, HeldOK, Refers, NoShifts

(* How every request starts: with objects that it has loaded and changed.   *)
(* One that does not save whole rows keeps the other columns as they are.   *)
Loads(w, j, rows, step) ==
    /\ Begin(w, j, rows, step)
    /\ AllAgree(rows)
    /\ j.op \in StatusOps =>
         \A s \in Shifts : rows[s] # None =>
             rows[s].status \in {"NO_SHOW", "CANCELLED"}
    /\ j.op \in {"reject", "edit_swap"} => rows = NoShifts
    /\ step = "answer" => j.op \in {"approve", "reject"} /\ j.swap \in Swaps
    /\ step = "save_swap" => j \in EditJob
    /\ j.op \notin WholeRow =>
         \A s \in Shifts : rows[s] # None =>
             /\ shift[s] # None
             /\ rows[s].window = shift[s].window
             /\ j.op # "approve" => rows[s].staff = shift[s].staff

Firsts == {"check", "answer", "save_swap", "clean"}

Starts(w) ==
    \E j \in Job, rows \in [Shifts -> ShiftRow \cup {None}],
       step \in Firsts : Loads(w, j, rows, step)

LEMMA StartsIInv ==
    ASSUME IInv, NEW w \in Workers, Starts(w) PROVE IInv'
  <1> USE ShiftsAssumption DEF IInv, Begin, Goto, db, Firsts
  <1>1. PICK j \in Job, rows \in [Shifts -> ShiftRow \cup {None}],
             step \in Firsts : Loads(w, j, rows, step)
    BY DEF Starts
  <1>2. TypeOK'
    BY <1>1 DEF TypeOK, Loads
  <1>3. AllAgree(shift)' /\ Refers'
    BY <1>1 DEF AllAgree, Refers, Loads
  <1>4. HeldOK'
    BY <1>1 DEF HeldOK, TypeOK, NoShifts, AllAgree, Loads
  <1>5. QED
    BY <1>2, <1>3, <1>4

(* A request that ends holds nothing.                                       *)
LEMMA DoneIInv ==
    ASSUME IInv, NEW w \in Workers, Done(w),
           shift' \in [Shifts -> ShiftRow \cup {None}], AllAgree(shift'),
           swap' \in [Swaps -> SwapRow \cup {None}], Refers',
           now' = now, crashes' \in 0 .. MaxCrashes
    PROVE  IInv'
  <1> USE ShiftsAssumption DEF IInv, Done, NoShifts
  <1>1. TypeOK'
    BY DEF TypeOK
  <1>2. HeldOK'
    BY DEF HeldOK, TypeOK, AllAgree
  <1>3. AllAgree(shift)'
    BY DEF AllAgree
  <1>4. QED
    BY <1>1, <1>2, <1>3

LEMMA FailIInv ==
    ASSUME IInv, NEW w \in Workers, Fail(w) PROVE IInv'
  <1>1. /\ shift' = shift /\ swap' = swap /\ now' = now /\ crashes' = crashes
        /\ Done(w)
    BY DEF Fail, db
  <1>2. Refers' /\ AllAgree(shift')
    BY <1>1 DEF Refers, AllAgree, IInv
  <1>3. QED
    BY <1>1, <1>2, DoneIInv DEF IInv, TypeOK

-----------------------------------------------------------------------------
LEMMA OneType ==
    ASSUME NEW s \in Shifts, NEW row \in ShiftRow
    PROVE  /\ One(s, row) \in [Shifts -> ShiftRow \cup {None}]
           /\ Agrees(row) => AllAgree(One(s, row))
           /\ \A t \in Shifts : One(s, row)[t] # None => t = s
           /\ One(s, row)[s] = row
  BY DEF One, NoShifts, AllAgree

(* A request on one shift.                                                  *)
LEMMA OneStarts ==
    ASSUME NEW w \in Workers, NEW s \in Shifts, NEW row \in ShiftRow, Agrees(row),
           NEW op \in WholeRow \cup StatusOps, NEW step \in {"check", "clean"},
           Begin(w, Plain(op), One(s, row), step),
           op \in StatusOps =>
             /\ row.status \in {"NO_SHOW", "CANCELLED"}
             /\ shift[s] # None
             /\ row.window = shift[s].window /\ row.staff = shift[s].staff
    PROVE  Starts(w)
  <1> DEFINE rows == One(s, row)
             j == Plain(op)
  <1>1. j \in Job /\ j.op = op
    BY DEF Plain, Job, AllOps, WholeRow, StatusOps
  <1>2. /\ rows \in [Shifts -> ShiftRow \cup {None}] /\ AllAgree(rows)
        /\ \A t \in Shifts : rows[t] # None => t = s
        /\ rows[s] = row
    BY OneType
  <1>3. Begin(w, j, rows, step)
    OBVIOUS
  <1> HIDE DEF rows, j
  <1>4. Loads(w, j, rows, step)
    BY <1>1, <1>2, <1>3 DEF Loads, StatusOps, WholeRow
  <1>5. QED
    BY <1>1, <1>2, <1>4 DEF Starts, Firsts

LEMMA CreateStarts ==
    ASSUME IInv, NEW w \in Workers, Create(w) PROVE Starts(w)
  <1>1. PICK s \in Shifts, p \in Staff, x \in Windows :
          Begin(w, Plain("create"),
                One(s, [staff |-> p, window |-> x, status |-> "SCHEDULED",
                        started |-> FALSE, ended |-> FALSE]), "check")
    BY DEF Create
  <1> DEFINE row == [staff |-> p, window |-> x, status |-> "SCHEDULED",
                     started |-> FALSE, ended |-> FALSE]
  <1>2. row \in ShiftRow /\ Agrees(row)
    BY DEF ShiftRow, Statuses, Agrees
  <1>3. Begin(w, Plain("create"), One(s, row), "check")
    BY <1>1
  <1> HIDE DEF row
  <1>4. QED
    BY <1>2, <1>3, OneStarts DEF WholeRow, StatusOps

LEMMA UpdateStarts ==
    ASSUME IInv, NEW w \in Workers, Update(w) PROVE Starts(w)
  <1>1. PICK s \in Shifts, p \in Staff, x \in Windows :
          /\ shift[s] # None
          /\ shift[s].status = "SCHEDULED"
          /\ \/ Begin(w, Plain("update"),
                      One(s, [shift[s] EXCEPT !.staff = p, !.window = x]), "check")
             \/ Begin(w, Plain("update"), One(s, shift[s]), "clean")
    BY DEF Update
  <1> DEFINE row == [shift[s] EXCEPT !.staff = p, !.window = x]
  <1>2. shift[s] \in ShiftRow /\ Agrees(shift[s])
    BY <1>1 DEF IInv, TypeOK, AllAgree
  <1>3. row \in ShiftRow /\ Agrees(row)
    BY <1>2 DEF ShiftRow, Agrees
  <1>4. CASE Begin(w, Plain("update"), One(s, row), "check")
    <2> HIDE DEF row
    <2>1. QED
      BY <1>3, <1>4, OneStarts DEF WholeRow, StatusOps
  <1>5. CASE Begin(w, Plain("update"), One(s, shift[s]), "clean")
    BY <1>2, <1>5, OneStarts DEF WholeRow, StatusOps
  <1>6. QED
    BY <1>1, <1>4, <1>5

LEMMA ClockInStarts ==
    ASSUME IInv, NEW w \in Workers, ClockIn(w) PROVE Starts(w)
  <1>1. PICK s \in Shifts :
          /\ shift[s] # None
          /\ Begin(w, Plain("clock_in"),
                   One(s, [shift[s] EXCEPT !.status = "IN_PROGRESS",
                                           !.started = TRUE]), "clean")
    BY DEF ClockIn
  <1> DEFINE row == [shift[s] EXCEPT !.status = "IN_PROGRESS", !.started = TRUE]
  <1>2. shift[s] \in ShiftRow
    BY <1>1 DEF IInv, TypeOK
  <1>3. row \in ShiftRow /\ Agrees(row)
    BY <1>2 DEF ShiftRow, Agrees, Statuses
  <1>4. Begin(w, Plain("clock_in"), One(s, row), "clean")
    BY <1>1
  <1> HIDE DEF row
  <1>5. QED
    BY <1>3, <1>4, OneStarts DEF WholeRow, StatusOps

LEMMA ClockOutStarts ==
    ASSUME IInv, NEW w \in Workers, ClockOut(w) PROVE Starts(w)
  <1>1. PICK s \in Shifts :
          /\ shift[s] # None
          /\ Begin(w, Plain("clock_out"),
                   One(s, [shift[s] EXCEPT !.status = "COMPLETED",
                                           !.ended = TRUE]), "clean")
    BY DEF ClockOut
  <1> DEFINE row == [shift[s] EXCEPT !.status = "COMPLETED", !.ended = TRUE]
  <1>2. shift[s] \in ShiftRow
    BY <1>1 DEF IInv, TypeOK
  <1>3. row \in ShiftRow /\ Agrees(row)
    BY <1>2 DEF ShiftRow, Agrees, Statuses
  <1>4. Begin(w, Plain("clock_out"), One(s, row), "clean")
    BY <1>1
  <1> HIDE DEF row
  <1>5. QED
    BY <1>3, <1>4, OneStarts DEF WholeRow, StatusOps

LEMMA MarkNoShowStarts ==
    ASSUME IInv, NEW w \in Workers, MarkNoShow(w) PROVE Starts(w)
  <1>1. PICK s \in Shifts :
          /\ shift[s] # None
          /\ Begin(w, Plain("mark_no_show"),
                   One(s, [shift[s] EXCEPT !.status = "NO_SHOW"]), "clean")
    BY DEF MarkNoShow
  <1> DEFINE row == [shift[s] EXCEPT !.status = "NO_SHOW"]
  <1>2. shift[s] \in ShiftRow
    BY <1>1 DEF IInv, TypeOK
  <1>3. /\ row \in ShiftRow /\ Agrees(row) /\ row.status = "NO_SHOW"
        /\ row.window = shift[s].window /\ row.staff = shift[s].staff
    BY <1>2 DEF ShiftRow, Agrees, Statuses
  <1>4. Begin(w, Plain("mark_no_show"), One(s, row), "clean")
    BY <1>1
  <1> HIDE DEF row
  <1>5. QED
    BY <1>1, <1>3, <1>4, OneStarts DEF StatusOps

LEMMA CancelStarts ==
    ASSUME IInv, NEW w \in Workers, Cancel(w) PROVE Starts(w)
  <1>1. PICK s \in Shifts :
          /\ shift[s] # None
          /\ Begin(w, Plain("cancel"),
                   One(s, [shift[s] EXCEPT !.status = "CANCELLED"]), "clean")
    BY DEF Cancel
  <1> DEFINE row == [shift[s] EXCEPT !.status = "CANCELLED"]
  <1>2. shift[s] \in ShiftRow
    BY <1>1 DEF IInv, TypeOK
  <1>3. /\ row \in ShiftRow /\ Agrees(row) /\ row.status = "CANCELLED"
        /\ row.window = shift[s].window /\ row.staff = shift[s].staff
    BY <1>2 DEF ShiftRow, Agrees, Statuses
  <1>4. Begin(w, Plain("cancel"), One(s, row), "clean")
    BY <1>1
  <1> HIDE DEF row
  <1>5. QED
    BY <1>1, <1>3, <1>4, OneStarts DEF StatusOps

LEMMA DeleteIInv ==
    ASSUME IInv, NEW w \in Workers, Delete(w) PROVE IInv'
  <1> USE ShiftsAssumption DEF IInv
  <1>1. PICK s \in Shifts :
          /\ shift' = [shift EXCEPT ![s] = None]
          /\ swap' = [q \in Swaps |->
                IF swap[q] # None /\ s \in {swap[q].original, swap[q].target}
                THEN None ELSE swap[q]]
          /\ UNCHANGED <<now, pc, job, copy, todo, saving, crashes>>
    BY DEF Delete, mine
  <1>2. TypeOK'
    BY <1>1 DEF TypeOK
  <1>3. AllAgree(shift)' /\ HeldOK'
    BY <1>1 DEF AllAgree, HeldOK, TypeOK
  <1>4. Refers'
    BY <1>1 DEF Refers, TypeOK, SwapRow
  <1>5. QED
    BY <1>2, <1>3, <1>4

LEMMA FileSwapIInv ==
    ASSUME IInv, NEW q \in Swaps, FileSwap(q) PROVE IInv'
  <1> USE ShiftsAssumption DEF IInv
  <1>1. PICK o \in Shifts, t \in Shifts \cup {None}, p \in Staff :
          /\ shift[o] # None
          /\ t # None => t # o /\ shift[t] # None
          /\ swap' = [swap EXCEPT ![q] =
                [original |-> o, target |-> t, with |-> p,
                 status |-> "PENDING", answer |-> None]]
          /\ UNCHANGED <<shift, now, pc, job, copy, todo, saving, crashes>>
    BY DEF FileSwap, Exist, mine
  <1>2. TypeOK'
    BY <1>1 DEF TypeOK, SwapRow
  <1>3. AllAgree(shift)' /\ HeldOK'
    BY <1>1 DEF AllAgree, HeldOK, TypeOK
  <1>4. Refers'
    BY <1>1 DEF Refers, TypeOK
  <1>5. QED
    BY <1>2, <1>3, <1>4

LEMMA DeleteSwapIInv ==
    ASSUME IInv, NEW w \in Workers, DeleteSwap(w) PROVE IInv'
  <1> USE ShiftsAssumption DEF IInv
  <1>1. PICK q \in Swaps :
          /\ swap' = [swap EXCEPT ![q] = None]
          /\ UNCHANGED <<shift, now, pc, job, copy, todo, saving, crashes>>
    BY DEF DeleteSwap, mine
  <1>2. TypeOK'
    BY <1>1 DEF TypeOK
  <1>3. AllAgree(shift)' /\ HeldOK' /\ Refers'
    BY <1>1 DEF AllAgree, HeldOK, Refers, TypeOK
  <1>4. QED
    BY <1>2, <1>3

(* What an edit makes of a swap request.                                    *)
Reworded(r, o, t, p) == [r EXCEPT !.original = o, !.target = t, !.with = p]

LEMMA RewordedType ==
    ASSUME NEW r \in SwapRow, NEW o \in Shifts, NEW t \in Shifts \cup {None}, NEW p \in Staff
    PROVE  /\ Reworded(r, o, t, p) \in SwapRow
           /\ Reworded(r, o, t, p).original = o /\ Reworded(r, o, t, p).target = t
           /\ Reworded(r, o, t, p).with = p
  BY DEF SwapRow, Reworded

LEMMA EditSwapStarts ==
    ASSUME IInv, NEW w \in Workers, EditSwap(w) PROVE Starts(w)
  <1>1. PICK q \in Swaps, o \in Shifts, t \in Shifts \cup {None}, p \in Staff :
          /\ swap[q] # None
          /\ Begin(w, [op |-> "edit_swap", swap |-> q,
                       row |-> Reworded(swap[q], o, t, p)], NoShifts, "save_swap")
    BY DEF EditSwap, Reworded
  <1> DEFINE row == Reworded(swap[q], o, t, p)
             j == [op |-> "edit_swap", swap |-> q, row |-> row]
  <1>2. row \in SwapRow
    <2>1. swap[q] \in SwapRow
      BY <1>1 DEF IInv, TypeOK
    <2>2. QED
      BY <2>1, RewordedType
  <1>3. Begin(w, j, NoShifts, "save_swap")
    BY <1>1
  <1> HIDE DEF row
  <1>4. j \in EditJob /\ j \in Job /\ j.op = "edit_swap"
    BY <1>2 DEF EditJob, Job
  <1>5. /\ NoShifts \in [Shifts -> ShiftRow \cup {None}] /\ AllAgree(NoShifts)
        /\ \A s \in Shifts : NoShifts[s] = None
    BY DEF NoShifts, AllAgree
  <1> HIDE DEF j
  <1>6. Loads(w, j, NoShifts, "save_swap")
    BY <1>3, <1>4, <1>5 DEF Loads, StatusOps
  <1>7. QED
    BY <1>4, <1>5, <1>6 DEF Starts, Firsts

LEMMA ExchangedType ==
    ASSUME IInv, NEW q \in Swaps, swap[q] # None
    PROVE  /\ Exchanged(swap[q]) \in [Shifts -> ShiftRow \cup {None}]
           /\ AllAgree(Exchanged(swap[q]))
           /\ \A s \in Shifts : Exchanged(swap[q])[s] # None =>
                shift[s] # None /\ Exchanged(swap[q])[s].window = shift[s].window
  <1> DEFINE r == swap[q]
             a == [shift[r.original] EXCEPT !.staff = r.with]
             b == [shift[r.original] EXCEPT !.staff = shift[r.target].staff]
             c == [shift[r.target] EXCEPT !.staff = shift[r.original].staff]
  <1>1. /\ r \in SwapRow
        /\ shift[r.original] \in ShiftRow /\ Agrees(shift[r.original])
        /\ r.target # None =>
             shift[r.target] \in ShiftRow /\ Agrees(shift[r.target])
    BY DEF IInv, TypeOK, Refers, SwapRow, AllAgree
  <1>2. CASE r.target = None
    <2>1. a \in ShiftRow /\ Agrees(a) /\ a.window = shift[r.original].window
      BY <1>1 DEF ShiftRow, SwapRow, Agrees
    <2>2. Exchanged(r) = One(r.original, a)
      BY <1>2 DEF Exchanged
    <2>3. r.original \in Shifts
      BY <1>1 DEF SwapRow
    <2> HIDE DEF a
    <2>4. /\ Exchanged(r) \in [Shifts -> ShiftRow \cup {None}]
          /\ AllAgree(Exchanged(r))
          /\ \A s \in Shifts : Exchanged(r)[s] # None =>
                s = r.original /\ Exchanged(r)[s] = a
      BY <2>1, <2>2, <2>3, OneType
    <2>5. shift[r.original] # None
      BY <1>1, ShiftsAssumption
    <2>6. QED
      BY <2>1, <2>4, <2>5 DEF r
  <1>3. CASE r.target # None
    <2>1. /\ b \in ShiftRow /\ Agrees(b) /\ b.window = shift[r.original].window
          /\ c \in ShiftRow /\ Agrees(c) /\ c.window = shift[r.target].window
      BY <1>1, <1>3 DEF ShiftRow, Agrees
    <2>2. Exchanged(r) = [One(r.original, b) EXCEPT ![r.target] = c]
      BY <1>3 DEF Exchanged
    <2>2a. r.original \in Shifts /\ r.target \in Shifts
      BY <1>1, <1>3 DEF SwapRow
    <2> HIDE DEF b, c
    <2>3. One(r.original, b) \in [Shifts -> ShiftRow \cup {None}]
          /\ AllAgree(One(r.original, b))
          /\ \A s \in Shifts : One(r.original, b)[s] # None =>
               s = r.original /\ One(r.original, b)[s] = b
      BY <2>1, <2>2a, OneType
    <2>4. shift[r.original] # None /\ shift[r.target] # None
      BY <1>1, <1>3, ShiftsAssumption
    <2>5. QED
      BY <2>1, <2>2, <2>2a, <2>3, <2>4 DEF AllAgree
  <1>4. QED
    BY <1>2, <1>3

LEMMA ApproveStarts ==
    ASSUME IInv, NEW w \in Workers, Approve(w) PROVE Starts(w)
  <1>1. PICK q \in Swaps :
          /\ swap[q] # None
          /\ Begin(w, [op |-> "approve", swap |-> q, first |-> swap[q].original],
                   Exchanged(swap[q]), "answer")
    BY DEF Approve
  <1> DEFINE j == [op |-> "approve", swap |-> q, first |-> swap[q].original]
             rows == Exchanged(swap[q])
  <1>2. j \in Job /\ j.op = "approve" /\ j.swap \in Swaps
    BY <1>1 DEF Job, AllOps, IInv, TypeOK, SwapRow
  <1>3. /\ rows \in [Shifts -> ShiftRow \cup {None}] /\ AllAgree(rows)
        /\ \A s \in Shifts : rows[s] # None =>
             shift[s] # None /\ rows[s].window = shift[s].window
    BY <1>1, ExchangedType
  <1>4. Begin(w, j, rows, "answer")
    BY <1>1
  <1> HIDE DEF j, rows
  <1>5. Loads(w, j, rows, "answer")
    BY <1>2, <1>3, <1>4 DEF Loads, StatusOps, WholeRow
  <1>6. QED
    BY <1>2, <1>3, <1>5 DEF Starts, Firsts

LEMMA RejectStarts ==
    ASSUME IInv, NEW w \in Workers, Reject(w) PROVE Starts(w)
  <1>1. PICK q \in Swaps :
          Begin(w, [op |-> "reject", swap |-> q, first |-> None], NoShifts, "answer")
    BY DEF Reject
  <1> DEFINE j == [op |-> "reject", swap |-> q, first |-> None]
  <1>2. j \in Job /\ j.op = "reject" /\ j.swap \in Swaps
    BY DEF Job, AllOps
  <1>3. /\ NoShifts \in [Shifts -> ShiftRow \cup {None}] /\ AllAgree(NoShifts)
        /\ \A s \in Shifts : NoShifts[s] = None
    BY DEF NoShifts, AllAgree
  <1>4. Begin(w, j, NoShifts, "answer")
    BY <1>1
  <1> HIDE DEF j
  <1>5. Loads(w, j, NoShifts, "answer")
    BY <1>2, <1>3, <1>4 DEF Loads, StatusOps
  <1>6. QED
    BY <1>2, <1>3, <1>5 DEF Starts, Firsts

LEMMA SweepStarts ==
    ASSUME IInv, NEW w \in Workers, Sweep(w) PROVE Starts(w)
  <1> DEFINE rows == [s \in Shifts |-> IF Missed(s)
                                       THEN [shift[s] EXCEPT !.status = "NO_SHOW"]
                                       ELSE None]
  <1>1. Begin(w, Plain("sweep"), rows, "clean")
    BY DEF Sweep
  <1>2. rows \in [Shifts -> ShiftRow \cup {None}] /\ AllAgree(rows)
    <2>1. ASSUME NEW s \in Shifts, Missed(s)
          PROVE  /\ [shift[s] EXCEPT !.status = "NO_SHOW"] \in ShiftRow
                 /\ Agrees([shift[s] EXCEPT !.status = "NO_SHOW"])
      <3>1. shift[s] \in ShiftRow
        BY <2>1 DEF Missed, IInv, TypeOK
      <3>2. QED
        BY <3>1 DEF ShiftRow, Statuses, Agrees
    <2>2. QED
      BY <2>1 DEF AllAgree
  <1>3. Plain("sweep") \in Job /\ Plain("sweep").op = "sweep"
    BY DEF Plain, Job, AllOps, WholeRow
  <1> HIDE DEF rows
  <1>4. Loads(w, Plain("sweep"), rows, "clean")
    BY <1>1, <1>2, <1>3 DEF Loads, StatusOps, WholeRow
  <1>5. QED
    BY <1>2, <1>3, <1>4 DEF Starts, Firsts

(* What a worker that is idle may do.                                       *)
LEMMA RequestStarts ==
    ASSUME IInv, NEW w \in Workers, Request(w) \/ Sweep(w)
    PROVE  Starts(w) \/ Delete(w) \/ DeleteSwap(w)
  BY CreateStarts, UpdateStarts, ClockInStarts, ClockOutStarts, MarkNoShowStarts,
     CancelStarts, ApproveStarts, RejectStarts, EditSwapStarts, SweepStarts DEF Request

-----------------------------------------------------------------------------
LEMMA AnswerIInv ==
    ASSUME IInv, NEW w \in Workers, Answer(w) PROVE IInv'
  <1> USE ShiftsAssumption
  <1>1. CASE Fail(w)
    BY <1>1, FailIInv
  <1> DEFINE q == job[w].swap
  <1>2. CASE /\ pc[w] = "answer"
             /\ swap[q] # None
             /\ swap' = [swap EXCEPT ![q].answer = job[w].op]
             /\ \/ todo[w] # {} /\ Goto(w, "clean")
                                /\ UNCHANGED <<job, copy, todo, saving>>
                \/ todo[w] = {} /\ Done(w)
             /\ UNCHANGED <<shift, now, crashes>>
    <2>1. swap' \in [Swaps -> SwapRow \cup {None}] /\ Refers'
      <3>1. q \in Swaps /\ job[w].op \in {"approve", "reject"}
        BY <1>2 DEF IInv, HeldOK
      <3>2. swap[q] \in SwapRow
        BY <1>2, <3>1 DEF IInv, TypeOK
      <3>3. [swap[q] EXCEPT !.answer = job[w].op] \in SwapRow
        BY <3>1, <3>2 DEF SwapRow
      <3>4. swap' = [swap EXCEPT ![q] = [swap[q] EXCEPT !.answer = job[w].op]]
        BY <1>2
      <3>5. QED
        BY <1>2, <3>1, <3>2, <3>3, <3>4 DEF IInv, TypeOK, Refers, SwapRow
    <2>2. CASE todo[w] = {} /\ Done(w)
      BY <1>2, <2>1, <2>2, DoneIInv DEF IInv, TypeOK
    <2>3. CASE todo[w] # {} /\ Goto(w, "clean") /\ UNCHANGED <<job, copy, todo, saving>>
      <3>1. TypeOK'
        BY <1>2, <2>1, <2>3 DEF IInv, TypeOK, Goto
      <3>2. HeldOK'
        BY <1>2, <2>3 DEF IInv, TypeOK, HeldOK, Goto
      <3>3. QED
        BY <1>2, <2>1, <3>1, <3>2 DEF IInv, AllAgree
    <2>4. QED
      BY <1>2, <2>2, <2>3
  <1>3. QED
    BY <1>1, <1>2 DEF Answer

LEMMA SaveSwapIInv ==
    ASSUME IInv, NEW w \in Workers, SaveSwap(w) PROVE IInv'
  <1> USE ShiftsAssumption
  <1>1. CASE Fail(w)
    BY <1>1, FailIInv
  <1> DEFINE r == job[w].row
  <1>2. CASE /\ pc[w] = "save_swap" /\ Exist(r.original, r.target)
             /\ swap' = [swap EXCEPT ![job[w].swap] = r]
             /\ Done(w) /\ UNCHANGED <<shift, now, crashes>>
    <2>1. r \in SwapRow /\ job[w].swap \in Swaps
      BY <1>2 DEF IInv, HeldOK, EditJob
    <2>2. swap' \in [Swaps -> SwapRow \cup {None}] /\ Refers'
      BY <1>2, <2>1 DEF IInv, TypeOK, Refers, Exist
    <2>3. AllAgree(shift') /\ shift' \in [Shifts -> ShiftRow \cup {None}]
          /\ now' = now /\ crashes' \in 0 .. MaxCrashes
      BY <1>2 DEF IInv, TypeOK, AllAgree
    <2>4. QED
      BY <1>2, <2>2, <2>3, DoneIInv
  <1>3. QED
    BY <1>1, <1>2 DEF SaveSwap

LEMMA CheckIInv ==
    ASSUME IInv, NEW w \in Workers, Check(w) PROVE IInv'
  <1> USE ShiftsAssumption
  <1>1. CASE Fail(w)
    BY <1>1, FailIInv
  <1>2. CASE pc[w] = "check" /\ Goto(w, "clean")
             /\ UNCHANGED <<db, now, job, copy, todo, saving, crashes>>
    <2>1. TypeOK'
      BY <1>2 DEF IInv, TypeOK, Goto, db
    <2>2. HeldOK' /\ AllAgree(shift)' /\ Refers'
      BY <1>2 DEF IInv, TypeOK, HeldOK, AllAgree, Refers, Goto, db
    <2>3. QED
      BY <2>1, <2>2 DEF IInv
  <1>3. QED
    BY <1>1, <1>2 DEF Check

LEMMA CleanIInv ==
    ASSUME IInv, NEW w \in Workers, Clean(w) PROVE IInv'
  <1> USE ShiftsAssumption
  <1>1. CASE Fail(w)
    BY <1>1, FailIInv
  <1>2. ASSUME NEW s \in Shifts, pc[w] = "clean", Turn(w, s), Goto(w, "write"),
               saving' = [saving EXCEPT ![w] = s],
               UNCHANGED <<db, now, job, copy, todo, crashes>>
        PROVE  IInv'
    <2>1. TypeOK'
      BY <1>2 DEF IInv, TypeOK, Goto, db
    <2>2. HeldOK' /\ AllAgree(shift)' /\ Refers'
      BY <1>2 DEF IInv, TypeOK, HeldOK, AllAgree, Refers, Goto, db, Turn
    <2>3. QED
      BY <2>1, <2>2 DEF IInv
  <1>3. QED
    BY <1>1, <1>2 DEF Clean

(* What save() leaves in a row agrees with itself, also where a stale       *)
(* object meets a row that has changed since.                               *)
LEMMA SavedAgrees ==
    ASSUME IInv, NEW w \in Workers, pc[w] = "write",
           shift[saving[w]] # None \/ job[w].op \in WholeRow
    PROVE  /\ saving[w] \in Shifts
           /\ Saved(w, saving[w]) \in ShiftRow
           /\ Agrees(Saved(w, saving[w]))
  <1> DEFINE s == saving[w]
  <1>1. /\ s \in Shifts /\ s \in todo[w]
        /\ copy[w][s] \in ShiftRow /\ Agrees(copy[w][s])
        /\ job[w] \in Job /\ job[w].op \notin {"reject", "edit_swap"}
        /\ job[w].op \in StatusOps => copy[w][s].status \in {"NO_SHOW", "CANCELLED"}
    BY DEF IInv, TypeOK, HeldOK, AllAgree
  <1>2. CASE job[w].op \in WholeRow
    BY <1>1, <1>2 DEF Saved
  <1>3. CASE job[w].op \notin WholeRow
    <2>1. shift[s] \in ShiftRow /\ Agrees(shift[s])
      BY <1>1, <1>3 DEF IInv, TypeOK, AllAgree
    <2>2. CASE job[w].op = "approve"
      BY <1>1, <1>3, <2>1, <2>2 DEF Saved, ShiftRow, Agrees
    <2>3. CASE job[w].op \in StatusOps
      BY <1>1, <1>3, <2>1, <2>3 DEF Saved, ShiftRow, Agrees, StatusOps, Statuses
    <2>4. QED
      BY <1>1, <1>3, <2>2, <2>3 DEF Job, EditJob, AllOps, StatusOps
  <1>4. QED
    BY <1>1, <1>2, <1>3

LEMMA WriteIInv ==
    ASSUME IInv, NEW w \in Workers, Write(w) PROVE IInv'
  <1> USE ShiftsAssumption
  <1> DEFINE s == saving[w]
  <1>1. CASE Fail(w)
    BY <1>1, FailIInv
  <1>2. CASE /\ pc[w] = "write"
             /\ shift[s] # None \/ job[w].op \in WholeRow
             /\ shift' = [shift EXCEPT ![s] = Saved(w, s)]
             /\ UNCHANGED <<swap, now, crashes>>
             /\ \/ todo[w] = {s} /\ Done(w)
                \/ /\ todo' = [todo EXCEPT ![w] = @ \ {s}]
                   /\ saving' = [saving EXCEPT ![w] = None]
                   /\ Goto(w, "clean")
                   /\ UNCHANGED <<job, copy>>
    <2>1. s \in Shifts /\ Saved(w, s) \in ShiftRow /\ Agrees(Saved(w, s))
      BY <1>2, SavedAgrees
    <2>2. /\ shift' \in [Shifts -> ShiftRow \cup {None}]
          /\ AllAgree(shift')
      BY <1>2, <2>1 DEF IInv, TypeOK, AllAgree
    <2>3. Refers'
      BY <1>2, <2>1 DEF IInv, TypeOK, Refers, SwapRow
    <2>4. CASE Done(w)
      BY <1>2, <2>2, <2>3, <2>4, DoneIInv DEF IInv, TypeOK
    <2>5. CASE /\ todo' = [todo EXCEPT ![w] = @ \ {s}]
               /\ saving' = [saving EXCEPT ![w] = None]
               /\ Goto(w, "clean")
               /\ UNCHANGED <<job, copy>>
      <3>1. TypeOK'
        BY <1>2, <2>2, <2>5 DEF IInv, TypeOK, Goto
      <3>2. HeldOK'
        BY <1>2, <2>5 DEF IInv, TypeOK, HeldOK, AllAgree, Goto
      <3>3. QED
        BY <2>2, <2>3, <3>1, <3>2 DEF IInv, AllAgree
    <2>6. QED
      BY <1>2, <2>4, <2>5
  <1>3. QED
    BY <1>1, <1>2 DEF Write

LEMMA CrashIInv ==
    ASSUME IInv, NEW w \in Workers, Crash(w) PROVE IInv'
  <1>1. Done(w) /\ shift' = shift /\ swap' = swap /\ now' = now
        /\ crashes' \in 0 .. MaxCrashes
    BY ShiftsAssumption DEF Crash, db, IInv, TypeOK
  <1>2. Refers' /\ AllAgree(shift')
    BY <1>1 DEF Refers, AllAgree, IInv
  <1>3. QED
    BY <1>1, <1>2, DoneIInv DEF IInv, TypeOK

LEMMA TickIInv ==
    ASSUME IInv, Tick PROVE IInv'
  BY ShiftsAssumption DEF IInv, Tick, TypeOK, AllAgree, HeldOK, Refers, db, mine

LEMMA StepIInv == IInv /\ [Next]_vars => IInv'
  <1> SUFFICES ASSUME IInv, [Next]_vars PROVE IInv'
    OBVIOUS
  <1>1. CASE UNCHANGED vars
    BY <1>1 DEF vars, IInv, TypeOK, AllAgree, HeldOK, Refers
  <1>2. ASSUME NEW w \in Web, Request(w) PROVE IInv'
    BY <1>2, RequestStarts, StartsIInv, DeleteIInv, DeleteSwapIInv DEF Workers
  <1>3. ASSUME NEW w \in Celery, Sweep(w) PROVE IInv'
    BY <1>3, RequestStarts, StartsIInv, DeleteIInv, DeleteSwapIInv DEF Workers
  <1>4. ASSUME NEW w \in Workers, Serve(w) \/ Crash(w) PROVE IInv'
    BY <1>4, AnswerIInv, SaveSwapIInv, CheckIInv, CleanIInv, WriteIInv, CrashIInv DEF Serve
  <1>5. ASSUME NEW q \in Swaps, FileSwap(q) PROVE IInv'
    BY <1>5, FileSwapIInv
  <1>6. CASE Tick
    BY <1>6, TickIInv
  <1>7. QED
    BY <1>1, <1>2, <1>3, <1>4, <1>5, <1>6 DEF Next

(* The inductive invariant holds in every reachable state.                  *)
THEOREM Invariance == Spec => []IInv
  BY InitIInv, StepIInv, PTL DEF Spec

(* The variables keep their types whatever the workers do.                  *)
THEOREM ShiftsTypeCorrect == Spec => []TypeOK
  <1>1. IInv => TypeOK
    BY DEF IInv
  <1>2. QED
    BY <1>1, Invariance, PTL

(* Stale objects saved over each other never leave a row whose status       *)
(* contradicts its clock times.                                             *)
THEOREM StatusAgreesWithClock == Spec => []StatusMatchesClock
  <1>1. IInv => StatusMatchesClock
    BY DEF IInv, AllAgree, Agrees, StatusMatchesClock
  <1>2. QED
    BY <1>1, Invariance, PTL

-----------------------------------------------------------------------------
(* One worker.  A row whose status or staff alone is saved still has the    *)
(* other columns of the object, and an object being saved conflicts with no *)
(* row.                                                                     *)
OneWorker == \E w : Workers = {w}

SavingOK ==
    \A w \in Workers :
        /\ \A s \in todo[w] : job[w].op \notin WholeRow =>
             /\ shift[s] # None
             /\ copy[w][s].window = shift[s].window
             /\ job[w].op # "approve" => copy[w][s].staff = shift[s].staff
        /\ pc[w] = "write" => ~ Conflict(saving[w], copy[w][saving[w]])

SerialInv == IInv /\ NoDoubleBooking /\ SavingOK

LEMMA SerialStarts ==
    ASSUME SerialInv, NEW w, Workers = {w}, Starts(w)
    PROVE  NoDoubleBooking' /\ SavingOK'
  <1>1. PICK j \in Job, rows \in [Shifts -> ShiftRow \cup {None}],
             step \in Firsts : Loads(w, j, rows, step)
    BY DEF Starts
  <1>2. NoDoubleBooking'
    BY <1>1 DEF SerialInv, NoDoubleBooking, Loads, Begin, db
  <1>3. SavingOK'
    BY <1>1 DEF SerialInv, IInv, TypeOK, SavingOK, Loads, Firsts, Begin, Goto, db
  <1>4. QED
    BY <1>2, <1>3

LEMMA SerialDone ==
    ASSUME SerialInv, NEW w, Workers = {w}, Done(w)
    PROVE  SavingOK'
  BY DEF SerialInv, IInv, TypeOK, SavingOK, Done

(* Saving an object that conflicts with no row books nobody twice.          *)
LEMMA WriteBooksNobodyTwice ==
    ASSUME SerialInv, NEW w \in Workers, pc[w] = "write",
           shift' = [shift EXCEPT ![saving[w]] = Saved(w, saving[w])]
    PROVE  NoDoubleBooking'
  <1> DEFINE s == saving[w]
             row == Saved(w, s)
  <1>1. s \in todo[w] /\ s \in Shifts /\ job[w] \in Job /\ copy[w][s] \in ShiftRow
    BY DEF SerialInv, IInv, TypeOK, HeldOK
  <1>2. row.window = copy[w][s].window /\ row.staff = copy[w][s].staff
    <2>1. CASE job[w].op \in WholeRow
      BY <2>1 DEF Saved
    <2>2. CASE job[w].op \notin WholeRow
      <3>1. shift[s] \in ShiftRow
        BY <1>1, <2>2 DEF SerialInv, SavingOK, IInv, TypeOK
      <3>2. QED
        BY <1>1, <2>2, <3>1 DEF Saved, SerialInv, SavingOK, ShiftRow
    <2>3. QED
      BY <2>1, <2>2
  <1>3. \A t \in Shifts \ {s} :
          shift[t] # None /\ shift[t].status \in Active /\ shift[t].staff = row.staff
            => ~ Overlap(shift[t].window, row.window)
    BY <1>2 DEF SerialInv, SavingOK, Conflict
  <1>4. /\ shift'[s] = row
        /\ \A t \in Shifts \ {s} : shift'[t] = shift[t]
    BY <1>1 DEF SerialInv, IInv, TypeOK
  <1>5. \A t \in Shifts : Overlap(shift[t].window, row.window)
                            <=> Overlap(row.window, shift[t].window)
    BY DEF Overlap
  <1> HIDE DEF s, row
  <1>6. SUFFICES ASSUME NEW x \in Shifts, NEW y \in Shifts, x # y,
                        shift'[x] # None, shift'[y] # None,
                        shift'[x].status \in Active, shift'[y].status \in Active,
                        shift'[x].staff = shift'[y].staff
                 PROVE  ~ Overlap(shift'[x].window, shift'[y].window)
    BY DEF NoDoubleBooking, Overlap
  <1>7. CASE x = s
    BY <1>3, <1>4, <1>5, <1>6, <1>7
  <1>8. CASE y = s
    BY <1>3, <1>4, <1>5, <1>6, <1>8
  <1>9. CASE x # s /\ y # s
    BY <1>4, <1>6, <1>9 DEF SerialInv, NoDoubleBooking
  <1>10. QED
    BY <1>7, <1>8, <1>9

LEMMA SerialWrite ==
    ASSUME SerialInv, NEW w, Workers = {w}, Write(w)
    PROVE  NoDoubleBooking' /\ SavingOK'
  <1>1. CASE Fail(w)
    BY <1>1, SerialDone DEF Fail, db, SerialInv, NoDoubleBooking
  <1> DEFINE s == saving[w]
  <1>2. CASE /\ pc[w] = "write"
             /\ shift' = [shift EXCEPT ![s] = Saved(w, s)]
             /\ \/ Done(w)
                \/ /\ todo' = [todo EXCEPT ![w] = @ \ {s}]
                   /\ saving' = [saving EXCEPT ![w] = None]
                   /\ Goto(w, "clean")
                   /\ UNCHANGED <<job, copy>>
    <2>1. NoDoubleBooking'
      BY <1>2, WriteBooksNobodyTwice
    <2>2. CASE Done(w)
      BY <2>1, <2>2, SerialDone
    <2>3. CASE /\ todo' = [todo EXCEPT ![w] = @ \ {s}]
               /\ saving' = [saving EXCEPT ![w] = None]
               /\ Goto(w, "clean")
               /\ UNCHANGED <<job, copy>>
      <3>1. SavingOK'
        BY <1>2, <2>3 DEF SerialInv, IInv, TypeOK, SavingOK, Goto
      <3>2. QED
        BY <2>1, <3>1
    <2>4. QED
      BY <1>2, <2>2, <2>3
  <1>3. QED
    BY <1>1, <1>2 DEF Write

LEMMA SerialDelete ==
    ASSUME SerialInv, NEW w, Workers = {w}, Delete(w)
    PROVE  NoDoubleBooking' /\ SavingOK'
  <1>1. PICK s \in Shifts : shift' = [shift EXCEPT ![s] = None]
    BY DEF Delete
  <1>2. NoDoubleBooking'
    BY <1>1 DEF SerialInv, IInv, TypeOK, NoDoubleBooking
  <1>3. todo' = todo /\ pc' = pc /\ pc[w] = "idle" /\ todo[w] = {}
    BY DEF Delete, mine, SerialInv, IInv, HeldOK, Workers
  <1>4. QED
    BY <1>2, <1>3 DEF SavingOK

LEMMA SerialServe ==
    ASSUME SerialInv, NEW w, Workers = {w},
           Answer(w) \/ SaveSwap(w) \/ Check(w) \/ Clean(w) \/ Crash(w)
    PROVE  NoDoubleBooking' /\ SavingOK'
  <1>1. NoDoubleBooking' /\ shift' = shift
    BY DEF SerialInv, NoDoubleBooking, Answer, SaveSwap, Check, Clean, Crash, Fail, db
  <1>2. CASE Done(w)
    BY <1>1, <1>2, SerialDone
  <1>3. CASE ~ Done(w)
    <2>1. CASE Answer(w) \/ Check(w)
      BY <1>1, <1>3, <2>1
      DEF Answer, Check, Fail, Goto, SerialInv, IInv, TypeOK, SavingOK, db
    <2>2. CASE Clean(w)
      BY <1>1, <1>3, <2>2
      DEF Clean, Fail, Goto, SerialInv, IInv, TypeOK, SavingOK, Conflict, db
    <2>3. QED
      BY <1>3, <2>1, <2>2 DEF Crash, SaveSwap, Fail
  <1>4. QED
    BY <1>2, <1>3

LEMMA SerialStep == OneWorker /\ SerialInv /\ [Next]_vars => SerialInv'
  <1> SUFFICES ASSUME OneWorker, SerialInv, [Next]_vars PROVE SerialInv'
    OBVIOUS
  <1>1. PICK w : Workers = {w}
    BY DEF OneWorker
  <1>2. IInv'
    BY StepIInv DEF SerialInv
  <1>3. NoDoubleBooking' /\ SavingOK'
    <2>1. CASE UNCHANGED vars
      BY <2>1 DEF vars, SerialInv, NoDoubleBooking, SavingOK, Conflict
    <2>2. CASE Request(w) \/ Sweep(w)
      <3>1. CASE DeleteSwap(w)
        BY <3>1 DEF DeleteSwap, mine, SerialInv, NoDoubleBooking, SavingOK, Conflict
      <3>2. QED
        BY <1>1, <2>2, <3>1, RequestStarts, SerialStarts, SerialDelete DEF SerialInv
    <2>3. CASE Serve(w) \/ Crash(w)
      BY <1>1, <2>3, SerialServe, SerialWrite DEF Serve
    <2>4. ASSUME NEW q \in Swaps, FileSwap(q) PROVE NoDoubleBooking' /\ SavingOK'
      BY <2>4 DEF FileSwap, mine, SerialInv, NoDoubleBooking, SavingOK, Conflict
    <2>5. CASE Tick
      BY <2>5 DEF Tick, db, mine, SerialInv, NoDoubleBooking, SavingOK, Conflict
    <2>6. QED
      BY <1>1, <2>1, <2>2, <2>3, <2>4, <2>5 DEF Next, Workers
  <1>4. QED
    BY <1>2, <1>3 DEF SerialInv

(* With a single worker, which may die between any two of its queries, the  *)
(* check in save() keeps every staff member from being booked twice, on all *)
(* the ways by which a shift gets another time, staff member or status.     *)
THEOREM OneWorkerNeverDoubleBooks ==
    ASSUME OneWorker PROVE Spec => []NoDoubleBooking
  <1>1. Init => SerialInv
    <2>1. Init => NoDoubleBooking /\ SavingOK
      BY DEF Init, NoDoubleBooking, SavingOK, NoShifts
    <2>2. QED
      BY <2>1, InitIInv DEF SerialInv
  <1>2. SerialInv /\ [Next]_vars => SerialInv'
    BY SerialStep
  <1>3. SerialInv => NoDoubleBooking
    BY DEF SerialInv
  <1>4. QED
    BY <1>1, <1>2, <1>3, PTL DEF Spec

-----------------------------------------------------------------------------
(* One worker.  An object about to make a no-show of a row was loaded from  *)
(* a row that nobody had clocked in for, and the row is still as it was.    *)
NoShowsOK ==
    \A w \in Workers : \A s \in todo[w] :
        shift[s] # None /\ shift[s].started /\ copy[w][s].status = "NO_SHOW"
          => shift[s].status = "NO_SHOW"

Spares(rows) ==
    \A s \in Shifts :
        rows[s] # None /\ shift[s] # None /\ shift[s].started /\ rows[s].status = "NO_SHOW"
          => shift[s].status = "NO_SHOW"

AttendanceKept ==
    \A s \in Shifts :
        (shift[s] # None /\ shift'[s] # None /\ shift[s].started
           /\ shift'[s].status = "NO_SHOW")
        => shift[s].status = "NO_SHOW"

LEMMA LoadsSparing ==
    ASSUME IInv, NEW w, Workers = {w}, NEW j, NEW rows, NEW step,
           Begin(w, j, rows, step), Spares(rows)
    PROVE  NoShowsOK' /\ AttendanceKept
  BY DEF IInv, TypeOK, Begin, db, Spares, NoShowsOK, AttendanceKept

LEMMA OneSpares ==
    ASSUME NEW s \in Shifts, NEW row,
           row.status = "NO_SHOW" /\ shift[s] # None /\ shift[s].started
             => shift[s].status = "NO_SHOW"
    PROVE  Spares(One(s, row))
  BY DEF Spares, One, NoShifts

(* The exchanged shifts keep their status.                                  *)
LEMMA ExchangedSpares ==
    ASSUME IInv, NEW q \in Swaps, swap[q] # None
    PROVE  Spares(Exchanged(swap[q]))
  <1> DEFINE r == swap[q]
  <1>1. /\ r.original \in Shifts /\ r.target \in Shifts \cup {None}
        /\ shift[r.original] \in ShiftRow
        /\ r.target # None => shift[r.target] \in ShiftRow
    BY DEF IInv, TypeOK, Refers, SwapRow
  <1>2. \A s \in Shifts : Exchanged(r)[s] # None => Exchanged(r)[s].status = shift[s].status
    BY <1>1 DEF Exchanged, One, NoShifts, ShiftRow
  <1>3. QED
    BY <1>2 DEF Spares

(* Every request that makes a no-show has looked at the status, and a       *)
(* scheduled shift was never clocked in for.                                *)
LEMMA RequestSpares ==
    ASSUME IInv, NEW w, Workers = {w}, Request(w) \/ Sweep(w), ~ Delete(w), ~ DeleteSwap(w)
    PROVE  NoShowsOK' /\ AttendanceKept
  <1>1. CASE Create(w)
    <2>1. PICK s \in Shifts, p \in Staff, x \in Windows :
              Begin(w, Plain("create"),
                    One(s, [staff |-> p, window |-> x, status |-> "SCHEDULED",
                            started |-> FALSE, ended |-> FALSE]), "check")
      BY <1>1 DEF Create
    <2>2. QED
      BY <2>1, OneSpares, LoadsSparing
  <1>2. CASE Update(w)
    <2>1. PICK s \in Shifts, p \in Staff, x \in Windows :
              /\ shift[s] # None /\ shift[s].status = "SCHEDULED"
              /\ \/ Begin(w, Plain("update"),
                          One(s, [shift[s] EXCEPT !.staff = p, !.window = x]), "check")
                 \/ Begin(w, Plain("update"), One(s, shift[s]), "clean")
      BY <1>2 DEF Update
    <2>2. [shift[s] EXCEPT !.staff = p, !.window = x].status = "SCHEDULED"
      BY <2>1 DEF IInv, TypeOK, ShiftRow
    <2>3. QED
      BY <2>1, <2>2, OneSpares, LoadsSparing
  <1>3. CASE ClockIn(w)
    <2>1. PICK s \in Shifts :
              /\ shift[s] # None
              /\ Begin(w, Plain("clock_in"),
                       One(s, [shift[s] EXCEPT !.status = "IN_PROGRESS",
                                               !.started = TRUE]), "clean")
      BY <1>3 DEF ClockIn
    <2>2. [shift[s] EXCEPT !.status = "IN_PROGRESS", !.started = TRUE].status = "IN_PROGRESS"
      BY <2>1 DEF IInv, TypeOK, ShiftRow
    <2>3. QED
      BY <2>1, <2>2, OneSpares, LoadsSparing
  <1>4. CASE ClockOut(w)
    <2>1. PICK s \in Shifts :
              /\ shift[s] # None
              /\ Begin(w, Plain("clock_out"),
                       One(s, [shift[s] EXCEPT !.status = "COMPLETED",
                                               !.ended = TRUE]), "clean")
      BY <1>4 DEF ClockOut
    <2>2. [shift[s] EXCEPT !.status = "COMPLETED", !.ended = TRUE].status = "COMPLETED"
      BY <2>1 DEF IInv, TypeOK, ShiftRow
    <2>3. QED
      BY <2>1, <2>2, OneSpares, LoadsSparing
  <1>5. CASE MarkNoShow(w)
    <2>1. PICK s \in Shifts :
              /\ shift[s] # None /\ shift[s].status = "SCHEDULED"
              /\ Begin(w, Plain("mark_no_show"),
                       One(s, [shift[s] EXCEPT !.status = "NO_SHOW"]), "clean")
      BY <1>5 DEF MarkNoShow
    <2>2. ~ shift[s].started
      BY <2>1 DEF IInv, AllAgree, Agrees
    <2>3. QED
      BY <2>1, <2>2, OneSpares, LoadsSparing
  <1>6. CASE Cancel(w)
    <2>1. PICK s \in Shifts :
              /\ shift[s] # None
              /\ Begin(w, Plain("cancel"),
                       One(s, [shift[s] EXCEPT !.status = "CANCELLED"]), "clean")
      BY <1>6 DEF Cancel
    <2>2. [shift[s] EXCEPT !.status = "CANCELLED"].status = "CANCELLED"
      BY <2>1 DEF IInv, TypeOK, ShiftRow
    <2>3. QED
      BY <2>1, <2>2, OneSpares, LoadsSparing
  <1>7. CASE Approve(w)
    BY <1>7, ExchangedSpares, LoadsSparing DEF Approve
  <1>8. CASE Reject(w) \/ EditSwap(w)
    <2>1. Spares(NoShifts)
      BY DEF Spares, NoShifts
    <2>2. QED
      BY <1>8, <2>1, LoadsSparing DEF Reject, EditSwap
  <1>9. CASE Sweep(w)
    <2>1. Spares([s \in Shifts |-> IF Missed(s)
                                   THEN [shift[s] EXCEPT !.status = "NO_SHOW"]
                                   ELSE None])
      BY DEF Spares, Missed
    <2>2. QED
      BY <1>9, <2>1, LoadsSparing DEF Sweep
  <1>10. QED
    BY <1>1, <1>2, <1>3, <1>4, <1>5, <1>6, <1>7, <1>8, <1>9 DEF Request

(* The status that is saved is the object's, or the row's own.              *)
LEMMA WriteSpares ==
    ASSUME IInv, NoShowsOK, NEW w, Workers = {w}, Write(w)
    PROVE  NoShowsOK' /\ AttendanceKept
  <1> DEFINE s == saving[w]
  <1>1. CASE Fail(w)
    BY <1>1 DEF Fail, Done, db, IInv, TypeOK, NoShowsOK, AttendanceKept
  <1>2. CASE /\ pc[w] = "write"
             /\ shift[s] # None \/ job[w].op \in WholeRow
             /\ shift' = [shift EXCEPT ![s] = Saved(w, s)]
             /\ \/ Done(w)
                \/ /\ todo' = [todo EXCEPT ![w] = @ \ {s}]
                   /\ UNCHANGED <<job, copy>>
    <2>1. s \in todo[w] /\ s \in Shifts
      BY <1>2 DEF IInv, TypeOK, HeldOK
    <2>2. shift[s] # None => Saved(w, s).status \in {copy[w][s].status, shift[s].status}
      <3>1. shift[s] # None => shift[s] \in ShiftRow
        BY <2>1 DEF IInv, TypeOK
      <3>2. QED
        BY <3>1 DEF Saved, ShiftRow
    <2>3. AttendanceKept
      BY <1>2, <2>1, <2>2 DEF IInv, TypeOK, NoShowsOK, AttendanceKept
    <2>4. todo'[w] \subseteq todo[w] \ {s} /\ (todo'[w] = {} \/ copy' = copy)
      BY <1>2 DEF Done, IInv, TypeOK
    <2>5. \A t \in todo'[w] : shift'[t] = shift[t]
      BY <1>2, <2>4 DEF IInv, TypeOK
    <2>6. NoShowsOK'
      BY <2>4, <2>5 DEF NoShowsOK
    <2>7. QED
      BY <2>3, <2>6
  <1>3. QED
    BY <1>1, <1>2 DEF Write

LEMMA ServeSpares ==
    ASSUME IInv, NoShowsOK, NEW w, Workers = {w},
           Answer(w) \/ SaveSwap(w) \/ Check(w) \/ Clean(w) \/ Crash(w)
    PROVE  NoShowsOK' /\ AttendanceKept
  <1>1. shift' = shift
    BY DEF Answer, SaveSwap, Check, Clean, Crash, Fail, db
  <1>2. \/ todo' = todo /\ copy' = copy
        \/ Done(w)
    BY DEF Answer, SaveSwap, Check, Clean, Crash, Fail
  <1>3. todo'[w] = {} \/ (todo' = todo /\ copy' = copy)
    BY <1>2 DEF Done, IInv, TypeOK
  <1>4. QED
    BY <1>1, <1>3 DEF NoShowsOK, AttendanceKept

LEMMA StepSpares ==
    ASSUME OneWorker PROVE IInv /\ NoShowsOK /\ [Next]_vars => NoShowsOK' /\ AttendanceKept
  <1> SUFFICES ASSUME IInv, NoShowsOK, [Next]_vars PROVE NoShowsOK' /\ AttendanceKept
    OBVIOUS
  <1>1. PICK w : Workers = {w}
    BY DEF OneWorker
  <1>2. CASE UNCHANGED vars
    BY <1>2 DEF vars, NoShowsOK, AttendanceKept
  <1>3. CASE Delete(w)
    <2>1. /\ pc[w] = "idle" /\ UNCHANGED <<todo, copy>>
          /\ \A s \in Shifts : shift'[s] \in {shift[s], None}
      BY <1>3 DEF Delete, mine, IInv, TypeOK
    <2>2. todo[w] = {}
      BY <1>1, <2>1 DEF IInv, HeldOK
    <2>3. QED
      BY <1>1, <2>1, <2>2 DEF NoShowsOK, AttendanceKept
  <1>9. CASE DeleteSwap(w)
    BY <1>9 DEF DeleteSwap, mine, NoShowsOK, AttendanceKept
  <1>4. CASE (Request(w) \/ Sweep(w)) /\ ~ Delete(w) /\ ~ DeleteSwap(w)
    BY <1>1, <1>4, RequestSpares
  <1>5. CASE Serve(w) \/ Crash(w)
    BY <1>1, <1>5, ServeSpares, WriteSpares DEF Serve
  <1>6. ASSUME NEW q \in Swaps, FileSwap(q) PROVE NoShowsOK' /\ AttendanceKept
    BY <1>6 DEF FileSwap, mine, NoShowsOK, AttendanceKept
  <1>7. CASE Tick
    BY <1>7 DEF Tick, db, mine, NoShowsOK, AttendanceKept
  <1>8. QED
    BY <1>1, <1>2, <1>3, <1>4, <1>5, <1>6, <1>7, <1>9 DEF Next, Workers

(* With a single worker, which may die between any two of its queries,      *)
(* neither the sweep nor a request makes a no-show of a shift that somebody *)
(* has clocked in for.                                                      *)
THEOREM OneWorkerKeepsAttendance ==
    ASSUME OneWorker PROVE Spec => AttendedIsNoNoShow
  <1>1. Init => NoShowsOK
    BY DEF Init, NoShowsOK
  <1>2. IInv /\ NoShowsOK /\ [Next]_vars => NoShowsOK'
    BY StepSpares
  <1>3. IInv /\ NoShowsOK /\ [Next]_vars => AttendanceKept
    BY StepSpares
  <1>4. QED
    BY <1>1, <1>2, <1>3, Invariance, PTL DEF Spec, AttendedIsNoNoShow, AttendanceKept

-----------------------------------------------------------------------------
(* One worker.  What a request makes of the row r as it is: the object c.   *)
Due(op, r, c) ==
    /\ op = "create" =>
          r = None /\ \E p \in Staff, x \in Windows :
              c = [staff |-> p, window |-> x, status |-> "SCHEDULED",
                   started |-> FALSE, ended |-> FALSE]
    /\ op # "create" => r # None
    /\ op = "update" =>
          r.status = "SCHEDULED" /\ \E p \in Staff, x \in Windows :
              c = [r EXCEPT !.staff = p, !.window = x]
    /\ op = "clock_in" => c = [r EXCEPT !.status = "IN_PROGRESS", !.started = TRUE]
    /\ op = "clock_out" => c = [r EXCEPT !.status = "COMPLETED", !.ended = TRUE]
    /\ op \in {"mark_no_show", "sweep"} =>
          r.status = "SCHEDULED" /\ c = [r EXCEPT !.status = "NO_SHOW"]
    /\ op = "cancel" =>
          /\ r.status \notin {"COMPLETED", "NO_SHOW"}
          /\ c = [r EXCEPT !.status = "CANCELLED"]
    /\ op = "approve" => \E p \in Staff : c = [r EXCEPT !.staff = p]
    /\ op \notin {"reject", "edit_swap"}

(* The swap request that a worker approves has the shifts it holds, and is  *)
(* answered before they are saved.                                          *)
Swapping(w) ==
    /\ \A s \in todo[w] :
          /\ swap[job[w].swap] # None
          /\ s \in {swap[job[w].swap].original, swap[job[w].swap].target}
    /\ pc[w] \in {"clean", "write"} => swap[job[w].swap].answer = "approve"
    /\ pc[w] # "check"
    /\ job[w].swap \in Swaps

(* An edit of a swap request keeps its answer as it is.                     *)
Rewording(w) ==
    LET j == job[w]
    IN  /\ j \in EditJob /\ swap[j.swap] # None
        /\ j.row = Reworded(swap[j.swap], j.row.original, j.row.target, j.row.with)

DueOK ==
    \A w \in Workers :
        /\ \A s \in todo[w] : Due(job[w].op, shift[s], copy[w][s])
        /\ pc[w] # "idle" /\ job[w].op = "approve" => Swapping(w)
        /\ pc[w] = "save_swap" => Rewording(w)

(* A request takes objects that are due.                                    *)
LEMMA BeginsDue ==
    ASSUME IInv, NEW w, Workers = {w}, NEW j, NEW rows, NEW step,
           Begin(w, j, rows, step), step \notin {"idle", "save_swap"},
           \A s \in Shifts : rows[s] # None => Due(j.op, shift[s], rows[s]),
           j.op = "approve" =>
               /\ step = "answer" /\ j.swap \in Swaps /\ swap[j.swap] # None
               /\ \A s \in Shifts : rows[s] # None =>
                     s \in {swap[j.swap].original, swap[j.swap].target}
    PROVE  DueOK'
  <1>1. /\ job'[w] = j /\ copy'[w] = rows /\ todo'[w] = {s \in Shifts : rows[s] # None}
        /\ pc'[w] = step /\ shift' = shift /\ swap' = swap
    BY DEF IInv, TypeOK, Begin, Goto, db
  <1>2. ASSUME NEW s \in todo'[w] PROVE Due(job[w].op, shift[s], copy[w][s])'
    <2>1. Due(j.op, shift[s], rows[s])
      BY <1>1
    <2> QED
      BY <1>1, <2>1
  <1>3. j.op = "approve" => Swapping(w)'
    BY <1>1 DEF Swapping
  <1> QED
    BY <1>1, <1>2, <1>3 DEF DueOK

LEMMA OneDue ==
    ASSUME IInv, NEW w, Workers = {w}, NEW s \in Shifts, NEW row, NEW op, op # "approve",
           NEW step \in {"check", "clean"},
           Begin(w, Plain(op), One(s, row), step), Due(op, shift[s], row)
    PROVE  DueOK'
  <1> DEFINE rows == One(s, row)
             j == Plain(op)
  <1>1. \A t \in Shifts : rows[t] # None => t = s /\ rows[t] = row
    BY DEF One, NoShifts
  <1>2. j.op = op
    BY DEF Plain
  <1>3. Begin(w, j, rows, step)
    OBVIOUS
  <1> HIDE DEF rows, j
  <1> QED
    BY <1>1, <1>2, <1>3, BeginsDue

(* The exchanged shifts differ from the rows by their staff.                *)
LEMMA ExchangedDue ==
    ASSUME IInv, NEW q \in Swaps, swap[q] # None, NEW s \in Shifts,
           Exchanged(swap[q])[s] # None
    PROVE  /\ Due("approve", shift[s], Exchanged(swap[q])[s])
           /\ s \in {swap[q].original, swap[q].target}
  <1> DEFINE r == swap[q]
  <1>1. /\ r.original \in Shifts /\ r.target \in Shifts \cup {None} /\ r.with \in Staff
        /\ shift[r.original] \in ShiftRow
        /\ r.target # None => shift[r.target] \in ShiftRow
    BY DEF IInv, TypeOK, Refers, SwapRow
  <1>2. ShiftRow = [staff : Staff, window : Windows, status : Statuses,
                    started : BOOLEAN, ended : BOOLEAN]
    BY DEF ShiftRow
  <1>3. /\ s \in {r.original, r.target}
        /\ \E p \in Staff : Exchanged(r)[s] = [shift[s] EXCEPT !.staff = p]
    <2>1. CASE r.target = None
      BY <1>1, <2>1 DEF Exchanged, One, NoShifts
    <2>2. CASE r.target # None
      <3>1. shift[r.target].staff \in Staff /\ shift[r.original].staff \in Staff
        BY <1>1, <1>2, <2>2
      <3> QED
        BY <1>1, <2>2, <3>1 DEF Exchanged, One, NoShifts
    <2> QED
      BY <2>1, <2>2
  <1>4. shift[s] # None
    BY <1>1, <1>3, ShiftsAssumption
  <1> QED
    BY <1>3, <1>4 DEF Due

LEMMA RequestDue ==
    ASSUME IInv, NEW w, Workers = {w}, Request(w) \/ Sweep(w), ~ Delete(w), ~ DeleteSwap(w)
    PROVE  DueOK'
  <1>1. CASE Create(w)
    <2>1. PICK s \in Shifts, p \in Staff, x \in Windows :
              /\ shift[s] = None
              /\ Begin(w, Plain("create"),
                       One(s, [staff |-> p, window |-> x, status |-> "SCHEDULED",
                               started |-> FALSE, ended |-> FALSE]), "check")
      BY <1>1 DEF Create, Fresh
    <2>2. Due("create", shift[s], [staff |-> p, window |-> x, status |-> "SCHEDULED",
                            started |-> FALSE, ended |-> FALSE])
      BY <2>1 DEF Due
    <2> QED
      BY <2>1, <2>2, OneDue
  <1>2. CASE Update(w)
    <2>1. PICK s \in Shifts, p \in Staff, x \in Windows :
              /\ shift[s] # None /\ shift[s].status = "SCHEDULED"
              /\ \/ Begin(w, Plain("update"),
                          One(s, [shift[s] EXCEPT !.staff = p, !.window = x]), "check")
                 \/ Begin(w, Plain("update"), One(s, shift[s]), "clean")
      BY <1>2 DEF Update
    <2>2. Due("update", shift[s], [shift[s] EXCEPT !.staff = p, !.window = x])
      BY <2>1 DEF Due
    <2>3. Due("update", shift[s], shift[s])
      <3>1. shift[s] \in ShiftRow
        BY <2>1 DEF IInv, TypeOK
      <3>2. /\ shift[s].staff \in Staff /\ shift[s].window \in Windows
            /\ shift[s] = [shift[s] EXCEPT !.staff = shift[s].staff,
                                          !.window = shift[s].window]
        BY <3>1 DEF ShiftRow
      <3> QED
        BY <2>1, <3>2 DEF Due
    <2> QED
      BY <2>1, <2>2, <2>3, OneDue
  <1>3. CASE ClockIn(w)
    <2>1. PICK s \in Shifts :
              /\ shift[s] # None
              /\ Begin(w, Plain("clock_in"),
                       One(s, [shift[s] EXCEPT !.status = "IN_PROGRESS",
                                               !.started = TRUE]), "clean")
      BY <1>3 DEF ClockIn
    <2>2. Due("clock_in", shift[s], [shift[s] EXCEPT !.status = "IN_PROGRESS", !.started = TRUE])
      BY <2>1 DEF Due
    <2> QED
      BY <2>1, <2>2, OneDue
  <1>4. CASE ClockOut(w)
    <2>1. PICK s \in Shifts :
              /\ shift[s] # None
              /\ Begin(w, Plain("clock_out"),
                       One(s, [shift[s] EXCEPT !.status = "COMPLETED",
                                               !.ended = TRUE]), "clean")
      BY <1>4 DEF ClockOut
    <2>2. Due("clock_out", shift[s], [shift[s] EXCEPT !.status = "COMPLETED", !.ended = TRUE])
      BY <2>1 DEF Due
    <2> QED
      BY <2>1, <2>2, OneDue
  <1>5. CASE MarkNoShow(w)
    <2>1. PICK s \in Shifts :
              /\ shift[s] # None /\ shift[s].status = "SCHEDULED"
              /\ Begin(w, Plain("mark_no_show"),
                       One(s, [shift[s] EXCEPT !.status = "NO_SHOW"]), "clean")
      BY <1>5 DEF MarkNoShow
    <2>2. Due("mark_no_show", shift[s], [shift[s] EXCEPT !.status = "NO_SHOW"])
      BY <2>1 DEF Due
    <2> QED
      BY <2>1, <2>2, OneDue
  <1>6. CASE Cancel(w)
    <2>1. PICK s \in Shifts :
              /\ shift[s] # None /\ shift[s].status \notin {"COMPLETED", "NO_SHOW"}
              /\ Begin(w, Plain("cancel"),
                       One(s, [shift[s] EXCEPT !.status = "CANCELLED"]), "clean")
      BY <1>6 DEF Cancel
    <2>2. Due("cancel", shift[s], [shift[s] EXCEPT !.status = "CANCELLED"])
      BY <2>1 DEF Due
    <2> QED
      BY <2>1, <2>2, OneDue
  <1>7. CASE Approve(w)
    <2>1. PICK q \in Swaps :
              /\ swap[q] # None
              /\ Begin(w, [op |-> "approve", swap |-> q, first |-> swap[q].original],
                       Exchanged(swap[q]), "answer")
      BY <1>7 DEF Approve
    <2> DEFINE j == [op |-> "approve", swap |-> q, first |-> swap[q].original]
               rows == Exchanged(swap[q])
    <2>2. j.op = "approve" /\ j.swap = q /\ Begin(w, j, rows, "answer")
      BY <2>1
    <2>3. \A s \in Shifts : rows[s] # None =>
              Due("approve", shift[s], rows[s]) /\ s \in {swap[q].original, swap[q].target}
      BY <2>1, ExchangedDue
    <2> HIDE DEF j, rows
    <2> QED
      BY <2>1, <2>2, <2>3, BeginsDue
  <1>8. CASE Reject(w)
    <2>1. PICK q \in Swaps :
              Begin(w, [op |-> "reject", swap |-> q, first |-> None], NoShifts, "answer")
      BY <1>8 DEF Reject
    <2> DEFINE j == [op |-> "reject", swap |-> q, first |-> None]
    <2>2. j.op = "reject" /\ Begin(w, j, NoShifts, "answer")
      BY <2>1
    <2>3. \A s \in Shifts : NoShifts[s] = None
      BY DEF NoShifts
    <2> HIDE DEF j
    <2> QED
      BY <2>2, <2>3, BeginsDue
  <1>10. CASE EditSwap(w)
    <2>1. PICK q \in Swaps, o \in Shifts, t \in Shifts \cup {None}, p \in Staff :
              /\ swap[q] # None
              /\ Begin(w, [op |-> "edit_swap", swap |-> q,
                           row |-> Reworded(swap[q], o, t, p)], NoShifts, "save_swap")
      BY <1>10 DEF EditSwap, Reworded
    <2> DEFINE row == Reworded(swap[q], o, t, p)
    <2>2. /\ swap[q] \in SwapRow /\ row \in SwapRow
          /\ row = Reworded(swap[q], row.original, row.target, row.with)
      <3>1. swap[q] \in SwapRow
        BY <2>1 DEF IInv, TypeOK
      <3>2. row \in SwapRow /\ row.original = o /\ row.target = t /\ row.with = p
        BY <3>1 DEF Reworded, SwapRow
      <3> QED
        BY <3>1, <3>2
    <2>3. /\ job'[w] = [op |-> "edit_swap", swap |-> q, row |-> row]
          /\ todo'[w] = {} /\ swap' = swap
      BY <2>1 DEF Begin, IInv, TypeOK, NoShifts, db
    <2> HIDE DEF row
    <2>4. job'[w] \in EditJob /\ job'[w].swap = q /\ job'[w].row = row
          /\ job'[w].op # "approve"
      BY <2>2, <2>3 DEF EditJob
    <2>5. Rewording(w)'
      BY <2>1, <2>2, <2>3, <2>4 DEF Rewording
    <2> QED
      BY <2>3, <2>4, <2>5 DEF DueOK
  <1>9. CASE Sweep(w)
    <2> DEFINE rows == [s \in Shifts |-> IF Missed(s)
                                         THEN [shift[s] EXCEPT !.status = "NO_SHOW"]
                                         ELSE None]
               j == Plain("sweep")
    <2>1. \A s \in Shifts : rows[s] # None => Due("sweep", shift[s], rows[s])
      BY DEF Due, Missed
    <2>2. Begin(w, j, rows, "clean") /\ j.op = "sweep"
      BY <1>9 DEF Sweep, Plain
    <2> HIDE DEF rows, j
    <2> QED
      BY <2>1, <2>2, BeginsDue
  <1> QED
    BY <1>1, <1>2, <1>3, <1>4, <1>5, <1>6, <1>7, <1>8, <1>9, <1>10 DEF Request

(* A worker that lets go of its objects, or keeps what it has, has nothing  *)
(* that is not due.                                                         *)
LEMMA DoneDue == ASSUME IInv, NEW w, Workers = {w}, Done(w) PROVE DueOK'
  BY DEF IInv, TypeOK, Done, DueOK

LEMMA DueKept ==
    ASSUME DueOK, NEW w, Workers = {w}, pc' = pc, job' = job, copy' = copy, todo' = todo,
           \A s \in todo[w] : shift'[s] = shift[s],
           (pc[w] # "idle" /\ job[w].op = "approve") \/ pc[w] = "save_swap" =>
               swap'[job[w].swap] = swap[job[w].swap]
    PROVE  DueOK'
  <1>1. ASSUME NEW s \in todo'[w] PROVE Due(job[w].op, shift[s], copy[w][s])'
    BY DEF DueOK
  <1>2. pc'[w] # "idle" /\ job'[w].op = "approve" => Swapping(w)'
    BY DEF DueOK, Swapping
  <1>3. pc'[w] = "save_swap" => Rewording(w)'
    BY DEF DueOK, Rewording
  <1> QED
    BY <1>1, <1>2, <1>3 DEF DueOK

(* Of an object that is due the save writes no more than there is to write. *)
LEMMA SavedIsDue ==
    ASSUME IInv, DueOK, NEW w \in Workers, NEW s \in todo[w]
    PROVE  Saved(w, s) = copy[w][s]
  <1>1. /\ s \in Shifts /\ job[w] \in Job
        /\ Due(job[w].op, shift[s], copy[w][s])
        /\ shift[s] # None => shift[s] \in ShiftRow
    BY DEF IInv, TypeOK, HeldOK, DueOK
  <1>2. job[w].op \in WholeRow \cup {"mark_no_show", "cancel", "approve"}
    BY <1>1 DEF Job, EditJob, AllOps, WholeRow, Due
  <1>3. CASE job[w].op \in WholeRow
    BY <1>3 DEF Saved
  <1>4. CASE job[w].op = "approve"
    BY <1>1, <1>4 DEF Due, Saved, ShiftRow, WholeRow
  <1>5. CASE job[w].op \in {"mark_no_show", "cancel"}
    BY <1>1, <1>5 DEF Due, Saved, ShiftRow, WholeRow
  <1> QED
    BY <1>2, <1>3, <1>4, <1>5

LEMMA WriteDue ==
    ASSUME IInv, DueOK, NEW w, Workers = {w}, Write(w)
    PROVE  DueOK'
  <1> DEFINE s == saving[w]
  <1>1. CASE Done(w)
    BY <1>1, DoneDue
  <1>2. CASE /\ pc[w] = "write"
             /\ shift' = [shift EXCEPT ![s] = Saved(w, s)]
             /\ todo' = [todo EXCEPT ![w] = @ \ {s}]
             /\ Goto(w, "clean")
             /\ UNCHANGED <<job, copy, swap>>
    <2>1. s \in todo[w] /\ s \in Shifts
      BY <1>2 DEF IInv, TypeOK, HeldOK
    <2>2. todo'[w] \subseteq todo[w] /\ \A t \in todo'[w] : shift'[t] = shift[t]
      BY <1>2 DEF IInv, TypeOK
    <2>3. pc'[w] = "clean"
      BY <1>2 DEF IInv, TypeOK, Goto
    <2>4. ASSUME NEW t \in todo'[w] PROVE Due(job[w].op, shift[t], copy[w][t])'
      BY <1>2, <2>2 DEF DueOK
    <2>5. job'[w].op = "approve" => Swapping(w)'
      BY <1>2, <2>2, <2>3 DEF DueOK, Swapping
    <2> QED
      BY <2>3, <2>4, <2>5 DEF DueOK
  <1> QED
    BY <1>1, <1>2 DEF Write, Fail

LEMMA ServeDue ==
    ASSUME IInv, DueOK, NEW w, Workers = {w},
           Answer(w) \/ SaveSwap(w) \/ Check(w) \/ Clean(w) \/ Crash(w)
    PROVE  DueOK'
  <1>1. CASE Done(w)
    BY <1>1, DoneDue
  <1>2. CASE ~Done(w)
    <2>1. /\ shift' = shift /\ job' = job /\ copy' = copy /\ todo' = todo
      BY <1>2 DEF Answer, SaveSwap, Check, Clean, Crash, Fail, db
    <2>2. ASSUME NEW s \in todo'[w] PROVE Due(job[w].op, shift[s], copy[w][s])'
      BY <2>1 DEF DueOK
    <2>3. ASSUME job[w].op = "approve" PROVE Swapping(w)'
      <3>1. CASE Answer(w)
        <4>1. /\ pc[w] = "answer" /\ pc'[w] = "clean" /\ swap[job[w].swap] # None
              /\ swap' = [swap EXCEPT ![job[w].swap].answer = "approve"]
          BY <1>2, <2>3, <3>1 DEF Answer, Fail, Goto, IInv, TypeOK
        <4>2. job[w].swap \in Swaps /\ swap[job[w].swap] \in SwapRow
          BY <4>1 DEF IInv, HeldOK, TypeOK
        <4>3. /\ swap'[job[w].swap] = [swap[job[w].swap] EXCEPT !.answer = "approve"]
              /\ Swapping(w)
          BY <2>3, <4>1, <4>2 DEF IInv, TypeOK, DueOK
        <4>4. /\ swap'[job[w].swap].original = swap[job[w].swap].original
              /\ swap'[job[w].swap].target = swap[job[w].swap].target
              /\ swap'[job[w].swap].answer = "approve"
              /\ swap'[job[w].swap] \in SwapRow
          BY <4>2, <4>3 DEF SwapRow
        <4>5. swap'[job[w].swap] # None
          BY <4>4, ShiftsAssumption
        <4> QED
          BY <2>1, <4>1, <4>2, <4>3, <4>4, <4>5 DEF Swapping
      <3>2. CASE Check(w)
        BY <1>2, <2>3, <3>2 DEF Check, DueOK, Swapping
      <3>3. CASE Clean(w)
        <4>1. swap' = swap /\ pc[w] = "clean" /\ pc'[w] = "write" /\ Swapping(w)
          BY <1>2, <2>3, <3>3 DEF Clean, Fail, Goto, db, IInv, TypeOK, DueOK
        <4> QED
          BY <2>1, <4>1 DEF Swapping
      <3> QED
        BY <1>2, <3>1, <3>2, <3>3 DEF Crash, SaveSwap, Fail
    <2>4. pc'[w] # "save_swap"
      BY <1>2 DEF Answer, SaveSwap, Check, Clean, Crash, Fail, Goto, IInv, TypeOK
    <2> QED
      BY <2>1, <2>2, <2>3, <2>4 DEF DueOK
  <1> QED
    BY <1>1, <1>2

LEMMA StepDue == ASSUME OneWorker, IInv, DueOK, [Next]_vars PROVE DueOK'
  <1>1. PICK w : Workers = {w}
    BY DEF OneWorker
  <1>2. CASE UNCHANGED vars
    BY <1>1, <1>2, DueKept DEF vars
  <1>3. CASE Delete(w)
    <2>1. pc[w] = "idle" /\ UNCHANGED <<pc, job, copy, todo>>
      BY <1>3 DEF Delete, mine
    <2>2. todo[w] = {}
      BY <1>1, <2>1 DEF IInv, HeldOK
    <2> QED
      BY <1>1, <2>1, <2>2, DueKept
  <1>8. CASE DeleteSwap(w)
    <2>1. pc[w] = "idle" /\ UNCHANGED <<shift, pc, job, copy, todo>>
      BY <1>8 DEF DeleteSwap, mine
    <2> QED
      BY <1>1, <2>1, DueKept
  <1>4. CASE (Request(w) \/ Sweep(w)) /\ ~ Delete(w) /\ ~ DeleteSwap(w)
    BY <1>1, <1>4, RequestDue
  <1>5. CASE Serve(w) \/ Crash(w)
    BY <1>1, <1>5, ServeDue, WriteDue DEF Serve
  <1>6. ASSUME NEW q \in Swaps, FileSwap(q) PROVE DueOK'
    <2>1. /\ UNCHANGED <<shift, pc, job, copy, todo>>
          /\ job[w] # None => job[w].swap # q
          /\ \A r \in Swaps \ {q} : swap'[r] = swap[r]
      BY <1>1, <1>6 DEF FileSwap, mine, IInv, TypeOK
    <2>2. (pc[w] # "idle" /\ job[w].op = "approve") \/ pc[w] = "save_swap" =>
              job[w] # None /\ job[w].swap \in Swaps
      BY <1>1 DEF IInv, HeldOK, DueOK, Swapping, Rewording, EditJob
    <2> QED
      BY <1>1, <2>1, <2>2, DueKept
  <1>7. CASE Tick
    BY <1>1, <1>7, DueKept DEF Tick, db, mine
  <1> QED
    BY <1>1, <1>2, <1>3, <1>4, <1>5, <1>6, <1>7, <1>8 DEF Next, Workers

-----------------------------------------------------------------------------
(* A save is the change of the roster that its request asked for.           *)
LEMMA WriteIsLegal ==
    ASSUME SerialInv, DueOK, NEW w \in Workers, Write(w)
    PROVE  Plan!Next \/ UNCHANGED <<shift, swap, now>>
  <1>1. CASE Fail(w)
    BY <1>1 DEF Fail, db
  <1>2. CASE /\ pc[w] = "write"
             /\ shift' = [shift EXCEPT ![saving[w]] = Saved(w, saving[w])]
             /\ UNCHANGED <<swap, now>>
    <2>1. PICK s \in Shifts : s = saving[w] /\ s \in todo[w]
      BY <1>2 DEF SerialInv, IInv, TypeOK, HeldOK
    <2>2. PICK c \in ShiftRow : c = copy[w][s]
      BY <2>1 DEF SerialInv, IInv, TypeOK, HeldOK
    <2>3. shift' = [shift EXCEPT ![s] = c]
      BY <1>2, <2>1, <2>2, SavedIsDue DEF SerialInv
    <2>4. ~Plan!Clash(s, c)
      BY <1>2, <2>1, <2>2
      DEF SerialInv, SavingOK, Conflict, Overlap, Active, Plan!Clash, Plan!Meet
    <2>5. \A r : c = r => Plan!Put(s, r)
      BY <1>2, <2>3, <2>4 DEF Plan!Put
    <2>6. Due(job[w].op, shift[s], c) /\ job[w] \in Job
      BY <2>1, <2>2 DEF DueOK, SerialInv, IInv, TypeOK, HeldOK
    <2>7. CASE job[w].op \in {"create", "update"}
      <3>1. Plan!Book(s) \/ Plan!Move(s)
        BY <2>5, <2>6, <2>7 DEF Due, Plan!Book, Plan!Move, Plan!Scheduled
      <3> QED
        BY <3>1 DEF Plan!Next
    <2>8. CASE job[w].op \in {"clock_in", "clock_out"}
      <3>1. Plan!ClockIn(s) \/ Plan!ClockOut(s)
        BY <2>5, <2>6, <2>8 DEF Due, Plan!ClockIn, Plan!ClockOut
      <3> QED
        BY <3>1 DEF Plan!Next
    <2>9. CASE job[w].op \in {"mark_no_show", "sweep", "cancel"}
      <3>1. Plan!Miss(s) \/ Plan!Cancel(s)
        BY <2>5, <2>6, <2>9 DEF Due, Plan!Miss, Plan!Cancel, Plan!Scheduled
      <3> QED
        BY <3>1 DEF Plan!Next
    <2>10. CASE job[w].op = "approve"
      <3>1. \E q \in Swaps : Plan!Swapped(q, s)
        BY <1>2, <2>1, <2>10 DEF DueOK, Swapping, Plan!Swapped
      <3>2. Plan!Cover(s)
        BY <2>5, <2>6, <2>10, <3>1 DEF Due, Plan!Cover
      <3> QED
        BY <3>2 DEF Plan!Next
    <2>11. job[w].op \in {"create", "update", "clock_in", "clock_out", "mark_no_show",
                          "sweep", "cancel", "approve"}
      BY <2>6 DEF Due, Job, EditJob, AllOps, WholeRow
    <2> QED
      BY <2>7, <2>8, <2>9, <2>10, <2>11
  <1> QED
    BY <1>1, <1>2 DEF Write

LEMMA StepIsLegal ==
    ASSUME OneWorker, SerialInv, DueOK, [Next]_vars
    PROVE  [Plan!Next]_(Plan!vars)
  <1>1. PICK w : Workers = {w}
    BY DEF OneWorker
  <1>2. CASE UNCHANGED vars
    BY <1>2 DEF vars, Plan!vars
  <1>3. CASE Delete(w)
    <2>1. \E s \in Shifts : Plan!Delete(s)
      BY <1>3 DEF Delete, Plan!Delete
    <2> QED
      BY <2>1 DEF Plan!Next
  <1>10. CASE DeleteSwap(w)
    <2>1. \E q \in Swaps : Plan!Withdraw(q)
      BY <1>10 DEF DeleteSwap, Plan!Withdraw
    <2> QED
      BY <2>1 DEF Plan!Next
  <1>4. CASE (Request(w) \/ Sweep(w)) /\ ~ Delete(w) /\ ~ DeleteSwap(w)
    BY <1>4 DEF Request, Create, Update, ClockIn, ClockOut, MarkNoShow, Cancel, Approve,
                Reject, EditSwap, Sweep, Begin, db, Plan!vars
  <1>11. CASE SaveSwap(w)
    <2>1. CASE Fail(w)
      BY <2>1 DEF Fail, db, Plan!vars
    <2> DEFINE j == job[w]
    <2>2. CASE /\ pc[w] = "save_swap" /\ Exist(j.row.original, j.row.target)
               /\ swap' = [swap EXCEPT ![j.swap] = j.row] /\ UNCHANGED <<shift, now>>
      <3>1. PICK q \in Swaps, row \in SwapRow : q = j.swap /\ row = j.row
        BY <1>1, <2>2 DEF SerialInv, IInv, HeldOK, EditJob
      <3>2. /\ swap[q] # None
            /\ row = Reworded(swap[q], row.original, row.target, row.with)
        BY <1>1, <2>2, <3>1 DEF DueOK, Rewording
      <3>3. row.original \in Shifts /\ row.target \in Shifts \cup {None} /\ row.with \in Staff
        BY <3>1 DEF SwapRow
      <3>4. swap' = [swap EXCEPT ![q] = row] /\ Exist(row.original, row.target)
        BY <2>2, <3>1
      <3>5. PICK o \in Shifts, t \in Shifts \cup {None}, p \in Staff :
                /\ o = row.original /\ t = row.target /\ p = row.with
        BY <3>3
      <3>6. swap' = [swap EXCEPT ![q] = Reworded(@, o, t, p)] /\ Exist(o, t)
        BY <3>2, <3>4, <3>5
      <3>7. Plan!Reword(q)
        <4>1. swap' = [swap EXCEPT ![q] =
                         [swap[q] EXCEPT !.original = o, !.target = t, !.with = p]]
          BY <3>6 DEF Reworded
        <4>2. shift[o] # None /\ (t # None => t # o /\ shift[t] # None)
          BY <3>6 DEF Exist
        <4>3. \E o2 \in Shifts, t2 \in Shifts \cup {None}, p2 \in Staff :
                 /\ shift[o2] # None
                 /\ t2 # None => t2 # o2 /\ shift[t2] # None
                 /\ swap' = [swap EXCEPT ![q] =
                       [swap[q] EXCEPT !.original = o2, !.target = t2, !.with = p2]]
          BY <4>1, <4>2
        <4> QED
          BY <2>2, <3>2, <4>3 DEF Plan!Reword
      <3> QED
        BY <3>7 DEF Plan!Next
    <2> QED
      BY <1>11, <2>1, <2>2 DEF SaveSwap
  <1>5. CASE Write(w)
    BY <1>1, <1>5, WriteIsLegal DEF Plan!vars
  <1>6. CASE Answer(w)
    <2>1. CASE Fail(w)
      BY <2>1 DEF Fail, db, Plan!vars
    <2>2. CASE /\ pc[w] = "answer" /\ swap[job[w].swap] # None
               /\ swap' = [swap EXCEPT ![job[w].swap].answer = job[w].op]
               /\ UNCHANGED <<shift, now>>
      <3>1. PICK q \in Swaps, a \in {"approve", "reject"} : q = job[w].swap /\ a = job[w].op
        BY <1>1, <2>2 DEF SerialInv, IInv, HeldOK
      <3>2. Plan!Answer(q)
        BY <2>2, <3>1 DEF Plan!Answer
      <3> QED
        BY <3>2 DEF Plan!Next
    <2> QED
      BY <1>6, <2>1, <2>2 DEF Answer
  <1>7. CASE Check(w) \/ Clean(w) \/ Crash(w)
    BY <1>7 DEF Check, Clean, Crash, Fail, db, Plan!vars
  <1>8. ASSUME NEW q \in Swaps, FileSwap(q) PROVE Plan!Next
    <2>1. Plan!File(q)
      BY <1>8 DEF FileSwap, Exist, Plan!File
    <2> QED
      BY <2>1 DEF Plan!Next
  <1>9. CASE Tick
    BY <1>9 DEF Tick, db, Plan!Tick, Plan!Next
  <1> QED
    BY <1>1, <1>2, <1>3, <1>4, <1>5, <1>6, <1>7, <1>8, <1>9, <1>10, <1>11
    DEF Next, Serve, Workers

(* With a single worker, which may die between any two of its queries, every *)
(* save is one legal step of the roster: shifts and swap requests implement *)
(* Roster, for any number of shifts, swap requests, staff and times.        *)
THEOREM OneWorkerKeepsRoster ==
    ASSUME OneWorker PROVE Spec => ImplementsRoster
  <1>1. Init => SerialInv /\ DueOK /\ Plan!Init
    <2>1. Init => NoDoubleBooking /\ SavingOK /\ DueOK
      BY DEF Init, NoDoubleBooking, SavingOK, DueOK, NoShifts
    <2> QED
      BY <2>1, InitIInv DEF SerialInv, Init, NoShifts, Plan!Init
  <1>2. SerialInv /\ DueOK /\ [Next]_vars => SerialInv' /\ DueOK' /\ [Plan!Next]_(Plan!vars)
    BY SerialStep, StepDue, StepIsLegal DEF SerialInv
  <1>3. QED
    BY <1>1, <1>2, PTL DEF Spec, ImplementsRoster, Plan!Spec
=============================================================================
