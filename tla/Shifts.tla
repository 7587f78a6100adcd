------------------------------- MODULE Shifts -------------------------------
(***************************************************************************)
(* Staff shifts of one cluster and the requests that swap them.             *)
(*                                                                         *)
(* Web workers serve one HTTP request at a time, Celery workers run the     *)
(* sweep that marks missed shifts.  No view opens a transaction, so every   *)
(* query sees, and every save() commits, on its own.  Shift.save() runs     *)
(* full_clean first: one query for overlapping shifts, then the UPDATE or   *)
(* INSERT of the copy the worker holds, the whole row unless update_fields  *)
(* names columns.  A failing check, here a ValidationError (NameError in    *)
(* the model, which does not import it), ends the request and keeps what    *)
(* it has saved so far.                                                     *)
(*                                                                         *)
(* A request that its first query refuses changes nothing and is left out.  *)
(***************************************************************************)
EXTENDS Integers

CONSTANTS
    Web,         \* the processes that serve HTTP requests
    Celery,      \* the processes that run the periodic sweep
    Shifts,      \* primary keys of shifts
    Swaps,       \* primary keys of swap requests
    Staff,
    Windows,     \* bound: the pairs start_time, end_time a client may send
    Ops,         \* bound: the operations that occur
    MaxTime,     \* bound: the last value of the clock
    MaxCrashes,  \* bound: how many times a worker dies
    None

Workers == Web \cup Celery

Statuses  == {"SCHEDULED", "IN_PROGRESS", "COMPLETED", "CANCELLED", "NO_SHOW"}
Active    == {"SCHEDULED", "IN_PROGRESS"}
WholeRow  == {"create", "update", "clock_in", "clock_out", "sweep"}
AllOps    == WholeRow \cup {"mark_no_show", "cancel", "approve", "reject", "delete",
                             "edit_swap", "delete_swap"}

(* started, ended: actual_start_time, actual_end_time are set.              *)
ShiftRow == [staff : Staff, window : Windows, status : Statuses,
             started : BOOLEAN, ended : BOOLEAN]

SwapRow  == [original : Shifts, target : Shifts \cup {None}, with : Staff,
             status : {"PENDING"}, answer : {"approve", "reject", None}]

(* first: the shift that a request saves before any other.  row: the swap    *)
(* request that an edit has loaded and changed.                             *)
EditJob == [op : {"edit_swap"}, swap : Swaps, row : SwapRow]
Job == [op : AllOps \ {"delete", "edit_swap", "delete_swap"},
        swap : Swaps \cup {None}, first : Shifts \cup {None}] \cup EditJob

ASSUME ShiftsAssumption ==
    /\ \A x \in Windows : x.start \in Nat /\ x.end \in Nat /\ x.start < x.end
    /\ Ops \subseteq AllOps
    /\ MaxTime \in Nat /\ MaxCrashes \in Nat
    /\ None \notin ShiftRow \cup SwapRow \cup Job \cup Shifts \cup Swaps
    /\ None \notin {"approve", "reject"}

VARIABLES
    shift,    \* the Shift rows
    swap,     \* the ShiftSwapRequest rows
    now,      \* timezone.now()
    pc,       \* what a worker does next
    job,      \* the request a worker serves
    copy,     \* the Shift objects a worker has loaded, as it changed them
    todo,     \* those it has still to save
    saving,   \* the one that it saves now
    crashes

vars == <<shift, swap, now, pc, job, copy, todo, saving, crashes>>
db   == <<shift, swap>>
mine == <<pc, job, copy, todo, saving>>

NoShifts == [s \in Shifts |-> None]

-----------------------------------------------------------------------------
Overlap(x, y) == x.start < y.end /\ y.start < x.end

(* Mutant: shifts that are in progress do not count.                        *)
ConflictScheduledOnly(s, row) ==
    \E t \in Shifts \ {s} :
        /\ shift[t] # None
        /\ shift[t].status = "SCHEDULED"
        /\ shift[t].staff = row.staff
        /\ Overlap(shift[t].window, row.window)

(* Mutant: a shift is not excluded from its own check.                      *)
ConflictWithItself(s, row) ==
    \E t \in Shifts :
        /\ shift[t] # None
        /\ shift[t].status \in Active
        /\ shift[t].staff = row.staff
        /\ Overlap(shift[t].window, row.window)

(* The query of check_conflicts and of Shift.clean, whatever row's status.  *)
Conflict(s, row) ==
    \E t \in Shifts \ {s} :
        /\ shift[t] # None
        /\ shift[t].status \in Active
        /\ shift[t].staff = row.staff
        /\ Overlap(shift[t].window, row.window)

Done(w) ==
    /\ pc' = [pc EXCEPT ![w] = "idle"]
    /\ job' = [job EXCEPT ![w] = None]
    /\ copy' = [copy EXCEPT ![w] = NoShifts]
    /\ todo' = [todo EXCEPT ![w] = {}]
    /\ saving' = [saving EXCEPT ![w] = None]

Goto(w, step) == pc' = [pc EXCEPT ![w] = step]

Plain(op) == [op |-> op, swap |-> None, first |-> None]

(* Request j with its first query: it has loaded, and changed, the rows.    *)
Begin(w, j, rows, step) ==
    /\ j.op \in Ops
    /\ pc[w] = "idle"
    /\ Goto(w, step)
    /\ job' = [job EXCEPT ![w] = j]
    /\ copy' = [copy EXCEPT ![w] = rows]
    /\ todo' = [todo EXCEPT ![w] = {s \in Shifts : rows[s] # None}]
    /\ UNCHANGED <<db, now, saving, crashes>>

One(s, row) == [NoShifts EXCEPT ![s] = row]

-----------------------------------------------------------------------------
(* The requests on a shift.                                                 *)

(* A key that no row, object or swap request has.                           *)
Fresh(s) ==
    /\ shift[s] = None
    /\ \A w \in Workers : copy[w][s] = None
    /\ \A q \in Swaps : swap[q] # None => s \notin {swap[q].original, swap[q].target}

Create(w) ==
    \E s \in Shifts, p \in Staff, x \in Windows :
        /\ Fresh(s)
        /\ x.start >= now
        /\ Begin(w, Plain("create"),
                 One(s, [staff |-> p, window |-> x, status |-> "SCHEDULED",
                         started |-> FALSE, ended |-> FALSE]), "check")

(* Mutant: the times of an update are not validated.                        *)
UpdateUnvalidated(w) ==
    \E s \in Shifts, p \in Staff, x \in Windows :
        /\ shift[s] # None
        /\ shift[s].status = "SCHEDULED"
        /\ Begin(w, Plain("update"),
                 One(s, [shift[s] EXCEPT !.staff = p,
                                         !.window = [start |-> x.end, end |-> x.start]]),
                 "check")

(* A PATCH that names neither staff nor times skips check_conflicts.        *)
Update(w) ==
    \E s \in Shifts, p \in Staff, x \in Windows :
        /\ shift[s] # None
        /\ shift[s].status = "SCHEDULED"
        /\ \/ Begin(w, Plain("update"),
                    One(s, [shift[s] EXCEPT !.staff = p, !.window = x]), "check")
           \/ Begin(w, Plain("update"), One(s, shift[s]), "clean")

(* Mutant: the status moves and actual_start_time stays null.               *)
ClockInWithoutTime(w) ==
    \E s \in Shifts :
        /\ shift[s] # None
        /\ Begin(w, Plain("clock_in"),
                 One(s, [shift[s] EXCEPT !.status = "IN_PROGRESS"]), "clean")

(* shifts.clock_in and clock_out look at no status.                         *)
ClockIn(w) ==
    \E s \in Shifts :
        /\ shift[s] # None
        /\ Begin(w, Plain("clock_in"),
                 One(s, [shift[s] EXCEPT !.status = "IN_PROGRESS",
                                         !.started = TRUE]), "clean")

ClockOut(w) ==
    \E s \in Shifts :
        /\ shift[s] # None
        /\ Begin(w, Plain("clock_out"),
                 One(s, [shift[s] EXCEPT !.status = "COMPLETED",
                                         !.ended = TRUE]), "clean")

MarkNoShow(w) ==
    \E s \in Shifts :
        /\ shift[s] # None
        /\ shift[s].status = "SCHEDULED"
        /\ Begin(w, Plain("mark_no_show"),
                 One(s, [shift[s] EXCEPT !.status = "NO_SHOW"]), "clean")

Cancel(w) ==
    \E s \in Shifts :
        /\ shift[s] # None
        /\ shift[s].status \notin {"COMPLETED", "NO_SHOW"}
        /\ Begin(w, Plain("cancel"),
                 One(s, [shift[s] EXCEPT !.status = "CANCELLED"]), "clean")

(* DELETE takes the swap requests of the shift along.                       *)
Delete(w) ==
    \E s \in Shifts :
        /\ "delete" \in Ops
        /\ pc[w] = "idle"
        /\ shift[s] # None
        /\ shift' = [shift EXCEPT ![s] = None]
        /\ swap' = [q \in Swaps |->
              IF swap[q] # None /\ s \in {swap[q].original, swap[q].target}
              THEN None ELSE swap[q]]
        /\ UNCHANGED <<now, mine, crashes>>

-----------------------------------------------------------------------------
(* Swap requests.                                                           *)

(* Foreign keys of a swap request.  A shift is not swapped with itself: that *)
(* would save its staff member back.                                        *)
Exist(o, t) == shift[o] # None /\ (t # None => t # o /\ shift[t] # None)

(* Only the admin site can store one: the view's call does not match        *)
(* create_swap_request.                                                     *)
FileSwap(q) ==
    /\ swap[q] = None
    /\ \A w \in Workers : job[w] # None => job[w].swap # q
    /\ \E o \in Shifts, t \in Shifts \cup {None}, p \in Staff :
          /\ Exist(o, t)
          /\ swap' = [swap EXCEPT ![q] =
                [original |-> o, target |-> t, with |-> p,
                 status |-> "PENDING", answer |-> None]]
    /\ UNCHANGED <<shift, now, mine, crashes>>

(* PUT or PATCH of a swap request, answered or not.                         *)
EditSwap(w) ==
    \E q \in Swaps, o \in Shifts, t \in Shifts \cup {None}, p \in Staff :
        /\ swap[q] # None
        /\ Exist(o, t)
        /\ Begin(w, [op |-> "edit_swap", swap |-> q,
                     row |-> [swap[q] EXCEPT !.original = o, !.target = t, !.with = p]],
                 NoShifts, "save_swap")

DeleteSwap(w) ==
    \E q \in Swaps :
        /\ "delete_swap" \in Ops
        /\ pc[w] = "idle"
        /\ swap[q] # None
        /\ swap' = [swap EXCEPT ![q] = None]
        /\ UNCHANGED <<shift, now, mine, crashes>>

(* The shifts of a request with their staff exchanged, or, without a target,*)
(* the original with the staff member asked to cover.                       *)
Exchanged(r) ==
    IF r.target = None
    THEN One(r.original, [shift[r.original] EXCEPT !.staff = r.with])
    ELSE [One(r.original, [shift[r.original] EXCEPT !.staff = shift[r.target].staff])
            EXCEPT ![r.target] =
               [shift[r.target] EXCEPT !.staff = shift[r.original].staff]]

Approve(w) ==
    \E q \in Swaps :
        /\ swap[q] # None
        /\ swap[q].status = "PENDING"
        /\ Begin(w, [op |-> "approve", swap |-> q, first |-> swap[q].original],
                 Exchanged(swap[q]), "answer")

Reject(w) ==
    \E q \in Swaps :
        /\ swap[q] # None
        /\ swap[q].status = "PENDING"
        /\ Begin(w, [op |-> "reject", swap |-> q, first |-> None],
                 NoShifts, "answer")

-----------------------------------------------------------------------------
(* Mutant: the query does not ask for SCHEDULED.                            *)
MissedAnyStatus(s) ==
    /\ shift[s] # None
    /\ shift[s].window.start < now
    /\ shift[s].status # "NO_SHOW"

Missed(s) ==
    /\ shift[s] # None
    /\ shift[s].window.start < now
    /\ shift[s].status = "SCHEDULED"
    /\ ~ shift[s].started

(* The query of mark_missed_shifts; the loop then changes these objects.    *)
Sweep(w) ==
    /\ \E s \in Shifts : Missed(s)
    /\ Begin(w, Plain("sweep"),
             [s \in Shifts |-> IF Missed(s)
                               THEN [shift[s] EXCEPT !.status = "NO_SHOW"]
                               ELSE None], "clean")

-----------------------------------------------------------------------------
(* The steps of a request.                                                  *)

Fail(w) == Done(w) /\ UNCHANGED <<db, now, crashes>>

(* save(update_fields=["approved_by", "approved_at", "response_message"])   *)
(* of the swap request: status is not among the columns.                    *)
Answer(w) ==
    LET q == job[w].swap
    IN  /\ pc[w] = "answer"
        /\ \/ /\ swap[q] # None
              /\ swap' = [swap EXCEPT ![q].answer = job[w].op]
              /\ \/ todo[w] # {} /\ Goto(w, "clean")
                                 /\ UNCHANGED <<job, copy, todo, saving>>
                 \/ todo[w] = {} /\ Done(w)
              /\ UNCHANGED <<shift, now, crashes>>
           \/ swap[q] = None /\ Fail(w)

(* save() of the edited object: all columns, the answer as it was loaded;   *)
(* the row is inserted when it is gone.                                     *)
SaveSwap(w) ==
    LET r == job[w].row
    IN  /\ pc[w] = "save_swap"
        /\ \/ /\ Exist(r.original, r.target)
              /\ swap' = [swap EXCEPT ![job[w].swap] = r]
              /\ Done(w)
              /\ UNCHANGED <<shift, now, crashes>>
           \/ ~ Exist(r.original, r.target) /\ Fail(w)

(* check_conflicts of the create and update views.                          *)
Check(w) ==
    /\ pc[w] = "check"
    /\ \E s \in todo[w] :
          \/ /\ ~ Conflict(s, copy[w][s])
             /\ Goto(w, "clean")
             /\ UNCHANGED <<db, now, job, copy, todo, saving, crashes>>
          \/ Conflict(s, copy[w][s]) /\ Fail(w)

(* approve saves the original first; the sweep goes by Meta.ordering, the   *)
(* latest start first.                                                      *)
Turn(w, s) ==
    /\ s \in todo[w]
    /\ job[w].first \in todo[w] => s = job[w].first
    /\ job[w].op = "sweep" =>
         \A t \in todo[w] : copy[w][t].window.start <= copy[w][s].window.start

(* full_clean of the next object to save.                                   *)
Clean(w) ==
    /\ pc[w] = "clean"
    /\ \E s \in Shifts :
          /\ Turn(w, s)
          /\ \/ /\ ~ Conflict(s, copy[w][s])
                /\ saving' = [saving EXCEPT ![w] = s]
                /\ Goto(w, "write")
                /\ UNCHANGED <<db, now, job, copy, todo, crashes>>
             \/ Conflict(s, copy[w][s]) /\ Fail(w)

(* The row that save() leaves: an UPDATE of all columns inserts a row that  *)
(* has been deleted, one of update_fields fails on it.                      *)
Saved(w, s) ==
    IF job[w].op \in WholeRow THEN copy[w][s]
    ELSE IF job[w].op = "approve" THEN [shift[s] EXCEPT !.staff = copy[w][s].staff]
    ELSE [shift[s] EXCEPT !.status = copy[w][s].status]

Write(w) ==
    LET s == saving[w]
    IN  /\ pc[w] = "write"
        /\ \/ /\ shift[s] # None \/ job[w].op \in WholeRow
              /\ shift' = [shift EXCEPT ![s] = Saved(w, s)]
              /\ \/ /\ todo[w] = {s}
                    /\ Done(w)
                 \/ /\ todo[w] # {s}
                    /\ todo' = [todo EXCEPT ![w] = @ \ {s}]
                    /\ saving' = [saving EXCEPT ![w] = None]
                    /\ Goto(w, "clean")
                    /\ UNCHANGED <<job, copy>>
              /\ UNCHANGED <<swap, now, crashes>>
           \/ /\ shift[s] = None
              /\ job[w].op \notin WholeRow
              /\ Fail(w)

(* The process dies; what it has saved stays.                               *)
Crash(w) ==
    /\ crashes < MaxCrashes
    /\ pc[w] # "idle"
    /\ crashes' = crashes + 1
    /\ Done(w)
    /\ UNCHANGED <<db, now>>

Tick ==
    /\ now < MaxTime
    /\ now' = now + 1
    /\ UNCHANGED <<db, mine, crashes>>

-----------------------------------------------------------------------------
Init ==
    /\ shift = NoShifts
    /\ swap = [q \in Swaps |-> None]
    /\ now = 0
    /\ pc = [w \in Workers |-> "idle"]
    /\ job = [w \in Workers |-> None]
    /\ copy = [w \in Workers |-> NoShifts]
    /\ todo = [w \in Workers |-> {}]
    /\ saving = [w \in Workers |-> None]
    /\ crashes = 0

Request(w) ==
    \/ Create(w) \/ Update(w) \/ ClockIn(w) \/ ClockOut(w) \/ MarkNoShow(w)
    \/ Cancel(w) \/ Delete(w) \/ Approve(w) \/ Reject(w)
    \/ EditSwap(w) \/ DeleteSwap(w)

Serve(w) == Answer(w) \/ SaveSwap(w) \/ Check(w) \/ Clean(w) \/ Write(w)

Next ==
    \/ \E w \in Web : Request(w)
    \/ \E w \in Celery : Sweep(w)
    \/ \E w \in Workers : Serve(w) \/ Crash(w)
    \/ \E q \in Swaps : FileSwap(q)
    \/ Tick

Spec == Init /\ [][Next]_vars

(* Celery beat queues the sweep every 15 minutes for the next free worker:  *)
(* strong fairness of Sweep, for workers that have loaded tasks/shift.py.   *)
(* core/common/tasks/__init__.py does not import it, and a plain worker     *)
(* refuses the task as unknown.  A request once started is served.          *)
FairSpec ==
    /\ Spec
    /\ \A w \in Workers : WF_vars(Serve(w))
    /\ \A w \in Celery : SF_vars(Sweep(w))

-----------------------------------------------------------------------------
TypeOK ==
    /\ shift \in [Shifts -> ShiftRow \cup {None}]
    /\ swap \in [Swaps -> SwapRow \cup {None}]
    /\ now \in 0 .. MaxTime
    /\ pc \in [Workers -> {"idle", "check", "answer", "save_swap", "clean", "write"}]
    /\ job \in [Workers -> Job \cup {None}]
    /\ copy \in [Workers -> [Shifts -> ShiftRow \cup {None}]]
    /\ todo \in [Workers -> SUBSET Shifts]
    /\ saving \in [Workers -> Shifts \cup {None}]
    /\ crashes \in 0 .. MaxCrashes

(* Whatever stale objects are saved over each other, a row's status and its *)
(* clock times never contradict each other: a scheduled shift has neither,  *)
(* one in progress was started, a completed one was ended.                  *)
StatusMatchesClock ==
    \A s \in Shifts : shift[s] # None =>
        /\ shift[s].status = "SCHEDULED" => ~ shift[s].started /\ ~ shift[s].ended
        /\ shift[s].status = "IN_PROGRESS" => shift[s].started
        /\ shift[s].status = "COMPLETED" => shift[s].ended

(* No staff member holds two shifts at overlapping times that are scheduled *)
(* or in progress, whichever of create, update, clock-in after cancellation *)
(* or an approved swap would bring it about.                                *)
NoDoubleBooking ==
    \A s, t \in Shifts :
        (/\ s # t /\ shift[s] # None /\ shift[t] # None
         /\ shift[s].status \in Active /\ shift[t].status \in Active
         /\ shift[s].staff = shift[t].staff)
        => ~ Overlap(shift[s].window, shift[t].window)

(* Neither the sweep nor mark_no_show turns a shift that someone has        *)
(* clocked in for into a no-show.                                           *)
AttendedIsNoNoShow ==
    [][\A s \in Shifts :
         (shift[s] # None /\ shift'[s] # None /\ shift[s].started
            /\ shift'[s].status = "NO_SHOW")
         => shift[s].status = "NO_SHOW"]_vars

(* Where the sweep is run, a shift that was missed does not stay scheduled: *)
(* the sweep, a user, or a change of its times ends that.                   *)
MissedAreSwept == \A s \in Shifts : Missed(s) ~> ~ Missed(s)

(* An answered swap request keeps its answer (approve and reject refuse     *)
(* requests that are not pending).                                          *)
AnswerIsFinal ==
    [][\A q \in Swaps :
         (swap[q] # None /\ swap'[q] # None /\ swap[q].answer # None)
         => swap'[q].answer = swap[q].answer]_vars

(* With one worker every save, the periodic sweep's and each side of a swap  *)
(* included, is one legal step of Roster: it changes the shift as it is at  *)
(* that moment, which no other shift of its staff member then overlaps.     *)
Plan == INSTANCE Roster
ImplementsRoster == Plan!Spec
=============================================================================
