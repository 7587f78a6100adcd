-------------------------------- MODULE Roster --------------------------------
(***************************************************************************)
(* What keeping shifts and swap requests promises when requests do not       *)
(* overlap: every save is one legal change of the shift as it is, into one  *)
(* that overlaps no other shift of the staff member who then has it.  A     *)
(* shift changes hands while it is scheduled, or by a swap that has been    *)
(* approved; the sides of a swap change one after the other.                *)
(***************************************************************************)
EXTENDS Integers

CONSTANTS Shifts, Swaps, Staff, Windows, None

VARIABLES now, shift, swap

vars == <<now, shift, swap>>

Init ==
    /\ now = 0
    /\ shift = [s \in Shifts |-> None]
    /\ swap = [q \in Swaps |-> None]

Tick == now' = now + 1 /\ UNCHANGED <<shift, swap>>

Meet(x, y) == x.start < y.end /\ y.start < x.end

Clash(s, r) ==
    \E t \in Shifts \ {s} :
        /\ shift[t] # None
        /\ shift[t].status \in {"SCHEDULED", "IN_PROGRESS"}
        /\ shift[t].staff = r.staff
        /\ Meet(shift[t].window, r.window)

Put(s, r) ==
    /\ UNCHANGED <<now, swap>>
    /\ shift' = [shift EXCEPT ![s] = r]
    /\ ~Clash(s, r)

-----------------------------------------------------------------------------
Book(s) ==
    /\ shift[s] = None
    /\ \E p \in Staff, x \in Windows :
          Put(s, [staff |-> p, window |-> x, status |-> "SCHEDULED",
                  started |-> FALSE, ended |-> FALSE])

Scheduled(s) == shift[s] # None /\ shift[s].status = "SCHEDULED"

Move(s) ==
    /\ Scheduled(s)
    /\ \E p \in Staff, x \in Windows : Put(s, [shift[s] EXCEPT !.staff = p, !.window = x])

ClockIn(s) ==
    /\ shift[s] # None
    /\ Put(s, [shift[s] EXCEPT !.status = "IN_PROGRESS", !.started = TRUE])

ClockOut(s) ==
    /\ shift[s] # None
    /\ Put(s, [shift[s] EXCEPT !.status = "COMPLETED", !.ended = TRUE])

Miss(s) == Scheduled(s) /\ Put(s, [shift[s] EXCEPT !.status = "NO_SHOW"])

Cancel(s) ==
    /\ shift[s] # None
    /\ shift[s].status \notin {"COMPLETED", "NO_SHOW"}
    /\ Put(s, [shift[s] EXCEPT !.status = "CANCELLED"])

Swapped(q, s) ==
    /\ swap[q] # None
    /\ swap[q].answer = "approve"
    /\ s \in {swap[q].original, swap[q].target}

Cover(s) ==
    /\ shift[s] # None
    /\ \E q \in Swaps : Swapped(q, s)
    /\ \E p \in Staff : Put(s, [shift[s] EXCEPT !.staff = p])

(* The swap requests of a shift go with it.                                 *)
Delete(s) ==
    /\ shift[s] # None
    /\ shift' = [shift EXCEPT ![s] = None]
    /\ swap' = [q \in Swaps |->
          IF swap[q] # None /\ s \in {swap[q].original, swap[q].target}
          THEN None ELSE swap[q]]
    /\ UNCHANGED now

-----------------------------------------------------------------------------
File(q) ==
    /\ swap[q] = None
    /\ \E o \in Shifts, t \in Shifts \cup {None}, p \in Staff :
          /\ shift[o] # None
          /\ t # None => t # o /\ shift[t] # None
          /\ swap' = [swap EXCEPT ![q] = [original |-> o, target |-> t, with |-> p,
                                          status |-> "PENDING", answer |-> None]]
    /\ UNCHANGED <<now, shift>>

(* Who and what a request is about may change; its answer does not.         *)
Reword(q) ==
    /\ swap[q] # None
    /\ \E o \in Shifts, t \in Shifts \cup {None}, p \in Staff :
          /\ shift[o] # None
          /\ t # None => t # o /\ shift[t] # None
          /\ swap' = [swap EXCEPT ![q] =
                [@ EXCEPT !.original = o, !.target = t, !.with = p]]
    /\ UNCHANGED <<now, shift>>

Withdraw(q) ==
    /\ swap[q] # None
    /\ swap' = [swap EXCEPT ![q] = None]
    /\ UNCHANGED <<now, shift>>

Answer(q) ==
    /\ swap[q] # None
    /\ \E a \in {"approve", "reject"} : swap' = [swap EXCEPT ![q].answer = a]
    /\ UNCHANGED <<now, shift>>

Next ==
    \/ Tick
    \/ \E s \in Shifts :
          \/ Book(s) \/ Move(s) \/ ClockIn(s) \/ ClockOut(s)
          \/ Miss(s) \/ Cancel(s) \/ Cover(s) \/ Delete(s)
    \/ \E q \in Swaps : File(q) \/ Reword(q) \/ Withdraw(q) \/ Answer(q)

Spec == Init /\ [][Next]_vars
=============================================================================
