--------------------------- MODULE MaintenanceBook ---------------------------
(***************************************************************************)
(* What keeping maintenance logs promises, free of workers, copies and the  *)
(* two halves of a save: a request changes the log as it is, and stamps and *)
(* times it, in one step.  Someone who does not know of the latest change   *)
(* of a log (outdated) may overwrite it, and only he.                       *)
(***************************************************************************)
EXTENDS Integers

CONSTANTS Logs, Statuses, Durations, None

VARIABLES now, row, outdated

vars == <<now, row, outdated>>

Initial == "pending"

Log == [status : Statuses \cup {Initial}, started : Nat \cup {None},
        completed : Nat \cup {None}, duration : Int \cup {None}]

Init ==
    /\ now = 0
    /\ row = [l \in Logs |-> None]
    /\ outdated = {}

Tick == now' = now + 1 /\ UNCHANGED <<row, outdated>>

(* A primary key is new: nobody holds a copy of a log that had it.          *)
Create(l) ==
    /\ row[l] = None
    /\ l \notin outdated
    /\ row' = [row EXCEPT ![l] = [status |-> Initial, started |-> None,
                                  completed |-> None, duration |-> None]]
    /\ UNCHANGED <<now, outdated>>

(* The stamp of a status, given at time t when the status is entered for    *)
(* the first time.                                                          *)
Stamp(old, new, status, stamp, t) ==
    IF new = status /\ old # status /\ stamp = None THEN t ELSE stamp

(* The log old once its status is set to s and its duration to d: the       *)
(* duration counts only while a stamp is missing.                           *)
Saved(old, s, d, t) ==
    LET started   == Stamp(old.status, s, "IN_PROGRESS", old.started, t)
        completed == Stamp(old.status, s, "COMPLETED", old.completed, t)
    IN  [status |-> s, started |-> started, completed |-> completed,
         duration |-> IF started # None /\ completed # None
                      THEN completed - started ELSE d]

(* A change of l may leave others with a copy that is outdated.             *)
Changed(l) == outdated' \subseteq outdated \cup {l} /\ UNCHANGED now

Save(l) ==
    /\ row[l] # None
    /\ \E s \in Statuses \cup {row[l].status}, d \in Durations \cup {row[l].duration},
          t \in 0..now :
              row' = [row EXCEPT ![l] = Saved(row[l], s, d, t)]
    /\ Changed(l)

Delete(l) ==
    /\ row[l] # None
    /\ row' = [row EXCEPT ![l] = None]
    /\ Changed(l)

(* What overwrites a log, or brings a deleted one back, agrees with itself. *)
Overwrite(l) ==
    /\ l \in outdated
    /\ row' = [row EXCEPT ![l] = row'[l]]
    /\ row'[l] \in Log
    /\ row'[l].started # None /\ row'[l].completed # None
          => row'[l].duration = row'[l].completed - row'[l].started
    /\ Changed(l)

Forget == outdated' \subseteq outdated /\ UNCHANGED <<now, row>>

Next ==
    \/ Tick
    \/ Forget
    \/ \E l \in Logs : Create(l) \/ Save(l) \/ Delete(l) \/ Overwrite(l)

Spec == Init /\ [][Next]_vars
=============================================================================
