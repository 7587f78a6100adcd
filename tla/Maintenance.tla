----------------------------- MODULE Maintenance -----------------------------
(***************************************************************************)
(* Maintenance logs: the status that staff set with PATCH and PUT, and the  *)
(* stamps and the duration that MaintenanceLog.save derives from it.        *)
(*                                                                         *)
(* A request loads a log, changes some fields of its copy, and saves every  *)
(* column.  The save first reads the row again, only to see whether the     *)
(* status changes; requests and deletions of other workers come in before   *)
(* and after that read.  An UPDATE that finds no row turns into an INSERT.  *)
(*                                                                         *)
(* Left out: columns without a rule (texts, cost, dates, the people         *)
(* assigned), is_under_warranty, which every save derives from a date       *)
(* alone, schedules, which no operation relates to logs, and the            *)
(* attachments, comments and costs of a log, which nothing creates.         *)
(***************************************************************************)
EXTENDS Integers

CONSTANTS
    Workers,     \* web workers, each serves one request at a time
    Logs,        \* primary keys
    Statuses,    \* the statuses that requests ask for
    Durations,   \* the durations that requests ask for
    MaxTime,     \* bound: the clock stops there
    None

Initial == "pending"

Log == [status : Statuses \cup {Initial}, started : Nat \cup {None},
        completed : Nat \cup {None}, duration : Int \cup {None}]

Job == [on : Logs, at : {"read", "write"}]

ASSUME MaintenanceAssumption ==
    /\ Statuses \subseteq {"SCHEDULED", "IN_PROGRESS", "COMPLETED", "CANCELLED", "POSTPONED"}
    /\ Durations \subseteq Int
    /\ MaxTime \in Nat
    /\ None \notin Int \cup Log \cup Job

VARIABLES
    now,       \* the clock
    row,       \* the MaintenanceLog rows
    job,       \* the log a worker saves, and how far it is
    copy,      \* the instance it saves
    stale,     \* history: workers whose log was saved or deleted after they loaded it
    raced,     \* history: logs saved by a stale worker
    deleted,   \* history: logs that have been deleted
    pending    \* history: logs deleted when a save had read them already

history == <<stale, raced, deleted, pending>>
vars == <<now, row, job, copy, history>>

-----------------------------------------------------------------------------
Tick ==
    /\ now < MaxTime
    /\ now' = now + 1
    /\ UNCHANGED <<row, job, copy, history>>

Forget(w) ==
    /\ job' = [job EXCEPT ![w] = None]
    /\ copy' = [copy EXCEPT ![w] = None]

(* w has saved l: the others that serve a request on l hold an outdated copy. *)
Outdate(l, w) ==
    stale' = (stale \ {w}) \cup {v \in Workers \ {w} : job[v] # None /\ job[v].on = l}

(* A primary key is new: no request still works on a log that had it.       *)
Create ==
    \E l \in Logs :
        /\ row[l] = None
        /\ \A w \in Workers : job[w] # None => job[w].on # l
        /\ row' = [row EXCEPT ![l] = [status |-> Initial, started |-> None,
                                      completed |-> None, duration |-> None]]
        /\ raced' = raced \ {l}
        /\ deleted' = deleted \ {l}
        /\ pending' = pending \ {l}
        /\ UNCHANGED <<now, job, copy, stale>>

(* A PATCH or PUT of status and duration; an assignment changes neither.    *)
Load(w) ==
    \E l \in Logs :
        /\ job[w] = None
        /\ row[l] # None
        /\ \E s \in Statuses \cup {row[l].status}, d \in Durations \cup {row[l].duration} :
              copy' = [copy EXCEPT ![w] = [row[l] EXCEPT !.status = s, !.duration = d]]
        /\ job' = [job EXCEPT ![w] = [on |-> l, at |-> "read"]]
        /\ UNCHANGED <<now, row, history>>

-----------------------------------------------------------------------------
(* Mutant: work is stamped as starting at the end of the day.               *)
StampedAhead(old, c, t) ==
    IF old = c.status THEN c
    ELSE IF c.status = "IN_PROGRESS" /\ c.started = None THEN [c EXCEPT !.started = t + 1]
    ELSE IF c.status = "COMPLETED" /\ c.completed = None THEN [c EXCEPT !.completed = t]
    ELSE c

(* Mutant: every start is stamped, not only the first.                      *)
StampedAgain(old, c, t) ==
    IF old = c.status THEN c
    ELSE IF c.status = "IN_PROGRESS" THEN [c EXCEPT !.started = t]
    ELSE IF c.status = "COMPLETED" /\ c.completed = None THEN [c EXCEPT !.completed = t]
    ELSE c

(* Mutant: a log is completed only from IN_PROGRESS.                        *)
StampedInOrder(old, c, t) ==
    IF old = c.status THEN c
    ELSE IF c.status = "IN_PROGRESS" /\ c.started = None THEN [c EXCEPT !.started = t]
    ELSE IF c.status = "COMPLETED" /\ c.completed = None /\ c.started # None
         THEN [c EXCEPT !.completed = t]
    ELSE c

(* The copy c once the status of its row, old, has been looked at.          *)
Stamped(old, c, t) ==
    IF old = c.status THEN c
    ELSE IF c.status = "IN_PROGRESS" /\ c.started = None THEN [c EXCEPT !.started = t]
    ELSE IF c.status = "COMPLETED" /\ c.completed = None THEN [c EXCEPT !.completed = t]
    ELSE c

(* Mutant: the duration is computed when it is not known yet.               *)
TimedOnce(c) ==
    IF c.started # None /\ c.completed # None /\ c.duration = None
    THEN [c EXCEPT !.duration = c.completed - c.started] ELSE c

Timed(c) ==
    IF c.started # None /\ c.completed # None
    THEN [c EXCEPT !.duration = c.completed - c.started] ELSE c

(* Mutant: a row that is gone is taken for one whose status is the same.    *)
ReadBlindly(w) ==
    /\ job[w] # None
    /\ job[w].at = "read"
    /\ LET old == IF row[job[w].on] = None THEN copy[w].status ELSE row[job[w].on].status
       IN  copy' = [copy EXCEPT ![w] = Timed(Stamped(old, copy[w], now))]
    /\ job' = [job EXCEPT ![w].at = "write"]
    /\ UNCHANGED <<now, row, history>>

(* The first half of save; DoesNotExist ends the request.                   *)
Read(w) ==
    /\ job[w] # None
    /\ job[w].at = "read"
    /\ \/ /\ row[job[w].on] = None
          /\ Forget(w)
          /\ stale' = stale \ {w}
          /\ UNCHANGED <<raced, deleted, pending>>
       \/ /\ row[job[w].on] # None
          /\ copy' = [copy EXCEPT ![w] = Timed(Stamped(row[job[w].on].status, copy[w], now))]
          /\ job' = [job EXCEPT ![w].at = "write"]
          /\ UNCHANGED history
    /\ UNCHANGED <<now, row>>

(* The second half: UPDATE, or INSERT when there is no row to update.       *)
Write(w) ==
    /\ job[w] # None
    /\ job[w].at = "write"
    /\ row' = [row EXCEPT ![job[w].on] = copy[w]]
    /\ raced' = IF w \in stale THEN raced \cup {job[w].on} ELSE raced
    /\ Outdate(job[w].on, w)
    /\ Forget(w)
    /\ UNCHANGED <<now, deleted, pending>>

Delete ==
    \E l \in Logs :
        /\ row[l] # None
        /\ row' = [row EXCEPT ![l] = None]
        /\ stale' = stale \cup {w \in Workers : job[w] # None /\ job[w].on = l}
        /\ deleted' = deleted \cup {l}
        /\ pending' = IF [on |-> l, at |-> "write"] \in {job[w] : w \in Workers}
                      THEN pending \cup {l} ELSE pending
        /\ UNCHANGED <<now, job, copy, raced>>

Die(w) ==
    /\ job[w] # None
    /\ Forget(w)
    /\ stale' = stale \ {w}
    /\ UNCHANGED <<now, row, raced, deleted, pending>>

-----------------------------------------------------------------------------
Init ==
    /\ now = 0
    /\ row = [l \in Logs |-> None]
    /\ job = [w \in Workers |-> None]
    /\ copy = [w \in Workers |-> None]
    /\ stale = {}
    /\ raced = {}
    /\ deleted = {}
    /\ pending = {}

Next ==
    \/ Tick
    \/ Create
    \/ Delete
    \/ \E w \in Workers : Load(w) \/ Read(w) \/ Write(w) \/ Die(w)

Spec == Init /\ [][Next]_vars

-----------------------------------------------------------------------------
(* Every variable has its type, and no stamp lies in the future.            *)
TypeOK ==
    LET Stamps == 0..now \cup {None}
        Sound(c) == c \in Log /\ c.started \in Stamps /\ c.completed \in Stamps
    IN  /\ now \in 0..MaxTime
        /\ row \in [Logs -> Log \cup {None}]
        /\ job \in [Workers -> Job \cup {None}]
        /\ copy \in [Workers -> Log \cup {None}]
        /\ \A l \in Logs : row[l] # None => Sound(row[l])
        /\ \A w \in Workers : copy[w] # None => Sound(copy[w])
        /\ stale \subseteq Workers
        /\ raced \subseteq Logs /\ deleted \subseteq Logs /\ pending \subseteq Logs

(* The duration of a log with both stamps is the time between them, whatever *)
(* the requests wrote into the field and however their saves overlapped.    *)
DurationAgrees ==
    \A l \in Logs :
        row[l] # None /\ row[l].started # None /\ row[l].completed # None
            => row[l].duration = row[l].completed - row[l].started

(* A log that is being worked on has a start and a completed one an end,    *)
(* unless it was saved from an outdated copy: the read before the save sees *)
(* a status that another request set, and the stamp is not in the copy.     *)
StatusIsStamped ==
    \A l \in Logs : row[l] # None /\ l \notin raced =>
        /\ row[l].status = "IN_PROGRESS" => row[l].started # None
        /\ row[l].status = "COMPLETED" => row[l].completed # None

(* The first start and the first completion of a log are kept however often *)
(* it is reopened, unless it is saved from an outdated copy.                *)
StampsAreKept ==
    [][\A l \in Logs : row[l] # None /\ row'[l] # None /\ l \notin raced' =>
        /\ row[l].started # None => row'[l].started = row[l].started
        /\ row[l].completed # None => row'[l].completed = row[l].completed]_vars

(* A deleted log does not come back, unless it was deleted while a request   *)
(* was between the two halves of its save.                                  *)
DeletedStaysDeleted ==
    \A l \in deleted : row[l] # None => l \in pending

(* While nobody holds an outdated copy of a log, each change of it is one   *)
(* atomic step of MaintenanceBook: a save stamps and times the row as it is *)
(* although it reads, computes and writes at three different times.         *)
Book == INSTANCE MaintenanceBook
            WITH outdated <- {job[w].on : w \in stale}
ImplementsBook == Book!Spec
=============================================================================
