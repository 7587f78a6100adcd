-------------------------------- MODULE Visits --------------------------------
(***************************************************************************)
(* Visitors, who are announced by residents and checked in and out at the   *)
(* gate, and the invitations of each visitor, which residents and managers  *)
(* revoke and a daily task lets expire.                                     *)
(*                                                                         *)
(* A request decides on the row it has loaded and saves it later.  Only the *)
(* manager's revocation writes some columns; every other request writes     *)
(* all of them, and inserts the row again when it is gone.                  *)
(*                                                                         *)
(* Left out: requests that a status refuses, which change nothing; visitor  *)
(* logs, which have requests of their own that edit and delete them and     *)
(* which no decision reads; access codes; the rules of recurrence, which    *)
(* no task applies; and the overstay task, which only notifies.             *)
(***************************************************************************)
EXTENDS Integers

CONSTANTS
    Workers,      \* web workers, each serves one request at a time
    Visitors,     \* primary keys
    Invitations,  \* primary keys
    Asked,        \* the statuses that updates of an invitation ask for
    AskedVisit,   \* the statuses that updates of a visitor ask for
    MaxDay,       \* bound: the last day that is looked at
    None

Days == 0..MaxDay

InvitationStatuses == {"ACTIVE", "REVOKED", "EXPIRED", "COMPLETED"}
VisitorStatuses ==
    {"PENDING", "APPROVED", "REJECTED", "CHECKED_IN", "CHECKED_OUT", "EXPIRED"}

Visitor == [status : VisitorStatuses]

(* revoked: revoked_by, revoked_at and the reason are there.                *)
Invitation == [visitor : Visitors, status : InvitationStatuses, revoked : BOOLEAN,
               start : Days, end : Days]

(* columns: what is saved; status, start: what an update sets by itself.    *)
Job == [on : Visitors \cup Invitations, columns : {"all", "revocation"},
        status : BOOLEAN, start : BOOLEAN]

ASSUME VisitsAssumption ==
    /\ Visitors \cap Invitations = {}
    /\ Asked \subseteq InvitationStatuses /\ AskedVisit \subseteq VisitorStatuses
    /\ MaxDay \in Nat
    /\ None \notin Invitation \cup Visitor \cup Job \cup Days

VARIABLES
    today,
    visit,     \* the Visitor rows
    row,       \* the Invitation rows
    job,       \* the request a worker serves
    copy,      \* the instance it saves
    stale,     \* history: workers whose row was saved or deleted after they loaded it
    patched,   \* history: invitations whose status an update has set
    shifted    \* history: invitations whose start was moved without their end

history == <<patched, shifted>>
vars == <<today, visit, row, job, copy, stale, history>>

-----------------------------------------------------------------------------
Tick ==
    /\ today < MaxDay
    /\ today' = today + 1
    /\ UNCHANGED <<visit, row, job, copy, stale, history>>

Holders(keys) == {w \in Workers : job[w] # None /\ job[w].on \in keys}

Forget(w) ==
    /\ job' = [job EXCEPT ![w] = None]
    /\ copy' = [copy EXCEPT ![w] = None]

(* A primary key is new: no request still works on a row that had it.       *)
Renew(k) ==
    /\ Holders({k}) = {}
    /\ patched' = patched \ {k}
    /\ shifted' = shifted \ {k}

CreateVisitor ==
    \E v \in Visitors :
        /\ visit[v] = None
        /\ \A w \in Holders(Invitations) : copy[w].visitor # v
        /\ visit' = [visit EXCEPT ![v] = [status |-> "PENDING"]]
        /\ Renew(v)
        /\ UNCHANGED <<today, row, job, copy, stale>>

CreateInvitation ==
    \E i \in Invitations, v \in Visitors, b \in Days, e \in Days :
        /\ row[i] = None
        /\ visit[v] # None
        /\ b <= e
        /\ row' = [row EXCEPT ![i] = [visitor |-> v, status |-> "ACTIVE",
                                      revoked |-> FALSE, start |-> b, end |-> e]]
        /\ Renew(i)
        /\ UNCHANGED <<today, visit, job, copy, stale>>

(* A worker has loaded the row k and will save c.                           *)
Load(w, k, c, columns, status, start) ==
    /\ job[w] = None
    /\ job' = [job EXCEPT ![w] = [on |-> k, columns |-> columns,
                                  status |-> status, start |-> start]]
    /\ copy' = [copy EXCEPT ![w] = c]
    /\ UNCHANGED <<today, visit, row, stale, history>>

-----------------------------------------------------------------------------
(* A resident revokes with a whole save, a manager with update_fields.      *)
Revoke(w) ==
    \E i \in Invitations, columns \in {"all", "revocation"} :
        /\ row[i] # None
        /\ row[i].status = "ACTIVE"
        /\ Load(w, i, [row[i] EXCEPT !.status = "REVOKED", !.revoked = TRUE],
                columns, FALSE, FALSE)

(* Mutant: dates are compared only when both are given.                     *)
ValidPairs(c, b, e) == b # None /\ e # None => b <= e

(* The dates b and e of an update, each of which may be missing.            *)
ValidDates(c, b, e) == e # None => e >= IF b # None THEN b ELSE c.start

UpdateInvitation(w) ==
    \E i \in Invitations, b \in Days \cup {None}, e \in Days \cup {None} :
        /\ row[i] # None
        /\ ValidDates(row[i], b, e)
        /\ \E s \in Asked \cup {row[i].status} :
              Load(w, i, [row[i] EXCEPT !.status = s,
                                        !.start = IF b = None THEN @ ELSE b,
                                        !.end = IF e = None THEN @ ELSE e],
                   "all", s # row[i].status, b # None /\ e = None)

(* Mutant: a manager's revocation does not save who revoked.                *)
SavedStatus(now, c, columns) ==
    IF columns = "all" THEN c ELSE [now EXCEPT !.status = c.status]

(* Mutant: a manager's revocation saves every column.                       *)
SavedWhole(now, c, columns) == c

(* What becomes of the row now when these columns of c are saved.           *)
Saved(now, c, columns) ==
    IF columns = "all" THEN c
    ELSE [now EXCEPT !.status = c.status, !.revoked = c.revoked]

(* The row of a worker is written; the others that hold it are outdated.    *)
Settle(w) ==
    LET k == job[w].on IN
        /\ stale' = (stale \cup Holders({k})) \ {w}
        /\ Forget(w)

(* A save of all columns inserts a row that is gone.                        *)
SaveInvitation(w) ==
    /\ job[w] # None
    /\ LET i == job[w].on  columns == job[w].columns IN
        /\ i \in Invitations
        /\ visit[copy[w].visitor] # None
        /\ row[i] # None \/ columns = "all"
        /\ row' = [row EXCEPT ![i] = Saved(row[i], copy[w], columns)]
        /\ patched' = IF job[w].status THEN patched \cup {i} ELSE patched
        /\ shifted' = IF job[w].start THEN shifted \cup {i} ELSE shifted
    /\ Settle(w)
    /\ UNCHANGED <<today, visit>>

(* A request ends without a save: the worker dies, or the database refuses  *)
(* an insert without a visitor or an update_fields without a row.           *)
Abandon(w) ==
    /\ job[w] # None
    /\ Forget(w)
    /\ stale' = stale \ {w}
    /\ UNCHANGED <<today, visit, row, history>>

DeleteInvitation ==
    \E i \in Invitations :
        /\ row[i] # None
        /\ row' = [row EXCEPT ![i] = None]
        /\ stale' = stale \cup Holders({i})
        /\ UNCHANGED <<today, visit, job, copy, history>>

(* Mutant: the task leaves out what has once been revoked.                  *)
OverdueUnrevoked(i) ==
    /\ row[i] # None
    /\ row[i].status = "ACTIVE"
    /\ ~row[i].revoked
    /\ row[i].end < today

(* Mutant: the task looks at the date alone.                                *)
OverdueByDate(i) == row[i] # None /\ row[i].status # "EXPIRED" /\ row[i].end < today

(* The filter of the task.                                                  *)
Overdue(i) == row[i] # None /\ row[i].status = "ACTIVE" /\ row[i].end < today

(* update_invitation_statuses, one UPDATE of all rows.                      *)
Expire ==
    LET due == {i \in Invitations : Overdue(i)} IN
        /\ due # {}
        /\ row' = [i \in Invitations |->
                      IF i \in due THEN [row[i] EXCEPT !.status = "EXPIRED"] ELSE row[i]]
        /\ stale' = stale \cup Holders(due)
        /\ UNCHANGED <<today, visit, job, copy, history>>

-----------------------------------------------------------------------------
(* check_in and check_out of a manager ask nothing of the visitor.          *)
Check(w) ==
    \E v \in Visitors, s \in {"CHECKED_IN", "CHECKED_OUT"} :
        /\ visit[v] # None
        /\ Load(w, v, [status |-> s], "all", FALSE, FALSE)

UpdateVisitor(w) ==
    \E v \in Visitors :
        /\ visit[v] # None
        /\ \E s \in AskedVisit \cup {visit[v].status} :
              Load(w, v, [status |-> s], "all", s # visit[v].status, FALSE)

(* Mutant: only visitors who are inside cannot be rejected.                 *)
RejectableOutside(status) == status # "CHECKED_IN"

Rejectable(status) == status \notin {"CHECKED_IN", "CHECKED_OUT"}

(* revoke_invitation of a resident.                                         *)
Reject(w) ==
    \E v \in Visitors :
        /\ visit[v] # None
        /\ Rejectable(visit[v].status)
        /\ Load(w, v, [status |-> "REJECTED"], "all", FALSE, FALSE)

SaveVisitor(w) ==
    /\ job[w] # None
    /\ job[w].on \in Visitors
    /\ visit' = [visit EXCEPT ![job[w].on] = copy[w]]
    /\ Settle(w)
    /\ UNCHANGED <<today, row, history>>

(* Mutant: the invitations of a visitor are left behind.                    *)
CascadeNothing(v) == row' = row

(* Mutant: the foreign key is set to null.                                  *)
CascadeNull(v) ==
    row' = [i \in Invitations |->
               IF row[i] # None /\ row[i].visitor = v THEN [row[i] EXCEPT !.visitor = None]
               ELSE row[i]]

Cascade(v) ==
    row' = [i \in Invitations |->
               IF row[i] # None /\ row[i].visitor = v THEN None ELSE row[i]]

DeleteVisitor ==
    \E v \in Visitors :
        /\ visit[v] # None
        /\ visit' = [visit EXCEPT ![v] = None]
        /\ Cascade(v)
        /\ stale' = stale \cup Holders({v} \cup {i \in Invitations : row'[i] # row[i]})
        /\ UNCHANGED <<today, job, copy, history>>

-----------------------------------------------------------------------------
Init ==
    /\ today = 0
    /\ visit = [v \in Visitors |-> None]
    /\ row = [i \in Invitations |-> None]
    /\ job = [w \in Workers |-> None]
    /\ copy = [w \in Workers |-> None]
    /\ stale = {}
    /\ patched = {}
    /\ shifted = {}

Requests(w) ==
    \/ Revoke(w) \/ UpdateInvitation(w) \/ SaveInvitation(w)
    \/ Check(w) \/ UpdateVisitor(w) \/ Reject(w) \/ SaveVisitor(w)
    \/ Abandon(w)

Next ==
    \/ Tick \/ Expire
    \/ CreateVisitor \/ DeleteVisitor
    \/ CreateInvitation \/ DeleteInvitation
    \/ \E w \in Workers : Requests(w)

(* Celery beat queues the task every day.  That it is run presumes a worker *)
(* that has loaded the module of the task: core/common/tasks/__init__.py    *)
(* does not import it, and a plain worker refuses the task as unknown.      *)
(* Nothing else is sure to happen.                                          *)
Spec == Init /\ [][Next]_vars /\ WF_vars(Expire)

-----------------------------------------------------------------------------
(* Every variable has its type: an invitation always has a visitor, and a    *)
(* worker holds a copy of the kind that its request is about.               *)
TypeOK ==
    /\ today \in Days
    /\ visit \in [Visitors -> Visitor \cup {None}]
    /\ row \in [Invitations -> Invitation \cup {None}]
    /\ job \in [Workers -> Job \cup {None}]
    /\ copy \in [Workers -> Invitation \cup Visitor \cup {None}]
    /\ \A w \in Workers : job[w] # None =>
          copy[w] \in IF job[w].on \in Visitors THEN Visitor ELSE Invitation
    /\ stale \subseteq Workers
    /\ patched \subseteq Invitations
    /\ shifted \subseteq Invitations

(* The visitor of an invitation exists, also when a save that was loaded    *)
(* before the visitor was deleted inserts the invitation again.             *)
NoOrphans == \A i \in Invitations : row[i] # None => visit[row[i].visitor] # None

(* Who revoked is on record exactly for the invitations that are revoked,   *)
(* whatever revocations, updates of other fields and the task overwrite of  *)
(* each other, until an update sets the status by hand.                     *)
RevokedIsTraced ==
    \A i \in Invitations : row[i] # None /\ i \notin patched =>
        (row[i].status = "REVOKED" <=> row[i].revoked)

(* No invitation ends before it starts, unless its start was once moved     *)
(* without its end, which validate does not compare.                        *)
DatesInOrder ==
    \A i \in Invitations : row[i] # None /\ i \notin shifted => row[i].start <= row[i].end

(* In this step the row k is saved by a request that sets its status by     *)
(* hand, or that loaded it before it was last saved.                        *)
Excused(k) ==
    \E w \in Holders({k}) : job'[w] = None /\ (w \in stale \/ job[w].status)

(* A revocation is taken back by no other step, the task included, nor does *)
(* the task touch what is revoked.                                          *)
RevocationIsFinal ==
    [][\A i \in Invitations :
        row[i] # None /\ row[i].status = "REVOKED" /\ row'[i] # None /\ ~Excused(i)
            => row'[i].status = "REVOKED"]_vars

(* A visitor who is or was inside is rejected by no other step: a resident's *)
(* request does it only when it was loaded before the check-in.             *)
NotRejectedInside ==
    [][\A v \in Visitors :
        /\ visit[v] # None /\ visit[v].status \in {"CHECKED_IN", "CHECKED_OUT"}
        /\ visit'[v] # None /\ ~Excused(v)
        => visit'[v].status # "REJECTED"]_vars

(* Where the daily task is run, an active invitation whose end has passed   *)
(* does not stay active, also one that was activated again or that an       *)
(* outdated save brought back.                                              *)
OverdueExpire ==
    \A i \in Invitations :
        row[i] # None /\ row[i].status = "ACTIVE" /\ row[i].end < today
            ~> row[i] = None \/ row[i].status # "ACTIVE" \/ row[i].end >= today

(* While nobody holds an outdated copy of a row, each request on it is one   *)
(* atomic step of GuestList, although it decides and saves at different     *)
(* times; and a manager's revocation leaves the dates that others have set  *)
(* alone even when it is outdated.                                          *)
List == INSTANCE GuestList
            WITH outdated <- {<<job[w].on, job[w].columns>> : w \in stale}
ImplementsList == List!Spec
=============================================================================
