------------------------------ MODULE GuestList ------------------------------
(***************************************************************************)
(* What keeping visitors and invitations promises, free of workers and their *)
(* copies: a request decides and changes a row in one step.  A change may    *)
(* outdate what others are about to save, a whole row or a revocation: only *)
(* then is a row overwritten, or revoked although it is not active.  Even    *)
(* an outdated revocation changes nothing but the status and who revoked.   *)
(***************************************************************************)
EXTENDS Integers

CONSTANTS Visitors, Invitations, Asked, AskedVisit, Days, None

VARIABLES today, visit, row, outdated

vars == <<today, visit, row, outdated>>

Columns == {"all", "revocation"}

Status == {"PENDING", "APPROVED", "REJECTED", "CHECKED_IN", "CHECKED_OUT", "EXPIRED"}

Inside == {"CHECKED_IN", "CHECKED_OUT"}

Invitation == [visitor : Visitors, status : {"ACTIVE", "REVOKED", "EXPIRED", "COMPLETED"},
               revoked : BOOLEAN, start : Days, end : Days]

Init ==
    /\ today = 0
    /\ visit = [v \in Visitors |-> None]
    /\ row = [i \in Invitations |-> None]
    /\ outdated = {}

Tick == today' = today + 1 /\ UNCHANGED <<visit, row, outdated>>

Forget == outdated' \subseteq outdated /\ UNCHANGED <<today, visit, row>>

(* A primary key is new: nobody is about to save a row that had it.         *)
New(k) == \A c \in Columns : <<k, c>> \notin outdated

(* A change of the rows keys may outdate what others are about to save.     *)
Changed(keys) == outdated' \subseteq outdated \cup keys \X Columns /\ UNCHANGED today

-----------------------------------------------------------------------------
PutVisitor(v, s) ==
    /\ visit' = [visit EXCEPT ![v] = [status |-> s]]
    /\ Changed({v})
    /\ UNCHANGED row

Announce(v) ==
    /\ visit[v] = None
    /\ New(v)
    /\ PutVisitor(v, "PENDING")

Check(v) == visit[v] # None /\ \E s \in Inside : PutVisitor(v, s)

Edit(v) == visit[v] # None /\ \E s \in AskedVisit \cup {visit[v].status} : PutVisitor(v, s)

Reject(v) ==
    /\ visit[v] # None
    /\ visit[v].status \notin Inside
    /\ PutVisitor(v, "REJECTED")

OverwriteVisitor(v) == <<v, "all">> \in outdated /\ \E s \in Status : PutVisitor(v, s)

(* The invitations of a visitor go with him.                                *)
Dismiss(v) ==
    LET his == {i \in Invitations : row[i] # None /\ row[i].visitor = v} IN
        /\ visit[v] # None
        /\ visit' = [visit EXCEPT ![v] = None]
        /\ row' = [i \in Invitations |-> IF i \in his THEN None ELSE row[i]]
        /\ Changed({v} \cup his)

-----------------------------------------------------------------------------
Put(i, r) ==
    /\ row' = [row EXCEPT ![i] = r]
    /\ Changed({i})
    /\ UNCHANGED visit

Invite(i) ==
    /\ row[i] = None
    /\ New(i)
    /\ \E v \in Visitors, b \in Days, e \in Days :
          /\ visit[v] # None
          /\ b <= e
          /\ Put(i, [visitor |-> v, status |-> "ACTIVE", revoked |-> FALSE,
                     start |-> b, end |-> e])

(* An end that is moved is compared with the start.                         *)
Amend(i) ==
    /\ row[i] # None
    /\ \E s \in Asked \cup {row[i].status}, b \in Days, e \in Days :
          /\ b <= e \/ e = row[i].end
          /\ Put(i, [row[i] EXCEPT !.status = s, !.start = b, !.end = e])

Revoke(i) ==
    /\ row[i] # None
    /\ row[i].status = "ACTIVE" \/ <<i, "revocation">> \in outdated
    /\ Put(i, [row[i] EXCEPT !.status = "REVOKED", !.revoked = TRUE])

Overwrite(i) ==
    /\ <<i, "all">> \in outdated
    /\ \E r \in Invitation : visit[r.visitor] # None /\ Put(i, r)

Withdraw(i) == row[i] # None /\ Put(i, None)

(* All that is over expires at once.                                        *)
Expire ==
    LET over == {i \in Invitations :
                    row[i] # None /\ row[i].status = "ACTIVE" /\ row[i].end < today}
    IN  /\ row' = [i \in Invitations |->
                      IF i \in over THEN [row[i] EXCEPT !.status = "EXPIRED"] ELSE row[i]]
        /\ Changed(over)
        /\ UNCHANGED visit

-----------------------------------------------------------------------------
Next ==
    \/ Tick \/ Forget \/ Expire
    \/ \E v \in Visitors :
          \/ Announce(v) \/ Check(v) \/ Edit(v) \/ Reject(v)
          \/ OverwriteVisitor(v) \/ Dismiss(v)
    \/ \E i \in Invitations :
          Invite(i) \/ Amend(i) \/ Revoke(i) \/ Overwrite(i) \/ Withdraw(i)

Spec == Init /\ [][Next]_vars
=============================================================================
