----------------------------- MODULE VisitsProofs -----------------------------
(***************************************************************************)
(* Safety of Visits for every number of workers, visitors and invitations.  *)
(* A save writes what was loaded earlier, so the inductive invariant says   *)
(* of each copy in flight what the properties say of the rows (Held), and   *)
(* of the copies of rows that nobody has saved since that they respect the  *)
(* revocation or the check-in of their row (Fresh).                         *)
(***************************************************************************)
EXTENDS Visits, TLAPS

Traced(c) == c.status = "REVOKED" <=> c.revoked

Ordered(c) == c.start <= c.end

Inside(c) == c.status \in {"CHECKED_IN", "CHECKED_OUT"}

Held ==
    \A w \in Workers : job[w] # None /\ job[w].on \in Invitations =>
        /\ job[w].on \notin patched /\ ~job[w].status => Traced(copy[w])
        /\ job[w].on \notin shifted /\ ~job[w].start => Ordered(copy[w])

Fresh ==
    \A w \in Workers : job[w] # None /\ w \notin stale /\ ~job[w].status =>
        /\ job[w].on \in Invitations /\ row[job[w].on].status = "REVOKED"
               => copy[w].status = "REVOKED"
        /\ job[w].on \in Visitors /\ Inside(visit[job[w].on])
               => copy[w].status # "REJECTED"

IInv ==
    /\ TypeOK /\ NoOrphans /\ RevokedIsTraced /\ DatesInOrder
    /\ Held /\ Fresh

-----------------------------------------------------------------------------
(* The type invariant, put for the jobs and their copies one by one.        *)
LEMMA Typed ==
    ASSUME TypeOK, NEW w \in Workers, job[w] # None
    PROVE  /\ job[w] \in Job
           /\ job[w].on \in Visitors \/ job[w].on \in Invitations
           /\ job[w].on \in Visitors => copy[w] \in Visitor
           /\ job[w].on \in Invitations => copy[w] \in Invitation
  BY VisitsAssumption DEF TypeOK, Job

(* Rows that keep their value keep the copies of workers fresh.             *)
LEMMA FreshKept ==
    ASSUME Fresh,
           \A w \in Workers : job'[w] # None /\ w \notin stale' =>
               /\ job'[w] = job[w] /\ copy'[w] = copy[w] /\ w \notin stale
               /\ job[w].on \in Invitations => row'[job[w].on] = row[job[w].on]
               /\ job[w].on \in Visitors => visit'[job[w].on] = visit[job[w].on]
    PROVE  Fresh'
  BY DEF Fresh, Inside

(* Copies stay good while no history forgets about their row.               *)
LEMMA HeldKept ==
    ASSUME Held,
           \A w \in Workers : job'[w] # None =>
               /\ job'[w] = job[w] /\ copy'[w] = copy[w]
               /\ job[w].on \in patched => job[w].on \in patched'
               /\ job[w].on \in shifted => job[w].on \in shifted'
    PROVE  Held'
  BY DEF Held, Traced, Ordered

LEMMA InitIInv == Init => IInv
  BY VisitsAssumption
  DEF Init, IInv, TypeOK, Days, NoOrphans, RevokedIsTraced, DatesInOrder, Held, Fresh

LEMMA TickIInv == IInv /\ Tick => IInv'
  <1> SUFFICES ASSUME IInv, Tick PROVE IInv'
    OBVIOUS
  <1>1. today' \in Days
    BY VisitsAssumption DEF Tick, IInv, TypeOK, Days
  <1>2. TypeOK'
    BY <1>1 DEF Tick, history, IInv, TypeOK
  <1>3. QED
    BY <1>2, HeldKept, FreshKept
    DEF Tick, history, IInv, NoOrphans, RevokedIsTraced, DatesInOrder

LEMMA CreateVisitorIInv == IInv /\ CreateVisitor => IInv'
  <1> SUFFICES ASSUME IInv, NEW v \in Visitors, visit[v] = None,
                      visit' = [visit EXCEPT ![v] = [status |-> "PENDING"]],
                      Renew(v), UNCHANGED <<today, row, job, copy, stale>>
               PROVE  IInv'
    BY DEF CreateVisitor
  <1>1. [status |-> "PENDING"] \in Visitor /\ [status |-> "PENDING"] # None
    BY VisitsAssumption DEF Visitor, VisitorStatuses
  <1>2. /\ patched' = patched /\ shifted' = shifted
        /\ \A w \in Workers : job[w] # None => job[w].on # v
    BY VisitsAssumption DEF Renew, Holders, IInv, TypeOK
  <1>3. TypeOK'
    BY <1>1, <1>2 DEF IInv, TypeOK
  <1>4. NoOrphans'
    BY <1>1 DEF IInv, TypeOK, NoOrphans
  <1>5. RevokedIsTraced' /\ DatesInOrder' /\ Held'
    BY <1>2, HeldKept DEF IInv, RevokedIsTraced, DatesInOrder
  <1>6. Fresh'
    BY <1>2, FreshKept DEF IInv, TypeOK
  <1>7. QED
    BY <1>3, <1>4, <1>5, <1>6 DEF IInv

LEMMA CreateInvitationIInv == IInv /\ CreateInvitation => IInv'
  <1> SUFFICES ASSUME IInv, NEW i \in Invitations, NEW v \in Visitors,
                      NEW b \in Days, NEW e \in Days,
                      row[i] = None, visit[v] # None, b <= e,
                      row' = [row EXCEPT ![i] = 
                          [visitor |-> v, status |-> "ACTIVE", revoked |-> FALSE,
                           start |-> b, end |-> e]],
                      Renew(i), UNCHANGED <<today, visit, job, copy, stale>>
               PROVE  IInv'
    BY DEF CreateInvitation
  <1> DEFINE new == [visitor |-> v, status |-> "ACTIVE", revoked |-> FALSE,
                     start |-> b, end |-> e]
  <1>1. new \in Invitation /\ new.visitor = v /\ Ordered(new) /\ Traced(new)
    BY DEF Invitation, InvitationStatuses, Ordered, Traced
  <1> HIDE DEF new
  <1>2. /\ row' = [row EXCEPT ![i] = new]
        /\ \A j \in Invitations : row'[j] = IF j = i THEN new ELSE row[j]
    BY DEF new, IInv, TypeOK
  <1>3. /\ patched' = patched \ {i} /\ shifted' = shifted \ {i}
        /\ \A w \in Workers : job[w] # None => job[w].on # i
    BY DEF Renew, Holders
  <1>4. TypeOK'
    BY <1>1, <1>2, <1>3 DEF IInv, TypeOK
  <1>5. NoOrphans'
    BY <1>1, <1>2 DEF IInv, NoOrphans
  <1>6. RevokedIsTraced'
    BY <1>1, <1>2, <1>3 DEF IInv, RevokedIsTraced, Traced
  <1>7. DatesInOrder'
    BY <1>1, <1>2, <1>3 DEF IInv, DatesInOrder, Ordered
  <1>8. Held'
    BY <1>3, HeldKept DEF IInv
  <1>9. Fresh'
    BY <1>2, <1>3, FreshKept DEF IInv
  <1>10. QED
    BY <1>4, <1>5, <1>6, <1>7, <1>8, <1>9 DEF IInv

-----------------------------------------------------------------------------
(* A worker takes a copy that respects the row it was loaded from.          *)
LEMMA LoadIInv ==
    ASSUME IInv, NEW w \in Workers, NEW k \in Visitors \cup Invitations, NEW c,
           NEW columns \in {"all", "revocation"}, NEW status \in BOOLEAN,
           NEW start \in BOOLEAN, Load(w, k, c, columns, status, start),
           k \in Visitors => c \in Visitor,
           k \in Invitations =>
               /\ c \in Invitation
               /\ k \notin patched /\ ~status => Traced(c)
               /\ k \notin shifted /\ ~start => Ordered(c)
               /\ row[k].status = "REVOKED" /\ ~status => c.status = "REVOKED",
           k \in Visitors /\ Inside(visit[k]) /\ ~status => c.status # "REJECTED"
    PROVE  IInv'
  <1> DEFINE j == [on |-> k, columns |-> columns, status |-> status, start |-> start]
  <1>1. /\ j \in Job /\ j # None /\ j.on = k /\ (j.status <=> status) /\ (j.start <=> start)
        /\ job' = [job EXCEPT ![w] = j]
    BY VisitsAssumption DEF Job, Load
  <1> HIDE DEF j
  <1>2. /\ \A u \in Workers : job'[u] = IF u = w THEN j ELSE job[u]
        /\ \A u \in Workers : copy'[u] = IF u = w THEN c ELSE copy[u]
        /\ copy' = [copy EXCEPT ![w] = c]
        /\ today' = today /\ visit' = visit /\ row' = row /\ stale' = stale
        /\ patched' = patched /\ shifted' = shifted
    BY <1>1 DEF Load, history, IInv, TypeOK
  <1>3. TypeOK'
    <2>1. /\ job' \in [Workers -> Job \cup {None}]
          /\ copy' \in [Workers -> Invitation \cup Visitor \cup {None}]
      BY <1>1, <1>2, VisitsAssumption DEF IInv, TypeOK
    <2>2. \A u \in Workers : job'[u] # None =>
              copy'[u] \in IF job'[u].on \in Visitors THEN Visitor ELSE Invitation
      BY <1>1, <1>2, VisitsAssumption DEF IInv, TypeOK
    <2>3. QED
      BY <1>2, <2>1, <2>2 DEF IInv, TypeOK
  <1>4. NoOrphans' /\ RevokedIsTraced' /\ DatesInOrder'
    BY <1>2 DEF IInv, NoOrphans, RevokedIsTraced, DatesInOrder
  <1>5. Held'
    <2>1. SUFFICES ASSUME NEW u \in Workers, job'[u] # None, job'[u].on \in Invitations
                   PROVE  /\ job'[u].on \notin patched' /\ ~job'[u].status
                                 => Traced(copy'[u])
                          /\ job'[u].on \notin shifted' /\ ~job'[u].start
                                 => Ordered(copy'[u])
      BY DEF Held, Traced, Ordered
    <2>2. CASE u = w
      <3>1. job'[u] = j /\ copy'[u] = c
        BY <1>2, <2>2
      <3>2. QED
        BY <1>1, <1>2, <2>1, <3>1
    <2>3. CASE u # w
      BY <1>2, <2>1, <2>3 DEF IInv, Held
    <2>4. QED
      BY <2>2, <2>3
  <1>6. Fresh'
    <2>1. SUFFICES ASSUME NEW u \in Workers, job'[u] # None, u \notin stale',
                          ~job'[u].status
                   PROVE  /\ job'[u].on \in Invitations
                                 /\ row[job'[u].on].status = "REVOKED"
                                 => copy'[u].status = "REVOKED"
                          /\ job'[u].on \in Visitors /\ Inside(visit[job'[u].on])
                                 => copy'[u].status # "REJECTED"
      BY <1>2 DEF Fresh, Inside
    <2>2. CASE u = w
      <3>1. job'[u] = j /\ copy'[u] = c
        BY <1>2, <2>2
      <3>2. QED
        BY <1>1, <2>1, <3>1
    <2>3. CASE u # w
      BY <1>2, <2>1, <2>3 DEF IInv, Fresh
    <2>4. QED
      BY <2>2, <2>3
  <1>7. QED
    BY <1>3, <1>4, <1>5, <1>6 DEF IInv

(* Each request that loads a row takes such a copy.                         *)
LEMMA RequestIInv ==
    ASSUME IInv, NEW w \in Workers,
           Revoke(w) \/ UpdateInvitation(w) \/ Check(w) \/ UpdateVisitor(w) \/ Reject(w)
    PROVE  IInv'
  <1>1. CASE Revoke(w)
    <2>1. PICK i \in Invitations, columns \in {"all", "revocation"} :
              /\ row[i] # None
              /\ Load(w, i, [row[i] EXCEPT !.status = "REVOKED", !.revoked = TRUE],
                      columns, FALSE, FALSE)
      BY <1>1 DEF Revoke
    <2> DEFINE c == [row[i] EXCEPT !.status = "REVOKED", !.revoked = TRUE]
    <2>2. row[i] \in Invitation
      BY <2>1 DEF IInv, TypeOK
    <2>3. /\ c \in Invitation /\ Traced(c) /\ c.status = "REVOKED"
          /\ c.start = row[i].start /\ c.end = row[i].end
      BY <2>2 DEF Invitation, InvitationStatuses, Traced
    <2>4. i \notin shifted => Ordered(c)
      BY <2>1, <2>3 DEF IInv, DatesInOrder, Ordered
    <2> HIDE DEF c
    <2>5. Load(w, i, c, columns, FALSE, FALSE) /\ i \notin Visitors
      BY <2>1, VisitsAssumption DEF c
    <2>6. QED
      BY <2>3, <2>4, <2>5, LoadIInv
  <1>2. CASE UpdateInvitation(w)
    <2>1. PICK i \in Invitations, b \in Days \cup {None}, e \in Days \cup {None} :
              /\ row[i] # None
              /\ ValidDates(row[i], b, e)
              /\ \E s \in Asked \cup {row[i].status} :
                    Load(w, i, [row[i] EXCEPT !.status = s,
                                              !.start = IF b = None THEN @ ELSE b,
                                              !.end = IF e = None THEN @ ELSE e],
                         "all", s # row[i].status, b # None /\ e = None)
      BY <1>2 DEF UpdateInvitation
    <2>2. row[i] \in Invitation
      BY <2>1 DEF IInv, TypeOK
    <2> DEFINE B == IF b = None THEN row[i].start ELSE b
               E == IF e = None THEN row[i].end ELSE e
    <2>3. B \in Days /\ E \in Days
      BY <2>2 DEF Invitation
    <2>4. i \notin shifted /\ ~(b # None /\ e = None) => B <= E
      <3>1. CASE e = None /\ b = None
        BY <2>1, <3>1 DEF IInv, DatesInOrder
      <3>2. CASE e # None
        BY <2>1, <2>3, <3>2 DEF ValidDates, Days
      <3>3. QED
        BY <3>1, <3>2
    <2>5. PICK s \in Asked \cup {row[i].status} :
              Load(w, i, [row[i] EXCEPT !.status = s, !.start = B, !.end = E],
                   "all", s # row[i].status, b # None /\ e = None)
      BY <2>1
    <2> DEFINE c == [row[i] EXCEPT !.status = s, !.start = B, !.end = E]
    <2> HIDE DEF B, E
    <2>6. /\ c \in Invitation /\ c.status = s /\ c.revoked = row[i].revoked
          /\ c.start = B /\ c.end = E
      BY <2>2, <2>3, VisitsAssumption DEF Invitation
    <2>7. /\ i \notin shifted /\ ~(b # None /\ e = None) => Ordered(c)
          /\ s = row[i].status /\ i \notin patched => Traced(c)
      BY <2>1, <2>4, <2>6 DEF Ordered, Traced, IInv, RevokedIsTraced
    <2> HIDE DEF c
    <2>8. Load(w, i, c, "all", s # row[i].status, b # None /\ e = None) /\ i \notin Visitors
      BY <2>5, VisitsAssumption DEF c
    <2>9. QED
      BY <2>6, <2>7, <2>8, LoadIInv
  <1>3. ASSUME NEW v \in Visitors, NEW s \in VisitorStatuses, NEW status \in BOOLEAN,
               Load(w, v, [status |-> s], "all", status, FALSE),
               Inside(visit[v]) /\ ~status => s # "REJECTED"
        PROVE  IInv'
    <2>1. [status |-> s] \in Visitor /\ v \notin Invitations
      BY VisitsAssumption DEF Visitor
    <2>2. QED
      BY <1>3, <2>1, LoadIInv
  <1>4. CASE Check(w)
    <2>1. PICK v \in Visitors, s \in {"CHECKED_IN", "CHECKED_OUT"} :
              Load(w, v, [status |-> s], "all", FALSE, FALSE)
      BY <1>4 DEF Check
    <2>2. QED
      BY <1>3, <2>1 DEF VisitorStatuses
  <1>5. CASE UpdateVisitor(w)
    <2>1. PICK v \in Visitors :
              /\ visit[v] # None
              /\ \E s \in AskedVisit \cup {visit[v].status} :
                    Load(w, v, [status |-> s], "all", s # visit[v].status, FALSE)
      BY <1>5 DEF UpdateVisitor
    <2>2. PICK s \in AskedVisit \cup {visit[v].status} :
              Load(w, v, [status |-> s], "all", s # visit[v].status, FALSE)
      BY <2>1
    <2>3. s \in VisitorStatuses
      BY <2>1, VisitsAssumption DEF IInv, TypeOK, Visitor
    <2>4. Inside(visit[v]) /\ ~(s # visit[v].status) => s # "REJECTED"
      BY DEF Inside
    <2>5. QED
      BY <1>3, <2>2, <2>3, <2>4
  <1>6. CASE Reject(w)
    <2>1. PICK v \in Visitors :
              /\ Rejectable(visit[v].status)
              /\ Load(w, v, [status |-> "REJECTED"], "all", FALSE, FALSE)
      BY <1>6 DEF Reject
    <2>2. ~Inside(visit[v])
      BY <2>1 DEF Rejectable, Inside
    <2>3. QED
      BY <1>3, <2>1, <2>2 DEF VisitorStatuses
  <1>7. QED
    BY <1>1, <1>2, <1>4, <1>5, <1>6

-----------------------------------------------------------------------------
LEMMA SaveInvitationIInv == ASSUME IInv, NEW w \in Workers, SaveInvitation(w) PROVE IInv'
  <1> DEFINE i == job[w].on
             c == copy[w]
             new == Saved(row[i], c, job[w].columns)
  <1>1. /\ job[w] # None /\ i \in Invitations
        /\ visit[c.visitor] # None
        /\ row[i] # None \/ job[w].columns = "all"
        /\ row' = [row EXCEPT ![i] = new]
        /\ patched' = IF job[w].status THEN patched \cup {i} ELSE patched
        /\ shifted' = IF job[w].start THEN shifted \cup {i} ELSE shifted
        /\ stale' = (stale \cup Holders({i})) \ {w}
        /\ Forget(w)
        /\ UNCHANGED <<today, visit>>
    BY DEF SaveInvitation, Settle
  <1>2. c \in Invitation /\ job[w] \in Job
    BY <1>1, Typed DEF IInv
  <1>3. /\ i \notin patched' => Traced(c)
        /\ i \notin shifted' => Ordered(c)
    BY <1>1 DEF IInv, Held
  <1>4. /\ new \in Invitation
        /\ visit[new.visitor] # None
        /\ i \notin patched' => Traced(new)
        /\ i \notin shifted' => Ordered(new)
    <2>1. CASE job[w].columns = "all"
      BY <1>1, <1>2, <1>3, <2>1 DEF Saved
    <2>2. CASE job[w].columns # "all"
      <3>1. row[i] \in Invitation /\ row[i] # None
        BY <1>1, <2>2 DEF IInv, TypeOK
      <3>2. new = [row[i] EXCEPT !.status = c.status, !.revoked = c.revoked]
        BY <2>2 DEF Saved
      <3>3. /\ new \in Invitation /\ new.visitor = row[i].visitor
            /\ new.status = c.status /\ new.revoked = c.revoked
            /\ new.start = row[i].start /\ new.end = row[i].end
        BY <1>2, <3>1, <3>2 DEF Invitation
      <3>4. i \notin shifted' => i \notin shifted
        BY <1>1
      <3>5. QED
        BY <1>1, <1>3, <3>1, <3>3, <3>4
        DEF IInv, NoOrphans, DatesInOrder, Ordered, Traced
    <2>3. QED
      BY <2>1, <2>2
  <1> HIDE DEF i, c, new
  <1>5. /\ \A k \in Invitations : row'[k] = IF k = i THEN new ELSE row[k]
        /\ \A u \in Workers : job'[u] = IF u = w THEN None ELSE job[u]
        /\ \A u \in Workers : copy'[u] = IF u = w THEN None ELSE copy[u]
        /\ patched \subseteq patched' /\ shifted \subseteq shifted'
        /\ visit' = visit
    BY <1>1 DEF Forget, IInv, TypeOK
  <1>6. TypeOK'
    <2>1. row' \in [Invitations -> Invitation \cup {None}]
      BY <1>1, <1>4 DEF IInv, TypeOK
    <2>2. /\ job' \in [Workers -> Job \cup {None}]
          /\ copy' \in [Workers -> Invitation \cup Visitor \cup {None}]
      BY <1>1 DEF Forget, IInv, TypeOK
    <2>3. \A u \in Workers : job'[u] # None =>
              copy'[u] \in IF job'[u].on \in Visitors THEN Visitor ELSE Invitation
      BY <1>5 DEF IInv, TypeOK
    <2>4. /\ stale' \subseteq Workers
          /\ patched' \subseteq Invitations /\ shifted' \subseteq Invitations
      BY <1>1 DEF Holders, IInv, TypeOK
    <2>5. QED
      BY <1>1, <2>1, <2>2, <2>3, <2>4 DEF IInv, TypeOK
  <1>7. NoOrphans'
    BY <1>4, <1>5 DEF IInv, NoOrphans
  <1>8. RevokedIsTraced'
    BY <1>4, <1>5 DEF IInv, RevokedIsTraced, Traced
  <1>9. DatesInOrder'
    BY <1>4, <1>5 DEF IInv, DatesInOrder, Ordered
  <1>10. Held'
    BY <1>5, HeldKept DEF IInv
  <1>11. Fresh'
    <2>1. ASSUME NEW u \in Workers, job'[u] # None, u \notin stale'
          PROVE  /\ job'[u] = job[u] /\ copy'[u] = copy[u] /\ u \notin stale
                 /\ job[u].on # i
      BY <1>1, <1>5, <2>1 DEF Holders
    <2>2. QED
      BY <1>5, <2>1, FreshKept DEF IInv
  <1>12. QED
    BY <1>6, <1>7, <1>8, <1>9, <1>10, <1>11 DEF IInv

LEMMA SaveVisitorIInv == ASSUME IInv, NEW w \in Workers, SaveVisitor(w) PROVE IInv'
  <1> DEFINE v == job[w].on
             c == copy[w]
  <1>1. /\ job[w] # None /\ v \in Visitors
        /\ visit' = [visit EXCEPT ![v] = c]
        /\ stale' = (stale \cup Holders({v})) \ {w}
        /\ Forget(w)
        /\ UNCHANGED <<today, row, patched, shifted>>
    BY DEF SaveVisitor, Settle, history
  <1>2. c \in Visitor /\ c # None
    BY <1>1, Typed, VisitsAssumption DEF IInv
  <1> HIDE DEF v, c
  <1>3. /\ \A k \in Visitors : visit'[k] = IF k = v THEN c ELSE visit[k]
        /\ \A u \in Workers : job'[u] = IF u = w THEN None ELSE job[u]
        /\ \A u \in Workers : copy'[u] = IF u = w THEN None ELSE copy[u]
    BY <1>1 DEF Forget, IInv, TypeOK
  <1>4. TypeOK'
    <2>1. visit' \in [Visitors -> Visitor \cup {None}]
      BY <1>1, <1>2 DEF IInv, TypeOK
    <2>2. /\ job' \in [Workers -> Job \cup {None}]
          /\ copy' \in [Workers -> Invitation \cup Visitor \cup {None}]
      BY <1>1 DEF Forget, IInv, TypeOK
    <2>3. \A u \in Workers : job'[u] # None =>
              copy'[u] \in IF job'[u].on \in Visitors THEN Visitor ELSE Invitation
      BY <1>3 DEF IInv, TypeOK
    <2>4. stale' \subseteq Workers
      BY <1>1 DEF Holders, IInv, TypeOK
    <2>5. QED
      BY <1>1, <2>1, <2>2, <2>3, <2>4 DEF IInv, TypeOK
  <1>5. NoOrphans'
    BY <1>1, <1>2, <1>3 DEF IInv, TypeOK, NoOrphans, Invitation
  <1>6. RevokedIsTraced' /\ DatesInOrder' /\ Held'
    BY <1>1, <1>3, HeldKept DEF IInv, RevokedIsTraced, DatesInOrder
  <1>7. Fresh'
    <2>1. ASSUME NEW u \in Workers, job'[u] # None, u \notin stale'
          PROVE  /\ job'[u] = job[u] /\ copy'[u] = copy[u] /\ u \notin stale
                 /\ job[u].on # v
      BY <1>1, <1>3, <2>1 DEF Holders
    <2>2. QED
      BY <1>1, <1>3, <2>1, FreshKept DEF IInv
  <1>8. QED
    BY <1>4, <1>5, <1>6, <1>7 DEF IInv

LEMMA AbandonIInv == ASSUME IInv, NEW w \in Workers, Abandon(w) PROVE IInv'
  <1>1. /\ \A u \in Workers : job'[u] = IF u = w THEN None ELSE job[u]
        /\ \A u \in Workers : copy'[u] = IF u = w THEN None ELSE copy[u]
    BY DEF Abandon, Forget, IInv, TypeOK
  <1>2. TypeOK'
    <2>1. \A u \in Workers : job'[u] # None =>
              copy'[u] \in IF job'[u].on \in Visitors THEN Visitor ELSE Invitation
      BY <1>1 DEF IInv, TypeOK
    <2>2. QED
      BY <2>1 DEF Abandon, Forget, history, IInv, TypeOK
  <1>3. NoOrphans' /\ RevokedIsTraced' /\ DatesInOrder'
    BY DEF Abandon, history, IInv, NoOrphans, RevokedIsTraced, DatesInOrder
  <1>4. Held' /\ Fresh'
    BY <1>1, HeldKept, FreshKept DEF Abandon, history, IInv
  <1>5. QED
    BY <1>2, <1>3, <1>4 DEF IInv

(* Invitations vanish or keep their visitor, dates and trace; those that    *)
(* change have no fresh copies left.                                        *)
LEMMA RowsIInv ==
    ASSUME IInv,
           TypeOK',
           \A v \in Visitors : visit'[v] = visit[v]
               \/ /\ visit'[v] = None
                  /\ Holders({v}) \subseteq stale'
                  /\ \A i \in Invitations : row'[i] # None => row'[i].visitor # v,
           \A i \in Invitations : row'[i] = row[i]
               \/ /\ Holders({i}) \subseteq stale'
                  /\ row'[i] # None =>
                       /\ row[i] # None
                       /\ row'[i].visitor = row[i].visitor
                       /\ row'[i].start = row[i].start /\ row'[i].end = row[i].end
                       /\ row[i].status = "ACTIVE" /\ row'[i].status = "EXPIRED"
                       /\ row'[i].revoked = row[i].revoked,
           stale \subseteq stale',
           UNCHANGED <<job, copy, history>>
    PROVE  IInv'
  <1>1. NoOrphans'
    <2>1. SUFFICES ASSUME NEW i \in Invitations, row'[i] # None
                   PROVE  visit'[row'[i].visitor] # None
      BY DEF NoOrphans
    <2>2. row[i] # None /\ row'[i].visitor = row[i].visitor
      BY <2>1
    <2>3. row[i].visitor \in Visitors
      BY <2>2 DEF IInv, TypeOK, Invitation
    <2>4. visit[row[i].visitor] # None
      BY <2>2 DEF IInv, NoOrphans
    <2>5. visit'[row[i].visitor] = visit[row[i].visitor]
      BY <2>1, <2>2, <2>3
    <2>6. QED
      BY <2>2, <2>4, <2>5
  <1>2. RevokedIsTraced' /\ DatesInOrder'
    <2>1. SUFFICES ASSUME NEW i \in Invitations, row'[i] # None
                   PROVE  /\ i \notin patched => Traced(row'[i])
                          /\ i \notin shifted => Ordered(row'[i])
      BY DEF history, RevokedIsTraced, DatesInOrder, Traced, Ordered
    <2>2. /\ row[i] # None /\ row'[i].start = row[i].start /\ row'[i].end = row[i].end
          /\ row'[i].revoked = row[i].revoked
          /\ row'[i].status = row[i].status
                \/ (row[i].status = "ACTIVE" /\ row'[i].status = "EXPIRED")
      BY <2>1
    <2>3. /\ i \notin patched => Traced(row[i])
          /\ i \notin shifted => Ordered(row[i])
      BY <2>2 DEF IInv, RevokedIsTraced, DatesInOrder, Traced, Ordered
    <2>4. i \notin shifted => Ordered(row'[i])
      BY <2>2, <2>3 DEF Ordered
    <2>5. row'[i].status = "REVOKED" <=> row[i].status = "REVOKED"
      BY <2>2
    <2>6. row'[i].revoked <=> row[i].revoked
      BY <2>2
    <2>7. i \notin patched => Traced(row'[i])
      BY <2>3, <2>5, <2>6 DEF Traced
    <2>8. QED
      BY <2>4, <2>7
  <1>3. Held'
    BY HeldKept DEF history, IInv
  <1>4. Fresh'
    <2>1. ASSUME NEW w \in Workers, job'[w] # None, w \notin stale'
          PROVE  /\ job'[w] = job[w] /\ copy'[w] = copy[w] /\ w \notin stale
                 /\ job[w].on \in Invitations => row'[job[w].on] = row[job[w].on]
                 /\ job[w].on \in Visitors => visit'[job[w].on] = visit[job[w].on]
      BY <2>1 DEF Holders
    <2>2. QED
      BY <2>1, FreshKept DEF IInv
  <1>5. QED
    BY <1>1, <1>2, <1>3, <1>4 DEF IInv

LEMMA DeleteInvitationIInv == IInv /\ DeleteInvitation => IInv'
  <1> SUFFICES ASSUME IInv, NEW i \in Invitations, row' = [row EXCEPT ![i] = None],
                      stale' = stale \cup Holders({i}),
                      UNCHANGED <<today, visit, job, copy, history>>
               PROVE  IInv'
    BY DEF DeleteInvitation
  <1>1. TypeOK'
    BY DEF history, Holders, IInv, TypeOK
  <1>2. \A k \in Invitations : row'[k] = IF k = i THEN None ELSE row[k]
    BY DEF IInv, TypeOK
  <1>3. QED
    BY <1>1, <1>2, RowsIInv

LEMMA ExpireIInv == IInv /\ Expire => IInv'
  <1> SUFFICES ASSUME IInv, Expire PROVE IInv'
    OBVIOUS
  <1> DEFINE due == {i \in Invitations : Overdue(i)}
  <1>1. /\ row' = [i \in Invitations |->
                      IF i \in due THEN [row[i] EXCEPT !.status = "EXPIRED"] ELSE row[i]]
        /\ stale' = stale \cup Holders(due)
        /\ UNCHANGED <<today, visit, job, copy, history>>
    BY DEF Expire
  <1>2. ASSUME NEW i \in due
        PROVE  /\ row[i] # None /\ row[i] \in Invitation /\ row[i].status = "ACTIVE"
               /\ row'[i] = [row[i] EXCEPT !.status = "EXPIRED"]
               /\ Holders({i}) \subseteq stale'
    BY <1>1, <1>2 DEF Overdue, Holders, IInv, TypeOK
  <1>3. ASSUME NEW i \in due
        PROVE  /\ row'[i] \in Invitation /\ row'[i].status = "EXPIRED"
               /\ row'[i].visitor = row[i].visitor /\ row'[i].revoked = row[i].revoked
               /\ row'[i].start = row[i].start /\ row'[i].end = row[i].end
    BY <1>2, <1>3 DEF Invitation, InvitationStatuses
  <1>4. ASSUME NEW i \in Invitations, i \notin due PROVE row'[i] = row[i]
    BY <1>1, <1>4
  <1>5. TypeOK'
    <2>1. row' \in [Invitations -> Invitation \cup {None}]
      BY <1>1, <1>3, <1>4 DEF IInv, TypeOK
    <2>2. stale' \subseteq Workers
      BY <1>1 DEF Holders, IInv, TypeOK
    <2>3. QED
      BY <1>1, <2>1, <2>2 DEF history, IInv, TypeOK
  <1>6. stale \subseteq stale' /\ UNCHANGED <<visit, job, copy, history>>
    BY <1>1
  <1> HIDE DEF due
  <1>7. QED
    BY <1>2, <1>3, <1>4, <1>5, <1>6, RowsIInv

LEMMA DeleteVisitorIInv == IInv /\ DeleteVisitor => IInv'
  <1> SUFFICES ASSUME IInv, NEW v \in Visitors, visit' = [visit EXCEPT ![v] = None],
                      Cascade(v),
                      stale' = stale \cup
                          Holders({v} \cup {i \in Invitations : row'[i] # row[i]}),
                      UNCHANGED <<today, job, copy, history>>
               PROVE  IInv'
    BY DEF DeleteVisitor
  <1>1. \A i \in Invitations :
            row'[i] = IF row[i] # None /\ row[i].visitor = v THEN None ELSE row[i]
    BY DEF Cascade
  <1>2. TypeOK'
    BY DEF Cascade, history, Holders, IInv, TypeOK
  <1>3. \A u \in Visitors : visit'[u] = IF u = v THEN None ELSE visit[u]
    BY DEF IInv, TypeOK
  <1>4. /\ Holders({v}) \subseteq stale'
        /\ \A i \in Invitations : row'[i] # row[i] => Holders({i}) \subseteq stale'
    BY DEF Holders
  <1>5. \A i \in Invitations : row'[i] # None => row'[i].visitor # v
    BY <1>1
  <1>6. QED
    BY <1>1, <1>2, <1>3, <1>4, <1>5, RowsIInv

-----------------------------------------------------------------------------
LEMMA IInvInvariant == ASSUME IInv, [Next]_vars PROVE IInv'
  <1>1. CASE Tick \/ Expire \/ CreateVisitor \/ DeleteVisitor \/ CreateInvitation
             \/ DeleteInvitation
    BY <1>1, TickIInv, ExpireIInv, CreateVisitorIInv, DeleteVisitorIInv,
       CreateInvitationIInv, DeleteInvitationIInv
  <1>2. ASSUME NEW w \in Workers, Requests(w) PROVE IInv'
    BY <1>2, RequestIInv, SaveInvitationIInv, SaveVisitorIInv, AbandonIInv DEF Requests
  <1>3. CASE UNCHANGED vars
    BY <1>3, HeldKept, FreshKept
    DEF vars, history, IInv, TypeOK, NoOrphans, RevokedIsTraced, DatesInOrder
  <1>4. QED
    BY <1>1, <1>2, <1>3 DEF Next

(* The inductive invariant holds in every reachable state.                  *)
THEOREM Invariance == Spec => []IInv
  <1>1. Init => IInv
    BY InitIInv
  <1>2. IInv /\ [Next]_vars => IInv'
    BY IInvInvariant
  <1>3. QED
    BY <1>1, <1>2, PTL DEF Spec

(* Every variable keeps its type.                                           *)
THEOREM VisitsTypeCorrect == Spec => []TypeOK
  <1>1. IInv => TypeOK
    BY DEF IInv
  <1>2. QED
    BY <1>1, Invariance, PTL

(* The visitor of an invitation exists.                                     *)
THEOREM InvitationsHaveVisitors == Spec => []NoOrphans
  <1>1. IInv => NoOrphans
    BY DEF IInv
  <1>2. QED
    BY <1>1, Invariance, PTL

(* Who revoked is on record for the revoked invitations and for no other,   *)
(* however revocations, updates and the task overlap.                       *)
THEOREM RevocationsAreTraced == Spec => []RevokedIsTraced
  <1>1. IInv => RevokedIsTraced
    BY DEF IInv
  <1>2. QED
    BY <1>1, Invariance, PTL

(* The dates of an invitation are in order while no start is moved alone.   *)
THEOREM DatesStayInOrder == Spec => []DatesInOrder
  <1>1. IInv => DatesInOrder
    BY DEF IInv
  <1>2. QED
    BY <1>1, Invariance, PTL

(* A worker that saves in a step which excuses nothing has a fresh copy.    *)
LEMMA Unexcused ==
    ASSUME IInv, NEW w \in Workers, job[w] # None, job'[w] = None, ~Excused(job[w].on)
    PROVE  w \notin stale /\ ~job[w].status
  BY DEF Excused, Holders

(* Most steps of a request touch no row: those that do are saves.           *)
LEMMA RequestRows ==
    ASSUME NEW w \in Workers, Requests(w)
    PROVE  /\ UNCHANGED row \/ SaveInvitation(w)
           /\ UNCHANGED visit \/ SaveVisitor(w)
  <1>1. CASE Revoke(w) \/ UpdateInvitation(w) \/ Check(w) \/ UpdateVisitor(w) \/ Reject(w)
    BY <1>1 DEF Revoke, UpdateInvitation, Check, UpdateVisitor, Reject, Load
  <1>2. CASE SaveInvitation(w)
    BY <1>2 DEF SaveInvitation
  <1>3. CASE SaveVisitor(w)
    BY <1>3 DEF SaveVisitor
  <1>4. CASE Abandon(w)
    BY <1>4 DEF Abandon
  <1> QED
    BY <1>1, <1>2, <1>3, <1>4 DEF Requests

LEMMA StepRows ==
    ASSUME [Next]_vars
    PROVE  /\ \/ UNCHANGED row
              \/ Expire \/ DeleteVisitor \/ CreateInvitation \/ DeleteInvitation
              \/ \E w \in Workers : SaveInvitation(w)
           /\ \/ UNCHANGED visit
              \/ CreateVisitor \/ DeleteVisitor
              \/ \E w \in Workers : SaveVisitor(w)
  <1>1. UNCHANGED vars => UNCHANGED <<row, visit>>
    BY DEF vars
  <1>2. Tick => UNCHANGED <<row, visit>>
    BY DEF Tick
  <1>3. CreateVisitor => UNCHANGED row
    BY DEF CreateVisitor
  <1>4. Expire \/ CreateInvitation \/ DeleteInvitation => UNCHANGED visit
    BY DEF Expire, CreateInvitation, DeleteInvitation
  <1> QED
    BY <1>1, <1>2, <1>3, <1>4, RequestRows DEF Next

(* Only a request that sets the status by hand, or whose copy is outdated,  *)
(* takes a revocation back.                                                 *)
THEOREM RevocationsAreFinal == Spec => RevocationIsFinal
  <1> DEFINE Final(i) == row[i] # None /\ row[i].status = "REVOKED" /\ row'[i] # None
                             /\ ~Excused(i) => row'[i].status = "REVOKED"
  <1>1. ASSUME IInv, [Next]_vars, NEW i \in Invitations PROVE Final(i)
    <2>1. ASSUME NEW w \in Workers, SaveInvitation(w) PROVE Final(i)
      <3>1. /\ job[w] # None
            /\ row' = [row EXCEPT ![job[w].on] =
                           Saved(row[job[w].on], copy[w], job[w].columns)]
            /\ job' = [job EXCEPT ![w] = None]
        BY <2>1 DEF SaveInvitation, Settle, Forget
      <3>2. CASE job[w].on # i
        BY <1>1, <3>1, <3>2 DEF IInv, TypeOK
      <3>3. CASE job[w].on = i
        <4>1. SUFFICES ASSUME row[i] # None, row[i].status = "REVOKED", ~Excused(i)
                       PROVE  row'[i].status = "REVOKED"
          OBVIOUS
        <4>2. w \notin stale /\ ~job[w].status
          BY <1>1, <3>1, <3>3, <4>1, Unexcused DEF IInv, TypeOK
        <4>3. copy[w].status = "REVOKED"
          BY <1>1, <3>1, <3>3, <4>1, <4>2 DEF IInv, Fresh
        <4>4. row'[i] = Saved(row[i], copy[w], job[w].columns) /\ row[i] \in Invitation
          BY <1>1, <3>1, <3>3, <4>1 DEF IInv, TypeOK
        <4>5. QED
          BY <4>3, <4>4 DEF Saved, Invitation
      <3>4. QED
        BY <3>2, <3>3
    <2>2. CASE Expire
      BY <1>1, <2>2 DEF Expire, Overdue
    <2>3. CASE DeleteVisitor
      BY <1>1, <2>3 DEF DeleteVisitor, Cascade
    <2>4. CASE CreateInvitation \/ DeleteInvitation
      BY <1>1, <2>4 DEF CreateInvitation, DeleteInvitation, IInv, TypeOK
    <2>5. CASE UNCHANGED row
      BY <2>5
    <2>6. QED
      BY <1>1, <2>1, <2>2, <2>3, <2>4, <2>5, StepRows
  <1>2. IInv /\ [Next]_vars => [\A i \in Invitations : Final(i)]_vars
    BY <1>1
  <1>3. QED
    BY <1>2, Invariance, PTL DEF Spec, RevocationIsFinal

(* Only an update of the status by hand, or a request loaded before the     *)
(* check-in, rejects a visitor who is or was inside.                        *)
THEOREM VisitorsInsideAreNotRejected == Spec => NotRejectedInside
  <1> DEFINE Final(v) ==
          /\ visit[v] # None /\ visit[v].status \in {"CHECKED_IN", "CHECKED_OUT"}
          /\ visit'[v] # None /\ ~Excused(v)
          => visit'[v].status # "REJECTED"
  <1>1. ASSUME IInv, [Next]_vars, NEW v \in Visitors PROVE Final(v)
    <2>1. ASSUME NEW w \in Workers, SaveVisitor(w) PROVE Final(v)
      <3>1. /\ job[w] # None
            /\ visit' = [visit EXCEPT ![job[w].on] = copy[w]]
            /\ job' = [job EXCEPT ![w] = None]
        BY <2>1 DEF SaveVisitor, Settle, Forget
      <3>2. CASE job[w].on # v
        BY <1>1, <3>1, <3>2 DEF IInv, TypeOK
      <3>3. CASE job[w].on = v
        <4>1. SUFFICES ASSUME Inside(visit[v]), ~Excused(v)
                       PROVE  visit'[v].status # "REJECTED"
          BY DEF Inside
        <4>2. w \notin stale /\ ~job[w].status
          BY <1>1, <3>1, <3>3, <4>1, Unexcused DEF IInv, TypeOK
        <4>3. copy[w].status # "REJECTED"
          BY <1>1, <3>1, <3>3, <4>1, <4>2 DEF IInv, Fresh
        <4>4. visit'[v] = copy[w]
          BY <1>1, <3>1, <3>3 DEF IInv, TypeOK
        <4>5. QED
          BY <4>3, <4>4
      <3>4. QED
        BY <3>2, <3>3
    <2>2. CASE CreateVisitor \/ DeleteVisitor
      BY <1>1, <2>2 DEF CreateVisitor, DeleteVisitor, IInv, TypeOK
    <2>3. CASE UNCHANGED visit
      BY <2>3
    <2>4. QED
      BY <1>1, <2>1, <2>2, <2>3, StepRows
  <1>2. IInv /\ [Next]_vars => [\A v \in Visitors : Final(v)]_vars
    BY <1>1
  <1>3. QED
    BY <1>2, Invariance, PTL DEF Spec, NotRejectedInside

-----------------------------------------------------------------------------
(* What a request makes of the visitor or the invitation r that it loads.   *)
VisitorFrom(r, c) ==
    \/ c.status \in {"CHECKED_IN", "CHECKED_OUT"} \cup AskedVisit \cup {r.status}
    \/ Rejectable(r.status) /\ c.status = "REJECTED"

InvitationFrom(r, columns, c) ==
    \/ r.status = "ACTIVE" /\ c = [r EXCEPT !.status = "REVOKED", !.revoked = TRUE]
    \/ /\ columns = "all"
       /\ \E s \in Asked \cup {r.status}, b \in Days, e \in Days :
             /\ b <= e \/ e = r.end
             /\ c = [r EXCEPT !.status = s, !.start = b, !.end = e]

(* A worker whom nobody has overtaken holds what its request makes of the    *)
(* row as it is; who saves only a revocation holds one.                     *)
VisitorCurrent(w) == visit[job[w].on] # None /\ VisitorFrom(visit[job[w].on], copy[w])

InvitationCurrent(w) ==
    row[job[w].on] # None /\ InvitationFrom(row[job[w].on], job[w].columns, copy[w])

Current ==
    /\ \A w \in Workers : job[w] # None /\ w \notin stale =>
          /\ job[w].on \in Visitors => VisitorCurrent(w)
          /\ job[w].on \in Invitations => InvitationCurrent(w)
    /\ \A w \in Workers : job[w] # None /\ job[w].columns = "revocation" =>
          job[w].on \in Invitations /\ copy[w].status = "REVOKED" /\ copy[w].revoked
    /\ \A w \in stale : job[w] # None

(* Rows that keep their value keep the copies of workers current.           *)
LEMMA CurrentKept ==
    ASSUME Current, stale' \subseteq Workers,
           \A w \in Workers : job'[w] # None =>
               /\ job'[w] = job[w] /\ copy'[w] = copy[w]
               /\ w \notin stale' =>
                     /\ w \notin stale
                     /\ job[w].on \in Invitations => row'[job[w].on] = row[job[w].on]
                     /\ job[w].on \in Visitors => visit'[job[w].on] = visit[job[w].on],
           \A w \in stale' : job'[w] # None
    PROVE  Current'
  <1>1. ASSUME NEW w \in Workers, job'[w] # None, w \notin stale', job'[w].on \in Visitors
        PROVE  VisitorCurrent(w)'
    <2>1. /\ visit'[job'[w].on] = visit[job[w].on] /\ copy'[w] = copy[w]
          /\ visit[job[w].on] # None /\ VisitorFrom(visit[job[w].on], copy[w])
      BY <1>1 DEF Current, VisitorCurrent
    <2> QED
      BY <2>1 DEF VisitorCurrent
  <1>2. ASSUME NEW w \in Workers, job'[w] # None, w \notin stale', job'[w].on \in Invitations
        PROVE  InvitationCurrent(w)'
    <2>1. /\ row'[job'[w].on] = row[job[w].on] /\ copy'[w] = copy[w] /\ job'[w] = job[w]
          /\ row[job[w].on] # None
          /\ InvitationFrom(row[job[w].on], job[w].columns, copy[w])
      BY <1>2 DEF Current, InvitationCurrent
    <2> QED
      BY <2>1 DEF InvitationCurrent
  <1>3. \A w \in Workers : job'[w] # None /\ job'[w].columns = "revocation" =>
            job'[w].on \in Invitations /\ copy'[w].status = "REVOKED" /\ copy'[w].revoked
    BY DEF Current
  <1> QED
    BY <1>1, <1>2, <1>3 DEF Current

(* What a worker loads is current.                                          *)
LEMMA LoadCurrent ==
    ASSUME IInv, Current, NEW w \in Workers, NEW k \in Visitors \cup Invitations, NEW c,
           NEW columns \in {"all", "revocation"}, NEW status \in BOOLEAN,
           NEW start \in BOOLEAN, Load(w, k, c, columns, status, start),
           k \in Visitors => visit[k] # None /\ VisitorFrom(visit[k], c) /\ columns = "all",
           k \in Invitations =>
               row[k] # None /\ InvitationFrom(row[k], columns, c),
           columns = "revocation" => c.status = "REVOKED" /\ c.revoked
    PROVE  Current'
  <1> DEFINE j == [on |-> k, columns |-> columns, status |-> status, start |-> start]
  <1>1. j \in Job /\ j # None /\ j.on = k /\ j.columns = columns
    BY VisitsAssumption DEF Job
  <1>2. job' = [job EXCEPT ![w] = j] /\ job[w] = None
    BY DEF Load
  <1> HIDE DEF j
  <1>3. /\ \A u \in Workers : job'[u] = IF u = w THEN j ELSE job[u]
        /\ \A u \in Workers : copy'[u] = IF u = w THEN c ELSE copy[u]
        /\ visit' = visit /\ row' = row /\ stale' = stale /\ w \notin stale
    BY <1>2 DEF Load, history, IInv, TypeOK, Current
  <1>4. ASSUME NEW u \in Workers, job'[u] # None, u \notin stale'
        PROVE  /\ job'[u].on \in Visitors => VisitorCurrent(u)'
               /\ job'[u].on \in Invitations => InvitationCurrent(u)'
    <2>1. CASE u = w
      <3>1. job'[w] = j /\ copy'[w] = c
        BY <1>3
      <3> QED
        BY <1>1, <1>3, <2>1, <3>1 DEF VisitorCurrent, InvitationCurrent
    <2>2. CASE u # w
      <3>1. job'[u] = job[u] /\ copy'[u] = copy[u] /\ u \notin stale
        BY <1>3, <1>4, <2>2
      <3>2. /\ job[u].on \in Visitors => VisitorCurrent(u)
            /\ job[u].on \in Invitations => InvitationCurrent(u)
        BY <1>4, <3>1 DEF Current
      <3> QED
        BY <1>3, <3>1, <3>2 DEF VisitorCurrent, InvitationCurrent
    <2> QED
      BY <2>1, <2>2
  <1>5. \A u \in Workers : job'[u] # None /\ job'[u].columns = "revocation" =>
            job'[u].on \in Invitations /\ copy'[u].status = "REVOKED" /\ copy'[u].revoked
    BY <1>1, <1>3, VisitsAssumption DEF Current
  <1>6. \A u \in stale' : job'[u] # None
    BY <1>3 DEF Current, IInv, TypeOK
  <1> QED
    BY <1>4, <1>5, <1>6 DEF Current

LEMMA RequestCurrent ==
    ASSUME IInv, Current, NEW w \in Workers,
           Revoke(w) \/ UpdateInvitation(w) \/ Check(w) \/ UpdateVisitor(w) \/ Reject(w)
    PROVE  Current'
  <1>1. CASE Revoke(w)
    <2>1. PICK i \in Invitations, columns \in {"all", "revocation"} :
              /\ row[i] # None /\ row[i].status = "ACTIVE"
              /\ Load(w, i, [row[i] EXCEPT !.status = "REVOKED", !.revoked = TRUE],
                      columns, FALSE, FALSE)
      BY <1>1 DEF Revoke
    <2> DEFINE c == [row[i] EXCEPT !.status = "REVOKED", !.revoked = TRUE]
    <2>2. row[i] \in Invitation
      BY <2>1 DEF IInv, TypeOK
    <2>3. c.status = "REVOKED" /\ c.revoked
      BY <2>2 DEF Invitation
    <2>4. InvitationFrom(row[i], columns, c)
      BY <2>1 DEF InvitationFrom
    <2> HIDE DEF c
    <2>5. Load(w, i, c, columns, FALSE, FALSE) /\ i \notin Visitors
      BY <2>1, VisitsAssumption DEF c
    <2> QED
      BY <2>1, <2>3, <2>4, <2>5, LoadCurrent
  <1>2. CASE UpdateInvitation(w)
    <2>1. PICK i \in Invitations, b \in Days \cup {None}, e \in Days \cup {None} :
              /\ row[i] # None
              /\ ValidDates(row[i], b, e)
              /\ \E s \in Asked \cup {row[i].status} :
                    Load(w, i, [row[i] EXCEPT !.status = s,
                                              !.start = IF b = None THEN @ ELSE b,
                                              !.end = IF e = None THEN @ ELSE e],
                         "all", s # row[i].status, b # None /\ e = None)
      BY <1>2 DEF UpdateInvitation
    <2> DEFINE B == IF b = None THEN row[i].start ELSE b
               E == IF e = None THEN row[i].end ELSE e
    <2>2. B \in Days /\ E \in Days
      BY <2>1 DEF IInv, TypeOK, Invitation
    <2>3. B <= E \/ E = row[i].end
      BY <2>1, <2>2 DEF ValidDates, Days
    <2>4. PICK s \in Asked \cup {row[i].status} :
              Load(w, i, [row[i] EXCEPT !.status = s, !.start = B, !.end = E],
                   "all", s # row[i].status, b # None /\ e = None)
      BY <2>1
    <2> DEFINE c == [row[i] EXCEPT !.status = s, !.start = B, !.end = E]
    <2> HIDE DEF B, E
    <2>5. InvitationFrom(row[i], "all", c)
      BY <2>2, <2>3 DEF InvitationFrom
    <2> HIDE DEF c
    <2>6. Load(w, i, c, "all", s # row[i].status, b # None /\ e = None) /\ i \notin Visitors
      BY <2>4, VisitsAssumption DEF c
    <2> QED
      BY <2>1, <2>5, <2>6, LoadCurrent
  <1>3. ASSUME NEW v \in Visitors, NEW s, NEW status \in BOOLEAN, visit[v] # None,
               Load(w, v, [status |-> s], "all", status, FALSE),
               VisitorFrom(visit[v], [status |-> s])
        PROVE  Current'
    <2>1. v \notin Invitations
      BY VisitsAssumption
    <2> QED
      BY <1>3, <2>1, LoadCurrent
  <1>4. CASE Check(w)
    <2>1. PICK v \in Visitors, s \in {"CHECKED_IN", "CHECKED_OUT"} :
              visit[v] # None /\ Load(w, v, [status |-> s], "all", FALSE, FALSE)
      BY <1>4 DEF Check
    <2>2. VisitorFrom(visit[v], [status |-> s])
      BY DEF VisitorFrom
    <2> QED
      BY <1>3, <2>1, <2>2
  <1>5. CASE UpdateVisitor(w)
    <2>1. PICK v \in Visitors :
              /\ visit[v] # None
              /\ \E s \in AskedVisit \cup {visit[v].status} :
                    Load(w, v, [status |-> s], "all", s # visit[v].status, FALSE)
      BY <1>5 DEF UpdateVisitor
    <2>2. PICK s \in AskedVisit \cup {visit[v].status} :
              Load(w, v, [status |-> s], "all", s # visit[v].status, FALSE)
      BY <2>1
    <2>3. VisitorFrom(visit[v], [status |-> s])
      BY DEF VisitorFrom
    <2> QED
      BY <1>3, <2>1, <2>2, <2>3
  <1>6. CASE Reject(w)
    <2>1. PICK v \in Visitors :
              /\ visit[v] # None
              /\ Rejectable(visit[v].status)
              /\ Load(w, v, [status |-> "REJECTED"], "all", FALSE, FALSE)
      BY <1>6 DEF Reject
    <2>2. VisitorFrom(visit[v], [status |-> "REJECTED"])
      BY <2>1 DEF VisitorFrom
    <2> QED
      BY <1>3, <2>1, <2>2
  <1> QED
    BY <1>1, <1>2, <1>4, <1>5, <1>6

LEMMA CurrentInvariant == ASSUME IInv, Current, [Next]_vars PROVE Current'
  <1>1. /\ job \in [Workers -> Job \cup {None}] /\ stale \subseteq Workers
        /\ stale' \subseteq Workers
        /\ \A w \in stale : job[w] # None
        /\ row \in [Invitations -> Invitation \cup {None}]
        /\ visit \in [Visitors -> Visitor \cup {None}]
        /\ copy \in [Workers -> Invitation \cup Visitor \cup {None}]
    <2>1. IInv'
      BY IInvInvariant
    <2> QED
      BY <2>1 DEF IInv, TypeOK, Current
  <1>2. CASE Tick \/ UNCHANGED vars
    BY <1>1, <1>2, CurrentKept DEF Tick, history, vars
  <1>3. CASE CreateVisitor
    BY <1>1, <1>3, CurrentKept DEF CreateVisitor, Renew, Holders
  <1>4. CASE CreateInvitation
    BY <1>1, <1>4, CurrentKept DEF CreateInvitation, Renew, Holders
  <1>5. CASE DeleteInvitation
    BY <1>1, <1>5, CurrentKept DEF DeleteInvitation, Holders, history
  <1>6. CASE DeleteVisitor
    BY <1>1, <1>6, CurrentKept DEF DeleteVisitor, Cascade, Holders, history
  <1>7. CASE Expire
    BY <1>1, <1>7, CurrentKept DEF Expire, Holders, history
  <1>8. ASSUME NEW w \in Workers, SaveInvitation(w) \/ SaveVisitor(w) \/ Abandon(w)
        PROVE  Current'
    <2>1. /\ \A v \in Workers : job'[v] = IF v = w THEN None ELSE job[v]
          /\ \A v \in Workers : copy'[v] = IF v = w THEN None ELSE copy[v]
          /\ w \notin stale' /\ job[w] # None
      BY <1>1, <1>8 DEF SaveInvitation, SaveVisitor, Abandon, Settle, Forget
    <2>2. \A v \in stale' : job'[v] # None
      BY <1>1, <1>8, <2>1 DEF SaveInvitation, SaveVisitor, Abandon, Settle, Holders
    <2>3. ASSUME NEW v \in Workers, job'[v] # None, v \notin stale'
          PROVE  /\ v \notin stale
                 /\ job[v].on \in Invitations => row'[job[v].on] = row[job[v].on]
                 /\ job[v].on \in Visitors => visit'[job[v].on] = visit[job[v].on]
      BY <1>1, <1>8, <2>1, <2>3
      DEF SaveInvitation, SaveVisitor, Abandon, Settle, Holders, history
    <2> QED
      BY <1>1, <2>1, <2>2, <2>3, CurrentKept
  <1> QED
    BY <1>2, <1>3, <1>4, <1>5, <1>6, <1>7, <1>8, RequestCurrent DEF Next, Requests

-----------------------------------------------------------------------------
(* The keys whose outdated copies are about to be saved, and with which     *)
(* columns: each step adds only copies of the rows that it changes.         *)
Outdated == {<<job[w].on, job[w].columns>> : w \in stale}

LEMMA OutdatedGrows ==
    ASSUME IInv, Current, NEW keys, job' = job, today' = today,
           stale' \subseteq stale \cup Holders(keys)
    PROVE  List!Changed(keys)
  <1>1. \A w \in stale' : job[w].columns \in List!Columns /\ (w \in stale \/ job[w].on \in keys)
    <2>1. ASSUME NEW w \in stale' PROVE w \in Workers /\ job[w] # None
      BY DEF IInv, TypeOK, Current, Holders
    <2>2. ASSUME NEW w \in stale' PROVE job[w].columns \in {"all", "revocation"}
      BY <2>1, Typed DEF IInv, Job
    <2>3. ASSUME NEW w \in stale' PROVE w \in stale \/ job[w].on \in keys
      BY DEF Holders
    <2> QED
      BY <2>2, <2>3 DEF List!Columns
  <1>2. Outdated' \subseteq Outdated \cup keys \X List!Columns
    BY <1>1 DEF Outdated
  <1> QED
    BY <1>2 DEF Outdated, List!Changed

(* A worker that ends its request leaves no copy behind.                    *)
LEMMA OutdatedShrinks ==
    ASSUME IInv, Current, NEW w \in Workers, NEW keys, Forget(w), today' = today,
           stale' \subseteq (stale \cup Holders(keys)) \ {w}
    PROVE  List!Changed(keys)
  <1>1. \A v \in stale' :
            /\ v \in Workers /\ v # w /\ job'[v] = job[v] /\ job[v] # None
            /\ v \in stale \/ job[v].on \in keys
    BY DEF Forget, IInv, TypeOK, Current, Holders
  <1>2. ASSUME NEW v \in stale' PROVE job[v].columns \in List!Columns
    <2>1. v \in Workers /\ job[v] # None
      BY <1>1, <1>2
    <2>2. job[v] \in Job
      BY <2>1, Typed DEF IInv
    <2> QED
      BY <2>2 DEF Job, List!Columns
  <1>3. ASSUME NEW v \in stale'
        PROVE  <<job'[v].on, job'[v].columns>> \in Outdated \cup keys \X List!Columns
    <2>1. /\ job'[v] = job[v] /\ job[v].columns \in List!Columns
          /\ v \in stale \/ job[v].on \in keys
      BY <1>1, <1>2, <1>3
    <2> QED
      BY <2>1 DEF Outdated
  <1>4. Outdated' \subseteq Outdated \cup keys \X List!Columns
    BY <1>3 DEF Outdated
  <1> QED
    BY <1>4 DEF Outdated, List!Changed

LEMMA NewKey ==
    ASSUME IInv, Current, NEW k, Renew(k)
    PROVE  List!New(k)
  <1>1. \A w \in stale : job[w].on # k
    BY DEF Current, IInv, TypeOK, Renew, Holders
  <1> QED
    BY <1>1 DEF List!New, Outdated

(* A save is a step of the guest list, on the row as it is unless the       *)
(* worker has been overtaken.                                               *)
LEMMA SaveVisitorIsAtomic ==
    ASSUME IInv, Current, NEW w \in Workers, SaveVisitor(w) PROVE List!Next
  <1>1. PICK v \in Visitors : v = job[w].on
    BY DEF SaveVisitor
  <1>2. /\ job[w] # None /\ visit' = [visit EXCEPT ![v] = copy[w]] /\ row' = row
        /\ today' = today /\ Forget(w) /\ stale' = (stale \cup Holders({v})) \ {w}
    BY <1>1 DEF SaveVisitor, Settle
  <1>3. copy[w] \in Visitor /\ job[w] \in Job
    BY <1>1, <1>2, Typed DEF IInv
  <1>4. PICK s \in VisitorStatuses : copy[w] = [status |-> s]
    BY <1>3 DEF Visitor
  <1>5. List!PutVisitor(v, s)
    <2>1. List!Changed({v})
      BY <1>2, OutdatedShrinks
    <2> QED
      BY <1>2, <1>4, <2>1 DEF List!PutVisitor
  <1>6. CASE w \in stale
    <2>1. job[w].columns = "all"
      BY <1>1, <1>2, <1>3, VisitsAssumption DEF Current, Job
    <2>2. List!OverwriteVisitor(v)
      BY <1>1, <1>4, <1>5, <1>6, <2>1
      DEF List!OverwriteVisitor, List!Status, VisitorStatuses
    <2> QED
      BY <2>2 DEF List!Next
  <1>7. CASE w \notin stale
    <2>1. visit[v] # None /\ VisitorFrom(visit[v], copy[w])
      BY <1>1, <1>2, <1>7 DEF Current, VisitorCurrent
    <2>2. \/ s \in {"CHECKED_IN", "CHECKED_OUT"} \/ s \in AskedVisit \cup {visit[v].status}
          \/ s = "REJECTED" /\ visit[v].status \notin {"CHECKED_IN", "CHECKED_OUT"}
      BY <1>4, <2>1 DEF VisitorFrom, Rejectable
    <2>3. List!Check(v) \/ List!Edit(v) \/ List!Reject(v)
      BY <1>5, <2>1, <2>2 DEF List!Check, List!Edit, List!Reject, List!Inside
    <2> QED
      BY <2>3 DEF List!Next
  <1> QED
    BY <1>6, <1>7

LEMMA SaveInvitationIsAtomic ==
    ASSUME IInv, Current, NEW w \in Workers, SaveInvitation(w) PROVE List!Next
  <1>1. PICK i \in Invitations : i = job[w].on
    BY DEF SaveInvitation
  <1> DEFINE new == Saved(row[i], copy[w], job[w].columns)
  <1>2. /\ job[w] # None /\ visit[copy[w].visitor] # None
        /\ row[i] # None \/ job[w].columns = "all"
        /\ row' = [row EXCEPT ![i] = new] /\ visit' = visit /\ today' = today
        /\ Forget(w) /\ stale' = (stale \cup Holders({i})) \ {w}
    BY <1>1 DEF SaveInvitation, Settle
  <1>3. copy[w] \in Invitation /\ job[w] \in Job
    BY <1>1, <1>2, Typed DEF IInv
  <1>4. \A r : new = r => List!Put(i, r)
    <2>1. List!Changed({i})
      BY <1>2, OutdatedShrinks
    <2> QED
      BY <1>2, <2>1 DEF List!Put
  <1>5. job[w].columns = "revocation" /\ row[i] # None =>
            new = [row[i] EXCEPT !.status = "REVOKED", !.revoked = TRUE]
    <2>1. SUFFICES ASSUME job[w].columns = "revocation", row[i] # None
                   PROVE  new = [row[i] EXCEPT !.status = "REVOKED", !.revoked = TRUE]
      OBVIOUS
    <2>2. copy[w].status = "REVOKED" /\ copy[w].revoked = TRUE
      BY <1>2, <1>3, <2>1 DEF Current, Invitation
    <2> QED
      BY <2>1, <2>2 DEF Saved
  <1>6. CASE w \in stale /\ job[w].columns = "all"
    <2>1. new = copy[w]
      BY <1>6 DEF Saved
    <2>2. copy[w] \in List!Invitation
      BY <1>3 DEF Invitation, InvitationStatuses, List!Invitation
    <2>3. List!Put(i, copy[w])
      BY <1>4, <2>1
    <2>4. List!Overwrite(i)
      BY <1>1, <1>2, <1>6, <2>2, <2>3 DEF List!Overwrite
    <2> QED
      BY <2>4 DEF List!Next
  <1>7. CASE w \in stale /\ job[w].columns = "revocation"
    <2>1. List!Put(i, [row[i] EXCEPT !.status = "REVOKED", !.revoked = TRUE])
      BY <1>2, <1>4, <1>5, <1>7
    <2>2. List!Revoke(i)
      BY <1>1, <1>2, <1>7, <2>1 DEF List!Revoke
    <2> QED
      BY <2>2 DEF List!Next
  <1>8. CASE w \notin stale
    <2>1. row[i] # None /\ InvitationFrom(row[i], job[w].columns, copy[w])
      BY <1>1, <1>2, <1>8 DEF Current, InvitationCurrent
    <2>2. CASE /\ row[i].status = "ACTIVE"
               /\ copy[w] = [row[i] EXCEPT !.status = "REVOKED", !.revoked = TRUE]
      <3>1. new = [row[i] EXCEPT !.status = "REVOKED", !.revoked = TRUE]
        BY <1>3, <1>5, <2>1, <2>2 DEF Saved, Job
      <3>2. List!Revoke(i)
        BY <1>4, <2>1, <2>2, <3>1 DEF List!Revoke
      <3> QED
        BY <3>2 DEF List!Next
    <2>3. CASE /\ job[w].columns = "all"
               /\ \E s \in Asked \cup {row[i].status}, b \in Days, e \in Days :
                     /\ b <= e \/ e = row[i].end
                     /\ copy[w] = [row[i] EXCEPT !.status = s, !.start = b, !.end = e]
      <3>1. PICK s \in Asked \cup {row[i].status}, b \in Days, e \in Days :
                /\ b <= e \/ e = row[i].end
                /\ copy[w] = [row[i] EXCEPT !.status = s, !.start = b, !.end = e]
        BY <2>3
      <3> DEFINE amended == [row[i] EXCEPT !.status = s, !.start = b, !.end = e]
      <3>2. new = amended
        BY <2>3, <3>1 DEF Saved
      <3>3. List!Put(i, amended)
        BY <1>4, <3>2
      <3> HIDE DEF new
      <3>4. List!Amend(i)
        BY <2>1, <3>1, <3>3 DEF List!Amend
      <3> QED
        BY <3>4 DEF List!Next
    <2> QED
      BY <2>1, <2>2, <2>3 DEF InvitationFrom
  <1> QED
    BY <1>3, <1>6, <1>7, <1>8 DEF Job

LEMMA StepIsAtomic == ASSUME IInv, Current, [Next]_vars PROVE [List!Next]_(List!vars)
  <1>1. /\ job \in [Workers -> Job \cup {None}] /\ stale \subseteq Workers
    BY DEF IInv, TypeOK
  <1>2. CASE Tick
    BY <1>2 DEF Tick, List!Tick, List!Next
  <1>3. CASE CreateVisitor
    <2>1. PICK v \in Visitors :
              /\ visit[v] = None /\ visit' = [visit EXCEPT ![v] = [status |-> "PENDING"]]
              /\ Renew(v) /\ UNCHANGED <<today, row, job, copy, stale>>
      BY <1>3 DEF CreateVisitor
    <2>2. List!New(v) /\ List!Changed({v})
      BY <2>1, NewKey, OutdatedGrows
    <2>3. List!Announce(v)
      BY <2>1, <2>2 DEF List!Announce, List!PutVisitor
    <2> QED
      BY <2>3 DEF List!Next
  <1>4. CASE DeleteVisitor
    <2>1. PICK v \in Visitors :
              /\ visit[v] # None /\ visit' = [visit EXCEPT ![v] = None] /\ Cascade(v)
              /\ stale' = stale \cup
                     Holders({v} \cup {i \in Invitations : row'[i] # row[i]})
              /\ UNCHANGED <<today, job>>
      BY <1>4 DEF DeleteVisitor
    <2> DEFINE his == {i \in Invitations : row[i] # None /\ row[i].visitor = v}
    <2>2. row' = [i \in Invitations |-> IF i \in his THEN None ELSE row[i]]
      BY <2>1 DEF Cascade
    <2>3. PICK keys : keys = {v} \cup his
      OBVIOUS
    <2>4. stale' \subseteq stale \cup Holders(keys)
      <3>1. {i \in Invitations : row'[i] # row[i]} \subseteq his
        BY <2>2
      <3> QED
        BY <2>1, <2>3, <3>1 DEF Holders
    <2>5. List!Changed(keys)
      BY <2>1, <2>4, OutdatedGrows
    <2>6. List!Dismiss(v)
      BY <2>1, <2>2, <2>3, <2>5 DEF List!Dismiss, List!Changed
    <2> QED
      BY <2>6 DEF List!Next
  <1>5. CASE CreateInvitation
    <2>1. PICK i \in Invitations, v \in Visitors, b \in Days, e \in Days :
              /\ row[i] = None /\ visit[v] # None /\ b <= e
              /\ row' = [row EXCEPT ![i] = [visitor |-> v, status |-> "ACTIVE",
                                            revoked |-> FALSE, start |-> b, end |-> e]]
              /\ Renew(i) /\ UNCHANGED <<today, visit, job, copy, stale>>
      BY <1>5 DEF CreateInvitation
    <2>2. List!New(i) /\ List!Changed({i})
      BY <2>1, NewKey, OutdatedGrows
    <2>3. List!Invite(i)
      BY <2>1, <2>2 DEF List!Invite, List!Put
    <2> QED
      BY <2>3 DEF List!Next
  <1>6. CASE DeleteInvitation
    <2>1. PICK i \in Invitations :
              /\ row[i] # None /\ row' = [row EXCEPT ![i] = None]
              /\ stale' = stale \cup Holders({i}) /\ UNCHANGED <<today, visit, job>>
      BY <1>6 DEF DeleteInvitation
    <2>2. List!Changed({i})
      BY <2>1, OutdatedGrows
    <2>3. List!Withdraw(i)
      BY <2>1, <2>2 DEF List!Withdraw, List!Put
    <2> QED
      BY <2>3 DEF List!Next
  <1>7. CASE Expire
    <2> DEFINE due == {i \in Invitations : Overdue(i)}
               over == {i \in Invitations :
                           row[i] # None /\ row[i].status = "ACTIVE" /\ row[i].end < today}
    <2>1. due = over
      BY DEF Overdue
    <2>2. /\ row' = [i \in Invitations |->
                        IF i \in over THEN [row[i] EXCEPT !.status = "EXPIRED"] ELSE row[i]]
          /\ stale' = stale \cup Holders(over) /\ UNCHANGED <<today, visit, job>>
      BY <1>7, <2>1 DEF Expire
    <2>3. PICK keys : keys = over
      OBVIOUS
    <2>4. List!Changed(keys)
      BY <2>2, <2>3, OutdatedGrows
    <2>5. List!Expire
      BY <2>2, <2>3, <2>4 DEF List!Expire, List!Changed
    <2> QED
      BY <2>5 DEF List!Next
  <1>8. ASSUME NEW w \in Workers,
               Revoke(w) \/ UpdateInvitation(w) \/ Check(w) \/ UpdateVisitor(w) \/ Reject(w)
        PROVE  UNCHANGED List!vars
    <2>1. /\ job[w] = None /\ UNCHANGED <<today, visit, row, stale>>
          /\ \A v \in Workers \ {w} : job'[v] = job[v]
      BY <1>1, <1>8 DEF Revoke, UpdateInvitation, Check, UpdateVisitor, Reject, Load
    <2>2. \A v \in stale : job'[v] = job[v]
      BY <1>1, <2>1 DEF Current
    <2>3. Outdated' = Outdated
      BY <2>1, <2>2 DEF Outdated
    <2> QED
      BY <2>1, <2>3 DEF Outdated, List!vars
  <1>9. ASSUME NEW w \in Workers, Abandon(w) PROVE List!Next
    <2>1. /\ Forget(w) /\ stale' \subseteq (stale \cup Holders({})) \ {w}
          /\ UNCHANGED <<today, visit, row>>
      BY <1>9 DEF Abandon
    <2>2. List!Changed({})
      BY <2>1, OutdatedShrinks
    <2>3. Outdated' \subseteq Outdated
      BY <2>2 DEF List!Changed, Outdated
    <2>4. List!Forget
      BY <2>1, <2>3 DEF List!Forget, Outdated
    <2> QED
      BY <2>4 DEF List!Next
  <1>10. CASE UNCHANGED vars
    BY <1>10 DEF vars, List!vars
  <1> QED
    BY <1>2, <1>3, <1>4, <1>5, <1>6, <1>7, <1>8, <1>9, <1>10,
       SaveVisitorIsAtomic, SaveInvitationIsAtomic DEF Next, Requests

(* Every request on a row of which nobody holds an outdated copy is one      *)
(* atomic step, and a manager's revocation touches nothing else whatever it *)
(* has missed: visits implement GuestList, for any number of workers,       *)
(* visitors and invitations.                                                *)
THEOREM ListIsKept == Spec => ImplementsList
  <1>1. Init => Current /\ List!Init
    BY DEF Init, Current, List!Init
  <1>2. IInv /\ Current /\ [Next]_vars => Current' /\ [List!Next]_(List!vars)
    BY CurrentInvariant, StepIsAtomic
  <1>3. QED
    BY <1>1, <1>2, Invariance, PTL DEF Spec, ImplementsList, List!Spec
=============================================================================
