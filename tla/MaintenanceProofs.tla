-------------------------- MODULE MaintenanceProofs --------------------------
(***************************************************************************)
(* Safety of Maintenance for every number of workers and logs.  The rows    *)
(* are sound because every copy that is about to be written is: its         *)
(* duration agrees with its stamps whoever else saved in between (Ready),   *)
(* and while no one else did, the copy keeps the stamps of its row and has  *)
(* those its status asks for (Fresh).  A deleted log is written again only  *)
(* by a request that had passed the read of its save (Late).                *)
(***************************************************************************)
EXTENDS Maintenance, TLAPS

Agrees(c) ==
    c.started # None /\ c.completed # None => c.duration = c.completed - c.started

Marked(c) ==
    /\ c.status = "IN_PROGRESS" => c.started # None
    /\ c.status = "COMPLETED" => c.completed # None

Keeps(old, c) ==
    /\ old.started # None => c.started = old.started
    /\ old.completed # None => c.completed = old.completed

Sound(c, t) ==
    /\ c \in Log
    /\ c.started \in 0..t \cup {None}
    /\ c.completed \in 0..t \cup {None}

Ready ==
    \A w \in Workers : job[w] # None =>
        /\ copy[w] # None
        /\ job[w].at = "write" => Agrees(copy[w])

Fresh ==
    \A w \in Workers : job[w] # None /\ w \notin stale =>
        LET l == job[w].on IN
            /\ row[l] # None
            /\ Keeps(row[l], copy[w])
            /\ job[w].at = "read" =>
                  copy[w].started = row[l].started /\ copy[w].completed = row[l].completed
            /\ job[w].at = "write" /\ l \notin raced => Marked(copy[w])

Late ==
    \A w \in Workers : job[w] # None /\ job[w].at = "write" /\ job[w].on \in deleted
        => job[w].on \in pending

IInv ==
    /\ TypeOK /\ DurationAgrees /\ StatusIsStamped /\ DeletedStaysDeleted
    /\ Ready /\ Fresh /\ Late

-----------------------------------------------------------------------------
(* What the first half of save makes of a copy.                             *)
LEMMA Settled ==
    ASSUME NEW t \in Nat, NEW old, NEW c, Sound(c, t)
    PROVE  LET d == Timed(Stamped(old, c, t)) IN
               /\ Sound(d, t)
               /\ Agrees(d)
               /\ Keeps(c, d)
               /\ d.status = c.status
               /\ old # c.status \/ Marked(c) => Marked(d)
  <1> DEFINE s == Stamped(old, c, t)
             d == Timed(s)
  <1>1. /\ Sound(s, t) /\ Keeps(c, s) /\ s.status = c.status
        /\ old # c.status \/ Marked(c) => Marked(s)
    BY MaintenanceAssumption DEF Stamped, Sound, Log, Keeps, Marked
  <1> HIDE DEF s
  <1>2. CASE s.started # None /\ s.completed # None
    <2>1. s.started \in Nat /\ s.completed \in Nat
      BY <1>1, <1>2 DEF Sound, Log
    <2>2. d = [s EXCEPT !.duration = s.completed - s.started]
      BY <1>2 DEF Timed
    <2>3. s.completed - s.started \in Int
      BY <2>1
    <2>4. QED
      BY <1>1, <2>2, <2>3 DEF s, Sound, Log, Agrees, Keeps, Marked
  <1>3. CASE ~(s.started # None /\ s.completed # None)
    <2>1. d = s
      BY <1>3 DEF Timed
    <2>2. QED
      BY <1>1, <1>3, <2>1 DEF s, Agrees
  <1>4. QED
    BY <1>2, <1>3

(* The type invariant, put for the rows and the copies one by one.          *)
LEMMA Typed ==
    ASSUME TypeOK
    PROVE  /\ now \in Nat
           /\ \A l \in Logs : row[l] # None => Sound(row[l], now)
           /\ \A w \in Workers : copy[w] # None => Sound(copy[w], now)
           /\ \A w \in Workers : job[w] # None =>
                 job[w] \in Job /\ job[w].on \in Logs /\ job[w].at \in {"read", "write"}
  BY MaintenanceAssumption DEF TypeOK, Sound, Job

LEMMA InitIInv == Init => IInv
  BY MaintenanceAssumption
  DEF Init, IInv, TypeOK, DurationAgrees, StatusIsStamped, DeletedStaysDeleted, Ready,
      Fresh, Late

LEMMA TickIInv == IInv /\ Tick => IInv'
  <1> SUFFICES ASSUME IInv, Tick PROVE IInv'
    OBVIOUS
  <1>1. TypeOK'
    BY MaintenanceAssumption DEF IInv, TypeOK, Tick, history
  <1>2. QED
    BY <1>1 DEF Tick, history, IInv, DurationAgrees, StatusIsStamped, DeletedStaysDeleted,
                Ready, Fresh, Late, Agrees, Marked, Keeps

LEMMA CreateIInv == IInv /\ Create => IInv'
  <1> SUFFICES ASSUME IInv, Create PROVE IInv'
    OBVIOUS
  <1> DEFINE new == [status |-> Initial, started |-> None, completed |-> None,
                     duration |-> None]
  <1>1. PICK l \in Logs :
            /\ row[l] = None
            /\ \A w \in Workers : job[w] # None => job[w].on # l
            /\ row' = [row EXCEPT ![l] = new]
            /\ raced' = raced \ {l}
            /\ deleted' = deleted \ {l}
            /\ pending' = pending \ {l}
            /\ UNCHANGED <<now, job, copy, stale>>
    BY DEF Create
  <1>2. new \in Log /\ new # None /\ new.started = None /\ new.completed = None
    BY MaintenanceAssumption DEF Log
  <1>3. new.status = "pending"
    BY DEF Initial
  <1> HIDE DEF new
  <1>4. \A k \in Logs : row'[k] = IF k = l THEN new ELSE row[k]
    BY <1>1 DEF IInv, TypeOK
  <1>5. TypeOK'
    BY <1>1, <1>2, <1>4 DEF IInv, TypeOK
  <1>6. DurationAgrees' /\ DeletedStaysDeleted'
    BY <1>1, <1>2, <1>4, MaintenanceAssumption
    DEF IInv, TypeOK, DurationAgrees, DeletedStaysDeleted
  <1>7. StatusIsStamped'
    BY <1>1, <1>3, <1>4 DEF IInv, StatusIsStamped
  <1>8. Ready' /\ Late'
    BY <1>1 DEF IInv, Ready, Late, Agrees
  <1>9. Fresh'
    <2>1. SUFFICES ASSUME NEW w \in Workers, job'[w] # None, w \notin stale'
                   PROVE  /\ row'[job'[w].on] # None
                          /\ Keeps(row'[job'[w].on], copy'[w])
                          /\ job'[w].at = "read" =>
                                /\ copy'[w].started = row'[job'[w].on].started
                                /\ copy'[w].completed = row'[job'[w].on].completed
                          /\ job'[w].at = "write" /\ job'[w].on \notin raced'
                                => Marked(copy'[w])
      BY DEF Fresh, Keeps, Marked
    <2>2. row'[job[w].on] = row[job[w].on] /\ job[w].on # l
      BY <1>1, <1>4, <2>1, Typed DEF IInv
    <2>3. QED
      BY <1>1, <2>1, <2>2 DEF IInv, Fresh
  <1>10. QED
    BY <1>5, <1>6, <1>7, <1>8, <1>9 DEF IInv

LEMMA DeleteIInv == IInv /\ Delete => IInv'
  <1> SUFFICES ASSUME IInv, Delete PROVE IInv'
    OBVIOUS
  <1>1. PICK l \in Logs :
            /\ row' = [row EXCEPT ![l] = None]
            /\ stale' = stale \cup {w \in Workers : job[w] # None /\ job[w].on = l}
            /\ deleted' = deleted \cup {l}
            /\ pending' = IF [on |-> l, at |-> "write"] \in {job[w] : w \in Workers}
                          THEN pending \cup {l} ELSE pending
            /\ UNCHANGED <<now, job, copy, raced>>
    BY DEF Delete
  <1>2. \A k \in Logs : row'[k] = IF k = l THEN None ELSE row[k]
    BY <1>1 DEF IInv, TypeOK
  <1>3. TypeOK'
    BY <1>1, <1>2 DEF IInv, TypeOK
  <1>4. DurationAgrees' /\ StatusIsStamped' /\ DeletedStaysDeleted'
    BY <1>1, <1>2 DEF IInv, DurationAgrees, StatusIsStamped, DeletedStaysDeleted
  <1>5. Ready'
    BY <1>1 DEF IInv, Ready, Agrees
  <1>6. Fresh'
    <2>1. SUFFICES ASSUME NEW w \in Workers, job'[w] # None, w \notin stale'
                   PROVE  /\ row'[job'[w].on] # None
                          /\ Keeps(row'[job'[w].on], copy'[w])
                          /\ job'[w].at = "read" =>
                                /\ copy'[w].started = row'[job'[w].on].started
                                /\ copy'[w].completed = row'[job'[w].on].completed
                          /\ job'[w].at = "write" /\ job'[w].on \notin raced'
                                => Marked(copy'[w])
      BY DEF Fresh, Keeps, Marked
    <2>2. row'[job[w].on] = row[job[w].on] /\ w \notin stale
      BY <1>1, <1>2, <2>1, Typed DEF IInv
    <2>3. QED
      BY <1>1, <2>1, <2>2 DEF IInv, Fresh
  <1>7. Late'
    <2>1. SUFFICES ASSUME NEW w \in Workers, job[w] # None, job[w].at = "write",
                          job[w].on \in deleted'
                   PROVE  job[w].on \in pending'
      BY <1>1 DEF Late
    <2>2. CASE job[w].on = l
      <3>1. job[w] = [on |-> l, at |-> "write"]
        BY <2>1, <2>2, Typed DEF IInv, Job
      <3>2. QED
        BY <1>1, <2>2, <3>1
    <2>3. CASE job[w].on # l
      BY <1>1, <2>1, <2>3 DEF IInv, Late
    <2>4. QED
      BY <2>2, <2>3
  <1>8. QED
    BY <1>3, <1>4, <1>5, <1>6, <1>7 DEF IInv

LEMMA LoadIInv == ASSUME IInv, NEW w \in Workers, Load(w) PROVE IInv'
  <1>1. PICK l \in Logs : \E s \in Statuses \cup {row[l].status},
                              d \in Durations \cup {row[l].duration} :
            /\ row[l] # None
            /\ job' = [job EXCEPT ![w] = [on |-> l, at |-> "read"]]
            /\ copy' = [copy EXCEPT ![w] = [row[l] EXCEPT !.status = s, !.duration = d]]
            /\ UNCHANGED <<now, row, history>>
    BY DEF Load
  <1>2. PICK s \in Statuses \cup {row[l].status}, d \in Durations \cup {row[l].duration} :
            /\ row[l] # None
            /\ job' = [job EXCEPT ![w] = [on |-> l, at |-> "read"]]
            /\ copy' = [copy EXCEPT ![w] = [row[l] EXCEPT !.status = s, !.duration = d]]
            /\ UNCHANGED <<now, row, history>>
    BY <1>1
  <1> DEFINE c == [row[l] EXCEPT !.status = s, !.duration = d]
             j == [on |-> l, at |-> "read"]
  <1>3. Sound(row[l], now)
    BY <1>2, Typed DEF IInv
  <1>4. /\ Sound(c, now) /\ c # None
        /\ c.started = row[l].started /\ c.completed = row[l].completed
    BY <1>3, MaintenanceAssumption DEF Sound, Log
  <1>5. j \in Job /\ j # None /\ j.on = l /\ j.at = "read"
    BY MaintenanceAssumption DEF Job
  <1> HIDE DEF c, j
  <1>6. /\ \A v \in Workers : job'[v] = IF v = w THEN j ELSE job[v]
        /\ \A v \in Workers : copy'[v] = IF v = w THEN c ELSE copy[v]
        /\ now' = now /\ row' = row /\ stale' = stale /\ raced' = raced
        /\ deleted' = deleted /\ pending' = pending
    BY <1>2 DEF c, j, history, IInv, TypeOK
  <1>7. TypeOK'
    <2>1. /\ job' \in [Workers -> Job \cup {None}]
          /\ copy' \in [Workers -> Log \cup {None}]
      BY <1>2, <1>4, <1>5 DEF c, j, IInv, TypeOK, Sound
    <2>2. \A v \in Workers : copy'[v] # None => Sound(copy'[v], now)
      BY <1>4, <1>6, Typed DEF IInv
    <2>3. QED
      BY <1>6, <2>1, <2>2 DEF IInv, TypeOK, Sound
  <1>8. DurationAgrees' /\ StatusIsStamped' /\ DeletedStaysDeleted'
    BY <1>6 DEF IInv, DurationAgrees, StatusIsStamped, DeletedStaysDeleted
  <1>9. Ready' /\ Late'
    BY <1>4, <1>5, <1>6 DEF IInv, Ready, Late, Agrees
  <1>10. Fresh'
    BY <1>2, <1>4, <1>5, <1>6 DEF IInv, Fresh, Keeps, Marked
  <1>11. QED
    BY <1>7, <1>8, <1>9, <1>10 DEF IInv

LEMMA ReadIInv ==
    ASSUME IInv, NEW w \in Workers, Read(w), row[job[w].on] # None PROVE IInv'
  <1> DEFINE l == job[w].on
             d == Timed(Stamped(row[l].status, copy[w], now))
  <1>1. /\ job[w] # None /\ job[w].at = "read" /\ row[l] # None
        /\ copy' = [copy EXCEPT ![w] = d]
        /\ job' = [job EXCEPT ![w].at = "write"]
        /\ UNCHANGED <<now, row, history>>
    BY DEF Read
  <1>2. /\ l \in Logs /\ job[w] \in Job /\ now \in Nat
        /\ copy[w] # None /\ Sound(copy[w], now)
    BY <1>1, Typed DEF IInv, Ready
  <1>3. /\ Sound(d, now) /\ Agrees(d) /\ Keeps(copy[w], d)
        /\ row[l].status # copy[w].status \/ Marked(copy[w]) => Marked(d)
    BY <1>2, Settled
  <1>4. d # None
    BY <1>3, MaintenanceAssumption DEF Sound
  <1> DEFINE j == [job[w] EXCEPT !.at = "write"]
  <1>5. j \in Job /\ j # None /\ j.on = l /\ j.at = "write"
    BY <1>2, MaintenanceAssumption DEF Job
  <1>6. /\ \A v \in Workers : job'[v] = IF v = w THEN j ELSE job[v]
        /\ \A v \in Workers : copy'[v] = IF v = w THEN d ELSE copy[v]
        /\ now' = now /\ row' = row /\ stale' = stale /\ raced' = raced
        /\ deleted' = deleted /\ pending' = pending
    BY <1>1 DEF history, IInv, TypeOK
  <1>7. w \notin stale => Keeps(row[l], d) /\ (l \notin raced => Marked(d))
    <2>1. SUFFICES ASSUME w \notin stale
                   PROVE  Keeps(row[l], d) /\ (l \notin raced => Marked(d))
      OBVIOUS
    <2>2. copy[w].started = row[l].started /\ copy[w].completed = row[l].completed
      BY <1>1, <2>1 DEF IInv, Fresh
    <2>3. Keeps(row[l], d)
      BY <1>3, <2>2 DEF Keeps
    <2>4. l \notin raced => Marked(row[l])
      BY <1>1, <1>2 DEF IInv, StatusIsStamped, Marked
    <2>5. l \notin raced /\ row[l].status = copy[w].status => Marked(copy[w])
      BY <2>2, <2>4 DEF Marked
    <2>6. QED
      BY <1>3, <2>3, <2>5
  <1> HIDE DEF l, d, j
  <1>8. TypeOK'
    <2>1. /\ job' \in [Workers -> Job \cup {None}]
          /\ copy' \in [Workers -> Log \cup {None}]
      BY <1>1, <1>3, <1>5, <1>6 DEF IInv, TypeOK, Sound
    <2>2. \A v \in Workers : copy'[v] # None => Sound(copy'[v], now)
      BY <1>3, <1>6, Typed DEF IInv
    <2>3. QED
      BY <1>6, <2>1, <2>2 DEF IInv, TypeOK, Sound
  <1>9. DurationAgrees' /\ StatusIsStamped' /\ DeletedStaysDeleted'
    BY <1>6 DEF IInv, DurationAgrees, StatusIsStamped, DeletedStaysDeleted
  <1>10. Ready'
    BY <1>3, <1>4, <1>6 DEF IInv, Ready, Agrees
  <1>11. Late'
    BY <1>1, <1>2, <1>5, <1>6 DEF IInv, Late, DeletedStaysDeleted
  <1>12. Fresh'
    <2>1. SUFFICES ASSUME NEW v \in Workers, job'[v] # None, v \notin stale'
                   PROVE  /\ row'[job'[v].on] # None
                          /\ Keeps(row'[job'[v].on], copy'[v])
                          /\ job'[v].at = "read" =>
                                /\ copy'[v].started = row'[job'[v].on].started
                                /\ copy'[v].completed = row'[job'[v].on].completed
                          /\ job'[v].at = "write" /\ job'[v].on \notin raced'
                                => Marked(copy'[v])
      BY DEF Fresh, Keeps, Marked
    <2>2. CASE v = w
      <3>1. /\ job'[v].on = l /\ job'[v].at = "write" /\ copy'[v] = d
            /\ row'[l] = row[l] /\ v \notin stale /\ raced' = raced
        BY <1>5, <1>6, <2>1, <2>2
      <3>2. row[l] # None /\ Keeps(row[l], d) /\ (l \notin raced => Marked(d))
        BY <1>1, <1>7, <2>2, <3>1
      <3>3. QED
        BY <3>1, <3>2 DEF Keeps, Marked
    <2>3. CASE v # w
      BY <1>6, <2>1, <2>3 DEF IInv, Fresh
    <2>4. QED
      BY <2>2, <2>3
  <1>13. QED
    BY <1>8, <1>9, <1>10, <1>11, <1>12 DEF IInv

LEMMA WriteIInv == ASSUME IInv, NEW w \in Workers, Write(w) PROVE IInv'
  <1> DEFINE l == job[w].on
             c == copy[w]
  <1>1. /\ job[w] # None /\ job[w].at = "write"
        /\ row' = [row EXCEPT ![l] = c]
        /\ raced' = IF w \in stale THEN raced \cup {l} ELSE raced
        /\ stale' = (stale \ {w})
                        \cup {v \in Workers \ {w} : job[v] # None /\ job[v].on = l}
        /\ job' = [job EXCEPT ![w] = None]
        /\ copy' = [copy EXCEPT ![w] = None]
        /\ UNCHANGED <<now, deleted, pending>>
    BY DEF Write, Outdate, Forget
  <1>2. l \in Logs /\ c # None /\ Sound(c, now) /\ Agrees(c)
    BY <1>1, Typed DEF IInv, Ready
  <1>3. l \notin raced' => Marked(c)
    BY <1>1 DEF IInv, Fresh
  <1>4. l \in deleted => l \in pending
    BY <1>1 DEF IInv, Late
  <1> HIDE DEF l, c
  <1>5. /\ \A k \in Logs : row'[k] = IF k = l THEN c ELSE row[k]
        /\ \A v \in Workers : job'[v] = IF v = w THEN None ELSE job[v]
        /\ \A v \in Workers : copy'[v] = IF v = w THEN None ELSE copy[v]
        /\ raced \subseteq raced'
    BY <1>1 DEF IInv, TypeOK
  <1>6. TypeOK'
    <2>1. /\ job' \in [Workers -> Job \cup {None}]
          /\ copy' \in [Workers -> Log \cup {None}]
          /\ row' \in [Logs -> Log \cup {None}]
      BY <1>1, <1>2 DEF IInv, TypeOK, Sound
    <2>2. /\ \A v \in Workers : copy'[v] # None => Sound(copy'[v], now)
          /\ \A k \in Logs : row'[k] # None => Sound(row'[k], now)
      BY <1>2, <1>5, Typed DEF IInv
    <2>3. stale' \subseteq Workers /\ raced' \subseteq Logs
      BY <1>1, <1>2 DEF IInv, TypeOK
    <2>4. QED
      BY <1>1, <2>1, <2>2, <2>3 DEF IInv, TypeOK, Sound
  <1>7. DurationAgrees'
    BY <1>2, <1>5 DEF IInv, DurationAgrees, Agrees
  <1>8. StatusIsStamped' /\ DeletedStaysDeleted'
    BY <1>1, <1>3, <1>4, <1>5 DEF IInv, StatusIsStamped, DeletedStaysDeleted, Marked
  <1>9. Ready' /\ Late'
    BY <1>1, <1>5 DEF IInv, Ready, Late, Agrees
  <1>10. Fresh'
    <2>1. SUFFICES ASSUME NEW v \in Workers, job'[v] # None, v \notin stale'
                   PROVE  /\ row'[job'[v].on] # None
                          /\ Keeps(row'[job'[v].on], copy'[v])
                          /\ job'[v].at = "read" =>
                                /\ copy'[v].started = row'[job'[v].on].started
                                /\ copy'[v].completed = row'[job'[v].on].completed
                          /\ job'[v].at = "write" /\ job'[v].on \notin raced'
                                => Marked(copy'[v])
      BY DEF Fresh, Keeps, Marked
    <2>2. v # w /\ v \notin stale /\ job[v].on # l /\ job[v].on \in Logs
      BY <1>1, <1>5, <2>1, Typed DEF IInv
    <2>3. QED
      BY <1>5, <2>1, <2>2 DEF IInv, Fresh
  <1>11. QED
    BY <1>6, <1>7, <1>8, <1>9, <1>10 DEF IInv

(* A request ends without a save: the row is gone, or the worker dies.      *)
LEMMA EndIInv ==
    ASSUME IInv, NEW w \in Workers, Forget(w), stale' = stale \ {w},
           UNCHANGED <<now, row, raced, deleted, pending>>
    PROVE  IInv'
  <1>1. /\ \A v \in Workers : job'[v] = IF v = w THEN None ELSE job[v]
        /\ \A v \in Workers : copy'[v] = IF v = w THEN None ELSE copy[v]
    BY DEF Forget, IInv, TypeOK
  <1>2. TypeOK'
    BY DEF Forget, IInv, TypeOK
  <1>3. DurationAgrees' /\ StatusIsStamped' /\ DeletedStaysDeleted'
    BY DEF IInv, DurationAgrees, StatusIsStamped, DeletedStaysDeleted
  <1>4. Ready' /\ Late'
    BY <1>1 DEF IInv, Ready, Late, Agrees
  <1>5. Fresh'
    BY <1>1 DEF IInv, Fresh, Keeps, Marked
  <1>6. QED
    BY <1>2, <1>3, <1>4, <1>5 DEF IInv

-----------------------------------------------------------------------------
(* The inductive invariant holds in every reachable state.                  *)
THEOREM Invariance == Spec => []IInv
  <1>1. Init => IInv
    BY InitIInv
  <1>2. ASSUME IInv, [Next]_vars PROVE IInv'
    <2>1. CASE Tick \/ Create \/ Delete
      BY <1>2, <2>1, TickIInv, CreateIInv, DeleteIInv
    <2>2. ASSUME NEW w \in Workers, Read(w) PROVE IInv'
      <3>1. CASE row[job[w].on] # None
        BY <1>2, <2>2, <3>1, ReadIInv
      <3>2. CASE row[job[w].on] = None
        BY <1>2, <2>2, <3>2, EndIInv DEF Read
      <3>3. QED
        BY <3>1, <3>2
    <2>3. ASSUME NEW w \in Workers, Load(w) \/ Write(w) \/ Die(w) PROVE IInv'
      BY <1>2, <2>3, LoadIInv, WriteIInv, EndIInv DEF Die
    <2>4. CASE UNCHANGED vars
      BY <1>2, <2>4
      DEF vars, history, IInv, TypeOK, DurationAgrees, StatusIsStamped,
          DeletedStaysDeleted, Ready, Fresh, Late, Agrees, Marked, Keeps
    <2>5. QED
      BY <1>2, <2>1, <2>2, <2>3, <2>4 DEF Next
  <1>3. QED
    BY <1>1, <1>2, PTL DEF Spec

(* Every variable keeps its type, and no stamp lies in the future.          *)
THEOREM MaintenanceTypeCorrect == Spec => []TypeOK
  <1>1. IInv => TypeOK
    BY DEF IInv
  <1>2. QED
    BY <1>1, Invariance, PTL

(* The duration of a log agrees with its stamps, however saves overlap.     *)
THEOREM DurationsAgree == Spec => []DurationAgrees
  <1>1. IInv => DurationAgrees
    BY DEF IInv
  <1>2. QED
    BY <1>1, Invariance, PTL

(* A status comes with its stamp unless an outdated copy was saved.         *)
THEOREM StatusesAreStamped == Spec => []StatusIsStamped
  <1>1. IInv => StatusIsStamped
    BY DEF IInv
  <1>2. QED
    BY <1>1, Invariance, PTL

(* A log comes back only if it was deleted within the save of another       *)
(* request.                                                                 *)
THEOREM DeletionIsFinal == Spec => []DeletedStaysDeleted
  <1>1. IInv => DeletedStaysDeleted
    BY DEF IInv
  <1>2. QED
    BY <1>1, Invariance, PTL

(* Only a save of an outdated copy changes the first start or the first     *)
(* completion of a log.                                                     *)
THEOREM StampsAreFinal == Spec => StampsAreKept
  <1> DEFINE Kept(l) == row[l] # None /\ row'[l] # None /\ l \notin raced' =>
                 /\ row[l].started # None => row'[l].started = row[l].started
                 /\ row[l].completed # None => row'[l].completed = row[l].completed
  <1>1. ASSUME IInv, [Next]_vars, NEW l \in Logs PROVE Kept(l)
    <2>1. ASSUME NEW w \in Workers, Write(w) PROVE Kept(l)
      <3>1. /\ job[w] # None
            /\ row' = [row EXCEPT ![job[w].on] = copy[w]]
            /\ raced' = IF w \in stale THEN raced \cup {job[w].on} ELSE raced
        BY <2>1 DEF Write
      <3>2. w \notin stale => Keeps(row[job[w].on], copy[w])
        BY <1>1, <3>1 DEF IInv, Fresh
      <3>3. QED
        BY <1>1, <3>1, <3>2, Typed DEF IInv, TypeOK, Keeps
    <2>2. CASE Create \/ Delete
      BY <1>1, <2>2 DEF Create, Delete, IInv, TypeOK
    <2>3. CASE UNCHANGED row
      BY <2>3
    <2>4. QED
      BY <1>1, <2>1, <2>2, <2>3 DEF Next, vars, Tick, Load, Read, Die
  <1>2. IInv /\ [Next]_vars => [\A l \in Logs : Kept(l)]_vars
    BY <1>1
  <1>3. QED
    BY <1>2, Invariance, PTL DEF Spec, StampsAreKept

-----------------------------------------------------------------------------
(* The copy of a worker whom nobody has overtaken comes from the log as it  *)
(* is: with the fields of the request before the read of its save, and      *)
(* stamped and timed by the book after it.                                  *)
DerivedFrom(c, at, r, t) ==
    \E s \in Statuses \cup {r.status}, d \in Durations \cup {r.duration} :
        /\ at = "read" => c = [r EXCEPT !.status = s, !.duration = d]
        /\ at = "write" => \E u \in 0..t : c = Book!Saved(r, s, d, u)

DerivedFor(w) == DerivedFrom(copy[w], job[w].at, row[job[w].on], now)

Derived ==
    /\ \A w \in Workers : job[w] # None /\ w \notin stale => DerivedFor(w)
    /\ \A w \in stale : job[w] # None

(* The two halves of save do what the book does at once.                    *)
LEMMA SavedByBook ==
    ASSUME NEW r \in Log, NEW s \in Statuses \cup {Initial}, NEW d \in Int \cup {None},
           NEW t \in Nat
    PROVE  Timed(Stamped(r.status, [r EXCEPT !.status = s, !.duration = d], t))
               = Book!Saved(r, s, d, t)
  <1> DEFINE c == [r EXCEPT !.status = s, !.duration = d]
             b == Stamped(r.status, c, t)
             started == Book!Stamp(r.status, s, "IN_PROGRESS", r.started, t)
             completed == Book!Stamp(r.status, s, "COMPLETED", r.completed, t)
  <1>1. c = [status |-> s, started |-> r.started, completed |-> r.completed, duration |-> d]
    <2>1. \A q \in Log : q = [status |-> q.status, started |-> q.started,
                              completed |-> q.completed, duration |-> q.duration]
      BY DEF Log
    <2>2. c \in Log
      BY DEF Log
    <2>3. c.status = s /\ c.started = r.started /\ c.completed = r.completed /\ c.duration = d
      BY DEF Log
    <2> HIDE DEF c
    <2> QED
      BY <2>1, <2>2, <2>3
  <1>2. b = [status |-> s, started |-> started, completed |-> completed, duration |-> d]
    BY <1>1 DEF Stamped, Book!Stamp
  <1> HIDE DEF b, c, started, completed
  <1>3. Timed(b) = [status |-> s, started |-> started, completed |-> completed,
                    duration |-> IF started # None /\ completed # None
                                 THEN completed - started ELSE d]
    BY <1>2 DEF Timed
  <1> QED
    BY <1>3 DEF Book!Saved, b, c, started, completed

LEMMA DerivedKept ==
    ASSUME IInv, Derived, now' \in Nat, now <= now', NEW v \in Workers,
           job[v] # None, job'[v] = job[v], copy'[v] = copy[v], v \notin stale,
           row'[job[v].on] = row[job[v].on]
    PROVE  DerivedFor(v)'
  <1>1. DerivedFrom(copy[v], job[v].at, row[job[v].on], now)
    BY DEF Derived, DerivedFor
  <1>2. now \in Nat
    BY Typed DEF IInv
  <1>3. 0..now \subseteq 0..now'
    BY <1>2
  <1>4. DerivedFrom(copy[v], job[v].at, row[job[v].on], now')
    BY <1>1, <1>3 DEF DerivedFrom
  <1> QED
    BY <1>4 DEF DerivedFor

LEMMA DerivedInvariant ==
    ASSUME IInv, Derived, [Next]_vars PROVE Derived'
  <1>1. /\ now \in Nat
        /\ \A l \in Logs : row[l] # None => row[l] \in Log
        /\ \A w \in Workers : job[w] # None => job[w].on \in Logs
        /\ row \in [Logs -> Log \cup {None}]
        /\ job \in [Workers -> Job \cup {None}] /\ copy \in [Workers -> Log \cup {None}]
    BY Typed DEF IInv, TypeOK, Sound
  <1>2. ASSUME NEW v \in stale' PROVE job'[v] # None
    <2>1. /\ \A w \in stale : job[w] # None
          /\ stale \subseteq Workers /\ None \notin Job
      BY MaintenanceAssumption DEF Derived, IInv, TypeOK
    <2>2. CASE Tick \/ Create \/ UNCHANGED vars
      BY <1>2, <2>1, <2>2 DEF Tick, Create, history, vars
    <2>3. CASE Delete
      BY <1>1, <1>2, <2>1, <2>3 DEF Delete
    <2>4. ASSUME NEW w \in Workers, Load(w) PROVE job'[v] # None
      <3>1. job[w] = None /\ stale' = stale /\ \A u \in Workers \ {w} : job'[u] = job[u]
        BY <1>1, <2>4 DEF Load, history
      <3> QED
        BY <1>2, <2>1, <3>1
    <2>5. ASSUME NEW w \in Workers, Read(w) \/ Die(w) PROVE job'[v] # None
      <3>1. v \in stale
        BY <1>2, <2>5 DEF Read, Die, history
      <3>2. CASE v # w
        BY <1>1, <2>1, <2>5, <3>1, <3>2 DEF Read, Die, Forget
      <3>3. CASE v = w
        <4>1. Read(w) /\ job' = [job EXCEPT ![w].at = "write"] /\ job[w] \in Job
          BY <1>1, <1>2, <2>1, <2>5, <3>1, <3>3 DEF Read, Die
        <4>2. job'[w] = [job[w] EXCEPT !.at = "write"]
          BY <1>1, <4>1
        <4>3. job'[w] \in Job
          BY <4>1, <4>2 DEF Job
        <4> QED
          BY <2>1, <3>3, <4>3
      <3> QED
        BY <3>2, <3>3
    <2>6. ASSUME NEW w \in Workers, Write(w) PROVE job'[v] # None
      <3>1. v # w /\ v \in Workers /\ job[v] # None
        BY <1>2, <2>1, <2>6 DEF Write, Outdate
      <3> QED
        BY <1>1, <2>6, <3>1 DEF Write, Forget
    <2> QED
      BY <2>2, <2>3, <2>4, <2>5, <2>6 DEF Next
  <1> SUFFICES ASSUME NEW v \in Workers, job'[v] # None, v \notin stale'
               PROVE  DerivedFor(v)'
    BY <1>2 DEF Derived
  <1>3. CASE Tick
    BY <1>1, <1>3, DerivedKept DEF Tick, history
  <1>4. CASE Create
    <2>1. job[v] # None /\ job'[v] = job[v] /\ copy'[v] = copy[v] /\ v \notin stale
          /\ now' = now /\ row'[job[v].on] = row[job[v].on]
      BY <1>1, <1>4 DEF Create
    <2> QED
      BY <1>1, <2>1, DerivedKept
  <1>5. CASE Delete
    <2>1. job[v] # None /\ job'[v] = job[v] /\ copy'[v] = copy[v] /\ v \notin stale
          /\ now' = now /\ row'[job[v].on] = row[job[v].on]
      BY <1>1, <1>5 DEF Delete
    <2> QED
      BY <1>1, <2>1, DerivedKept
  <1>6. ASSUME NEW w \in Workers, Load(w) \/ Read(w) \/ Write(w) \/ Die(w)
        PROVE  DerivedFor(v)'
    <2>1. CASE v # w
      <3>1. job[v] # None /\ job'[v] = job[v] /\ copy'[v] = copy[v] /\ v \notin stale
            /\ now' = now /\ row'[job[v].on] = row[job[v].on]
        BY <1>1, <1>6, <2>1 DEF Load, Read, Write, Die, Forget, Outdate, history
      <3> QED
        BY <1>1, <3>1, DerivedKept
    <2>2. CASE v = w /\ Load(w)
      <3>1. PICK l \in Logs : \E s \in Statuses \cup {row[l].status},
                                  d \in Durations \cup {row[l].duration} :
                /\ job' = [job EXCEPT ![w] = [on |-> l, at |-> "read"]]
                /\ copy' = [copy EXCEPT ![w] = [row[l] EXCEPT !.status = s, !.duration = d]]
                /\ row' = row
        BY <2>2 DEF Load
      <3>2. /\ job'[w] = [on |-> l, at |-> "read"] /\ row'[l] = row[l]
            /\ \E s \in Statuses \cup {row[l].status}, d \in Durations \cup {row[l].duration} :
                  copy'[w] = [row[l] EXCEPT !.status = s, !.duration = d]
        BY <1>1, <3>1
      <3>3. DerivedFrom(copy'[w], "read", row'[l], now')
        BY <3>2 DEF DerivedFrom
      <3> QED
        BY <2>2, <3>2, <3>3 DEF DerivedFor
    <2>3. CASE v = w /\ Read(w)
      <3> DEFINE r == row[job[w].on]
      <3>1. /\ r # None /\ job[w] # None /\ job[w].at = "read" /\ w \notin stale
            /\ copy'[w] = Timed(Stamped(r.status, copy[w], now))
            /\ job'[w].on = job[w].on /\ job'[w].at = "write" /\ UNCHANGED <<now, row>>
        BY <1>1, <2>3 DEF Read, Forget, history, Job
      <3>2. PICK s \in Statuses \cup {r.status}, d \in Durations \cup {r.duration} :
                copy[w] = [r EXCEPT !.status = s, !.duration = d]
        BY <3>1 DEF Derived, DerivedFor, DerivedFrom
      <3>3. r \in Log /\ s \in Statuses \cup {Initial} /\ d \in Int \cup {None}
        BY <1>1, <3>1, <3>2, MaintenanceAssumption DEF Log
      <3> HIDE DEF r
      <3>4. copy'[w] = Book!Saved(r, s, d, now)
        <4>1. Timed(Stamped(r.status, [r EXCEPT !.status = s, !.duration = d], now))
                  = Book!Saved(r, s, d, now)
          BY <1>1, <3>3, SavedByBook
        <4> QED
          BY <3>1, <3>2, <4>1
      <3>5. now \in 0..now
        BY <1>1
      <3>6. DerivedFrom(copy'[w], "write", r, now)
        BY <3>4, <3>5 DEF DerivedFrom
      <3> QED
        BY <2>3, <3>1, <3>6 DEF DerivedFor, r
    <2>4. CASE v = w /\ (Write(w) \/ Die(w))
      BY <1>1, <2>4 DEF Write, Die, Forget
    <2> QED
      BY <1>6, <2>1, <2>2, <2>3, <2>4
  <1>7. CASE UNCHANGED vars
    BY <1>1, <1>7, DerivedKept DEF vars, history
  <1> QED
    BY <1>3, <1>4, <1>5, <1>6, <1>7 DEF Next

(* Only the log that a worker has saved or deleted gets outdated copies.    *)
Outdated == {job[w].on : w \in stale}

LEMMA WriteIsAtomic ==
    ASSUME IInv, Derived, NEW w \in Workers, Write(w)
    PROVE  Book!Next
  <1>1. PICK l \in Logs : l = job[w].on
    BY Typed DEF IInv, Write
  <1>2. /\ job[w] # None /\ job[w].at = "write"
        /\ row' = [row EXCEPT ![l] = copy[w]]
        /\ stale' = (stale \ {w}) \cup {v \in Workers \ {w} : job[v] # None /\ job[v].on = l}
        /\ job' = [job EXCEPT ![w] = None] /\ now' = now
    BY <1>1 DEF Write, Outdate, Forget
  <1>3. /\ l \in Logs /\ copy[w] # None /\ Sound(copy[w], now) /\ Agrees(copy[w])
        /\ row \in [Logs -> Log \cup {None}] /\ job \in [Workers -> Job \cup {None}]
        /\ stale \subseteq Workers
    BY <1>1, <1>2, Typed DEF IInv, TypeOK, Ready
  <1>4. Outdated' \subseteq Outdated \cup {l}
    BY <1>1, <1>2, <1>3 DEF Outdated
  <1>5. Book!Changed(l)
    BY <1>2, <1>4 DEF Book!Changed, Outdated
  <1>6. CASE w \in stale
    <2>1. l \in Outdated
      BY <1>1, <1>2, <1>6 DEF Outdated
    <2>2. row'[l] = copy[w]
      BY <1>2, <1>3
    <2>3. copy[w] \in Book!Log
      BY <1>3 DEF Sound, Log, Book!Log, Initial, Book!Initial
    <2>4. Book!Overwrite(l)
      BY <1>2, <1>3, <1>5, <2>1, <2>2, <2>3 DEF Book!Overwrite, Outdated, Agrees
    <2>5. \E k \in Logs : Book!Overwrite(k)
      BY <1>3, <2>4
    <2> QED
      BY <2>5 DEF Book!Next
  <1>7. CASE w \notin stale
    <2>1. row[l] # None
      BY <1>1, <1>2, <1>7 DEF IInv, Fresh
    <2>2. DerivedFrom(copy[w], "write", row[l], now)
      BY <1>1, <1>2, <1>7 DEF Derived, DerivedFor
    <2>3. \E s \in Statuses \cup {row[l].status}, d \in Durations \cup {row[l].duration},
             t \in 0..now : copy[w] = Book!Saved(row[l], s, d, t)
      BY <2>2 DEF DerivedFrom
    <2>4. Book!Save(l)
      BY <1>2, <1>5, <2>1, <2>3 DEF Book!Save
    <2>5. \E k \in Logs : Book!Save(k)
      BY <1>3, <2>4
    <2> QED
      BY <2>5 DEF Book!Next
  <1> QED
    BY <1>6, <1>7

LEMMA StepIsAtomic ==
    ASSUME IInv, Derived, [Next]_vars
    PROVE  [Book!Next]_(Book!vars)
  <1>1. /\ job \in [Workers -> Job \cup {None}] /\ stale \subseteq Workers
    BY DEF IInv, TypeOK
  <1>2. Derived'
    BY DerivedInvariant
  <1>3. CASE Tick
    BY <1>3 DEF Tick, history, Book!Tick, Book!Next
  <1>4. CASE Create
    <2>1. PICK l \in Logs :
              /\ row[l] = None
              /\ \A w \in Workers : job[w] # None => job[w].on # l
              /\ row' = [row EXCEPT ![l] = [status |-> Initial, started |-> None,
                                            completed |-> None, duration |-> None]]
              /\ UNCHANGED <<now, job, stale>>
      BY <1>4 DEF Create
    <2>2. l \notin Outdated
      BY <1>1, <2>1 DEF Outdated, Derived
    <2>3. Book!Create(l)
      BY <2>1, <2>2 DEF Book!Create, Outdated, Initial, Book!Initial
    <2> QED
      BY <2>3 DEF Book!Next
  <1>5. CASE Delete
    <2>1. PICK l \in Logs :
              /\ row[l] # None
              /\ row' = [row EXCEPT ![l] = None]
              /\ stale' = stale \cup {w \in Workers : job[w] # None /\ job[w].on = l}
              /\ UNCHANGED <<now, job>>
      BY <1>5 DEF Delete
    <2>2. Outdated' \subseteq Outdated \cup {l}
      BY <2>1 DEF Outdated
    <2>3. Book!Delete(l)
      BY <2>1, <2>2 DEF Book!Delete, Book!Changed, Outdated
    <2> QED
      BY <2>3 DEF Book!Next
  <1>6. ASSUME NEW w \in Workers, Load(w) \/ Read(w) \/ Die(w)
        PROVE  [Book!Next]_(Book!vars)
    <2>1. UNCHANGED <<now, row>>
      BY <1>6 DEF Load, Read, Die, history
    <2>2. CASE Load(w)
      <3>1. /\ stale' = stale /\ job[w] = None /\ \A v \in Workers \ {w} : job'[v] = job[v]
        BY <1>1, <2>2 DEF Load, history
      <3>2. Outdated' = Outdated
        BY <1>1, <3>1 DEF Outdated, Derived
      <3> QED
        BY <2>1, <3>2 DEF Outdated, Book!vars
    <2>3. CASE Read(w) \/ Die(w)
      <3>1. /\ stale' \subseteq stale
            /\ \A v \in Workers : job'[v] # None => job[v] # None /\ job'[v].on = job[v].on
        BY <1>1, <2>3 DEF Read, Die, Forget, history, Job
      <3>2. \A v \in stale' : v \in stale /\ job'[v].on = job[v].on
        BY <1>1, <1>2, <3>1 DEF Derived
      <3>3. Outdated' \subseteq Outdated
        BY <3>2 DEF Outdated
      <3> QED
        BY <2>1, <3>3 DEF Book!Forget, Book!Next, Outdated
    <2> QED
      BY <1>6, <2>2, <2>3
  <1>7. ASSUME NEW w \in Workers, Write(w) PROVE Book!Next
    BY <1>7, WriteIsAtomic
  <1>8. CASE UNCHANGED vars
    BY <1>8 DEF vars, history, Book!vars
  <1> QED
    BY <1>3, <1>4, <1>5, <1>6, <1>7, <1>8 DEF Next

(* Every change of a log that nobody holds an outdated copy of is one       *)
(* atomic step: maintenance logs implement MaintenanceBook, for any number  *)
(* of workers, logs and durations.                                          *)
THEOREM BookIsKept == Spec => ImplementsBook
  <1>1. Init => Derived /\ Book!Init
    BY DEF Init, Derived, Book!Init
  <1>2. IInv /\ Derived /\ [Next]_vars => Derived' /\ [Book!Next]_(Book!vars)
    BY DerivedInvariant, StepIsAtomic
  <1>3. QED
    BY <1>1, <1>2, Invariance, PTL DEF Spec, ImplementsBook, Book!Spec
=============================================================================
