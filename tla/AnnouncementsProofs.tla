-------------------------- MODULE AnnouncementsProofs --------------------------
(***************************************************************************)
(* Safety of Announcements for every number of workers, users and keys: the *)
(* variables are well typed, and the view and comment counters never exceed *)
(* the rows they count.  A counter is computed from a copy, so the argument *)
(* bounds every copy too (CountsOK): when a worker is about to count a view *)
(* its copy is older than the row it has just inserted.                     *)
(***************************************************************************)
EXTENDS Announcements, FiniteSetTheorems, TLAPS

NV(a) == Cardinality(ViewsOf(a))
NC(a) == Cardinality(CommentsOf(a))

(* What a worker at a step serves, and holds.                               *)
ServesOK(w) ==
    /\ pc[w] = "idle" <=> job[w] = None
    /\ job[w] # None =>
        /\ copy[w] # None
        /\ Op(w) \in MemberOps => job[w].user \in Users
        /\ Op(w) = "add_comment" => job[w].comment \in Comments
    /\ pc[w] \in {"insert", "count"} => Op(w) \in {"retrieve", "like"}
    /\ pc[w] \in {"own", "status", "flag"} => Op(w) \in MemberOps
    /\ pc[w] = "own" => Op(w) = "unlike"
    /\ pc[w] = "commit" => Op(w) \in {"unlike", "add_comment"}

(* The comment that a worker is about to insert is new.                     *)
NewComments ==
    \A w \in Workers : job[w] # None /\ Op(w) = "add_comment" =>
        /\ comment[job[w].comment] = None
        /\ \A v \in Workers \ {w} : job[v] # None => job[v].comment # job[w].comment

(* The row that a worker has inserted and not yet counted.                  *)
Due(w) == IF pc[w] = "count" /\ Op(w) = "retrieve" THEN 1 ELSE 0

Bounded(c, a, due) == c.views + due <= NV(a) /\ c.comments <= NC(a)

CountsOK ==
    \A a \in Announcements \ revived : row[a] # None =>
        /\ Bounded(row[a], a, 0)
        /\ \A w \in Workers : job[w] # None /\ on(w) = a => Bounded(copy[w], a, Due(w))

Serving == \A w \in Workers : ServesOK(w)

IInv == TypeOK /\ Serving /\ NewComments /\ CountsOK

-----------------------------------------------------------------------------
LEMMA CountsAreNat ==
    ASSUME NEW a
    PROVE  /\ NV(a) \in Nat /\ NC(a) \in Nat
           /\ IsFiniteSet(ViewsOf(a)) /\ IsFiniteSet(CommentsOf(a))
  <1>1. ViewsOf(a) \subseteq Users /\ CommentsOf(a) \subseteq Comments
    BY DEF ViewsOf, CommentsOf
  <1>2. QED
    BY <1>1, AnnouncementsAssumption, FS_Subset, FS_CardinalityType DEF NV, NC

LEMMA CountsAreNatNext ==
    ASSUME NEW a PROVE NV(a)' \in Nat /\ NC(a)' \in Nat
  <1>1. ViewsOf(a)' \subseteq Users /\ CommentsOf(a)' \subseteq Comments
    BY DEF ViewsOf, CommentsOf
  <1>2. QED
    BY <1>1, AnnouncementsAssumption, FS_Subset, FS_CardinalityType DEF NV, NC

LEMMA InitIInv == Init => IInv
  BY AnnouncementsAssumption
  DEF Init, IInv, TypeOK, Serving, ServesOK, NewComments, CountsOK

(* Steps that load nothing: rows stay bounded, and a view that becomes due  *)
(* has just been inserted.                                                  *)
LEMMA CountsKept ==
    ASSUME IInv, TypeOK', revived \subseteq revived',
           \A a \in Announcements \ revived' : row'[a] # None =>
               /\ row[a] # None
               /\ NV(a) <= NV(a)' /\ NC(a) <= NC(a)'
               /\ row'[a].views <= NV(a)' /\ row'[a].comments <= NC(a)',
           \A v \in Workers : job'[v] # None =>
               /\ job[v] # None /\ job'[v] = job[v] /\ copy'[v] = copy[v]
               /\ Due(v)' <= Due(v) \/ NV(on(v)) + 1 <= NV(on(v))'
    PROVE  CountsOK'
  <1>1. SUFFICES ASSUME NEW a \in Announcements \ revived', row'[a] # None
                 PROVE  /\ Bounded(row[a], a, 0)'
                        /\ \A v \in Workers : job'[v] # None /\ on(v)' = a =>
                               Bounded(copy[v], a, Due(v))'
    BY DEF CountsOK
  <1>2. /\ row[a] # None /\ a \notin revived
        /\ NV(a) <= NV(a)' /\ NC(a) <= NC(a)'
        /\ row'[a].views <= NV(a)' /\ row'[a].comments <= NC(a)'
        /\ NV(a) \in Nat /\ NC(a) \in Nat /\ NV(a)' \in Nat /\ NC(a)' \in Nat
        /\ row'[a].views \in Nat /\ row'[a].comments \in Nat
    BY <1>1, CountsAreNat, CountsAreNatNext DEF TypeOK, AnnouncementRow
  <1>3. Bounded(row[a], a, 0)'
    BY <1>2 DEF Bounded
  <1>4. ASSUME NEW v \in Workers, job'[v] # None, on(v)' = a
        PROVE  Bounded(copy[v], a, Due(v))'
    <2>1. /\ job[v] # None /\ on(v) = a /\ copy'[v] = copy[v]
          /\ Due(v)' <= Due(v) \/ NV(a) + 1 <= NV(a)'
      BY <1>4 DEF on
    <2>2. Bounded(copy[v], a, Due(v))
      BY <1>1, <1>2, <2>1 DEF IInv, CountsOK
    <2>3. copy[v].views \in Nat /\ copy[v].comments \in Nat
      BY <2>1 DEF IInv, Serving, ServesOK, TypeOK, AnnouncementRow
    <2>4. Due(v) \in {0, 1} /\ Due(v)' \in {0, 1}
      BY DEF Due
    <2>5. copy[v].views + Due(v)' <= NV(a)'
      BY <1>2, <2>1, <2>2, <2>3, <2>4 DEF Bounded
    <2>6. copy[v].comments <= NC(a)'
      BY <1>2, <2>2, <2>3 DEF Bounded
    <2>7. QED
      BY <2>1, <2>5, <2>6 DEF Bounded
  <1>5. QED
    BY <1>3, <1>4

(* What a step makes of the rows.                                           *)
RowsOK ==
    /\ row' \in [Announcements -> AnnouncementRow \cup {None}]
    /\ viewed' \subseteq Announcements \X Users
    /\ liked' \subseteq Announcements \X Users
    /\ comment' \in [Comments -> Announcements \cup {None}]
    /\ read' \in [Announcements \X Users -> BOOLEAN \cup {None}]
    /\ revived \subseteq revived' /\ revived' \subseteq Announcements
    /\ \A a \in Announcements \ revived' : row'[a] # None =>
           /\ row[a] # None
           /\ NV(a) <= NV(a)' /\ NC(a) <= NC(a)'
           /\ row'[a].views <= NV(a)' /\ row'[a].comments <= NC(a)'

(* A request that ends: its worker holds nothing any more.                  *)
LEMMA EndsIInv ==
    ASSUME IInv, NEW w \in Workers, Forget(w), RowsOK,
           held' \subseteq Workers, crashes' \in Nat,
           \A v \in Workers \ {w} : job[v] # None /\ Op(v) = "add_comment" =>
               comment'[job[v].comment] = None
    PROVE  IInv'
  <1>1. TypeOK'
    BY DEF IInv, TypeOK, RowsOK, Forget
  <1>2. Serving'
    BY DEF IInv, TypeOK, Serving, ServesOK, Forget, Op
  <1>3. NewComments'
    BY DEF IInv, TypeOK, NewComments, Forget, Op
  <1>4. \A v \in Workers : job'[v] # None =>
            /\ job[v] # None /\ job'[v] = job[v] /\ copy'[v] = copy[v]
            /\ Due(v)' <= Due(v)
    BY DEF IInv, TypeOK, Forget, Due, Op
  <1>5. CountsOK'
    BY <1>1, <1>4, CountsKept DEF RowsOK
  <1>6. QED
    BY <1>1, <1>2, <1>3, <1>5 DEF IInv

(* A request that goes on to its next query.                                *)
LEMMA GoesIInv ==
    ASSUME IInv, NEW w \in Workers, NEW step \in Steps,
           pc' = [pc EXCEPT ![w] = step], RowsOK, held' \subseteq Workers,
           UNCHANGED <<job, copy, comment, crashes>>,
           pc[w] # "idle",
           step \in {"insert", "count"} => Op(w) \in {"retrieve", "like"},
           step \in {"own", "status", "flag"} => Op(w) \in MemberOps,
           step = "own" => Op(w) = "unlike",
           step = "commit" => Op(w) \in {"unlike", "add_comment"},
           step = "count" /\ Op(w) = "retrieve" => NV(on(w)) + 1 <= NV(on(w))'
    PROVE  IInv'
  <1>1. TypeOK'
    BY DEF IInv, TypeOK, RowsOK
  <1>2. Serving'
    BY DEF IInv, TypeOK, Serving, ServesOK, Op, Steps
  <1>3. NewComments'
    BY DEF IInv, NewComments, Op
  <1>4. \A v \in Workers : job'[v] # None =>
            /\ job[v] # None /\ job'[v] = job[v] /\ copy'[v] = copy[v]
            /\ Due(v)' <= Due(v) \/ NV(on(v)) + 1 <= NV(on(v))'
    BY DEF IInv, TypeOK, Due, Op
  <1>5. CountsOK'
    BY <1>1, <1>4, CountsKept DEF RowsOK
  <1>6. QED
    BY <1>1, <1>2, <1>3, <1>5 DEF IInv

(* The rows of a step that changes none that is counted.                    *)
LEMMA RowsKept ==
    ASSUME IInv, UNCHANGED <<row, viewed, comment, revived>>,
           liked' \subseteq Announcements \X Users,
           read' \in [Announcements \X Users -> BOOLEAN \cup {None}]
    PROVE  RowsOK
  <1>1. \A a \in Announcements : NV(a)' = NV(a) /\ NC(a)' = NC(a)
    BY DEF NV, NC, ViewsOf, CommentsOf
  <1>2. \A a \in Announcements \ revived : row[a] # None =>
            row[a].views <= NV(a) /\ row[a].comments <= NC(a)
    <2>1. SUFFICES ASSUME NEW a \in Announcements \ revived, row[a] # None
                   PROVE  row[a].views <= NV(a) /\ row[a].comments <= NC(a)
      OBVIOUS
    <2>2. Bounded(row[a], a, 0) /\ row[a].views \in Nat
      BY <2>1 DEF IInv, CountsOK, TypeOK, AnnouncementRow
    <2>3. QED
      BY <2>2 DEF Bounded
  <1>3. \A a \in Announcements : NV(a) <= NV(a) /\ NC(a) <= NC(a)
    BY CountsAreNat
  <1>4. QED
    BY <1>1, <1>2, <1>3 DEF RowsOK, IInv, TypeOK

LEMMA RespondIInv ==
    ASSUME IInv, NEW w \in Workers, Respond(w), UNCHANGED db PROVE IInv'
  <1>1. RowsOK
    BY RowsKept DEF db, Respond, IInv, TypeOK
  <1>2. QED
    BY <1>1, EndsIInv DEF Respond, IInv, TypeOK, NewComments, db

LEMMA FailIInv ==
    ASSUME IInv, NEW w \in Workers, Fail(w) PROVE IInv'
  BY RespondIInv DEF Fail

LEMMA DieIInv ==
    ASSUME IInv, NEW w \in Workers, Die(w) PROVE IInv'
  <1>1. RowsOK
    BY RowsKept DEF db, Die, IInv, TypeOK
  <1>2. QED
    BY <1>1, EndsIInv DEF Die, IInv, TypeOK, NewComments, db

-----------------------------------------------------------------------------
LEMMA LoadIInv ==
    ASSUME IInv, NEW w \in Workers, NEW j \in Job, Load(w, j),
           j.op \in MemberOps => j.user \in Users,
           j.op = "add_comment" =>
               /\ j.comment \in Comments
               /\ comment[j.comment] = None
               /\ \A v \in Workers : job[v] # None => job[v].comment # j.comment,
           j.op # "add_comment" => j.comment = None
    PROVE  IInv'
  <1> USE DEF Load, db
  <1>1. /\ First[j.op] \in Steps
        /\ First[j.op] \in {"insert", "count"} => j.op \in {"retrieve", "like"}
        /\ First[j.op] \in {"own", "status", "flag"} => j.op \in MemberOps
        /\ First[j.op] = "own" => j.op = "unlike"
        /\ First[j.op] = "commit" => j.op = "add_comment"
        /\ First[j.op] # "count" /\ First[j.op] # "idle"
    BY DEF First, Steps, Job, AllOps, MemberOps, ManagerOps
  <1>2. j # None
    BY AnnouncementsAssumption
  <1>3. TypeOK'
    BY <1>1 DEF IInv, TypeOK, Job
  <1>4. Serving'
    BY <1>1, <1>2 DEF IInv, TypeOK, Serving, ServesOK, Op
  <1>5. NewComments'
    BY AnnouncementsAssumption DEF IInv, TypeOK, NewComments, Op, Serving, ServesOK
  <1>6. CountsOK'
    <2>1. SUFFICES ASSUME NEW a \in Announcements \ revived, row[a] # None
                   PROVE  /\ Bounded(row[a], a, 0)'
                          /\ \A v \in Workers : job'[v] # None /\ on(v)' = a =>
                                 Bounded(copy[v], a, Due(v))'
      BY DEF CountsOK
    <2>2. NV(a)' = NV(a) /\ NC(a)' = NC(a)
      BY DEF NV, NC, ViewsOf, CommentsOf
    <2>3. Bounded(row[a], a, 0)'
      BY <2>1, <2>2 DEF IInv, CountsOK, Bounded
    <2>4. ASSUME NEW v \in Workers \ {w}, job'[v] # None, on(v)' = a
          PROVE  Bounded(copy[v], a, Due(v))'
      <3>1. job'[v] = job[v] /\ copy'[v] = copy[v] /\ Due(v)' = Due(v)
        BY DEF Due, Op, IInv, TypeOK
      <3>2. QED
        BY <2>1, <2>2, <2>4, <3>1 DEF IInv, CountsOK, Bounded, on
    <2>5. ASSUME on(w)' = a PROVE Bounded(copy[w], a, Due(w))'
      <3>1. Due(w)' = 0 /\ copy'[w] = row[a]
        BY <1>1, <2>5 DEF Due, on, IInv, TypeOK
      <3>2. QED
        BY <2>3, <3>1 DEF Bounded
    <2>6. QED
      BY <2>3, <2>4, <2>5
  <1>7. QED
    BY <1>3, <1>4, <1>5, <1>6 DEF IInv

LEMMA BeginsIInv ==
    ASSUME IInv, NEW w \in Workers, ByMember(w) \/ ByManager(w) \/ AddComment(w)
    PROVE  IInv'
  <1>1. CASE ByMember(w)
    <2>1. PICK op \in MemberOps, a \in Announcements, u \in Users :
              Load(w, [op |-> op, on |-> a, user |-> u, comment |-> None])
      BY <1>1 DEF ByMember
    <2>2. [op |-> op, on |-> a, user |-> u, comment |-> None] \in Job
      BY DEF Job, AllOps
    <2>3. op # "add_comment"
      BY DEF MemberOps
    <2>4. QED
      BY <2>1, <2>2, <2>3, LoadIInv
  <1>2. CASE ByManager(w)
    <2>1. PICK op \in ManagerOps, a \in Announcements :
              Load(w, [op |-> op, on |-> a, user |-> None, comment |-> None])
      BY <1>2 DEF ByManager
    <2>2. [op |-> op, on |-> a, user |-> None, comment |-> None] \in Job
      BY DEF Job, AllOps
    <2>3. op \notin MemberOps /\ op # "add_comment"
      BY DEF MemberOps, ManagerOps
    <2>4. QED
      BY <2>1, <2>2, <2>3, LoadIInv
  <1>3. CASE AddComment(w)
    <2>1. PICK a \in Announcements, c \in Comments :
              /\ comment[c] = None
              /\ \A v \in Workers : job[v] # None => job[v].comment # c
              /\ Load(w, [op |-> "add_comment", on |-> a, user |-> None, comment |-> c])
      BY <1>3 DEF AddComment
    <2>2. [op |-> "add_comment", on |-> a, user |-> None, comment |-> c] \in Job
      BY DEF Job, AllOps
    <2>3. "add_comment" \notin MemberOps
      BY DEF MemberOps
    <2>4. QED
      BY <2>1, <2>2, <2>3, LoadIInv
  <1>4. QED
    BY <1>1, <1>2, <1>3

LEMMA CreateIInv ==
    ASSUME IInv, NEW w \in Workers, Create(w) PROVE IInv'
  <1>1. PICK a \in Announcements, published \in BOOLEAN :
            /\ row[a] = None
            /\ \A v \in Workers : job[v] # None => on(v) # a
            /\ row' = [row EXCEPT ![a] = [published |-> published, views |-> 0,
                                          likes |-> 0, comments |-> 0]]
            /\ revived' = revived \ {a}
            /\ UNCHANGED <<viewed, liked, comment, read, mine, crashes>>
    BY DEF Create
  <1>2. TypeOK'
    BY <1>1 DEF IInv, TypeOK, mine, AnnouncementRow
  <1>3. Serving' /\ NewComments'
    BY <1>1 DEF IInv, Serving, ServesOK, NewComments, mine, Op
  <1>4. CountsOK'
    <2>1. SUFFICES ASSUME NEW b \in Announcements \ revived', row'[b] # None
                   PROVE  /\ Bounded(row[b], b, 0)'
                          /\ \A v \in Workers : job'[v] # None /\ on(v)' = b =>
                                 Bounded(copy[v], b, Due(v))'
      BY DEF CountsOK
    <2>2. /\ NV(b)' = NV(b) /\ NC(b)' = NC(b)
          /\ \A v \in Workers : on(v)' = on(v) /\ Due(v)' = Due(v)
      BY <1>1 DEF NV, NC, ViewsOf, CommentsOf, on, Due, Op, mine
    <2>3. CASE b = a
      BY <1>1, <2>2, <2>3, CountsAreNat DEF Bounded, IInv, TypeOK, mine
    <2>4. CASE b # a
      <3>1. row'[b] = row[b] /\ b \notin revived
        BY <1>1, <2>1, <2>4 DEF IInv, TypeOK
      <3>2. QED
        BY <1>1, <2>1, <2>2, <3>1 DEF IInv, CountsOK, Bounded, mine
    <2>5. QED
      BY <2>3, <2>4
  <1>5. QED
    BY <1>2, <1>3, <1>4 DEF IInv

-----------------------------------------------------------------------------
(* One view more.                                                           *)
LEMMA MoreViews ==
    ASSUME NEW a \in Announcements, NEW u \in Users, viewed' = viewed \cup {<<a, u>>}
    PROVE  /\ \A b \in Announcements : NV(b) <= NV(b)'
           /\ <<a, u>> \notin viewed => NV(a)' = NV(a) + 1
  <1>1. ViewsOf(a)' = ViewsOf(a) \cup {u}
    BY DEF ViewsOf
  <1>2. \A b \in Announcements \ {a} : ViewsOf(b)' = ViewsOf(b)
    BY DEF ViewsOf
  <1>3. /\ IsFiniteSet(ViewsOf(a))
        /\ u \in ViewsOf(a) <=> <<a, u>> \in viewed
        /\ \A b \in Announcements : NV(b) \in Nat
    BY CountsAreNat DEF ViewsOf
  <1>4. NV(a)' = IF u \in ViewsOf(a) THEN NV(a) ELSE NV(a) + 1
    BY <1>1, <1>3, FS_AddElement DEF NV
  <1>5. QED
    BY <1>2, <1>3, <1>4 DEF NV

(* Rows and copies are bounded, spelled out.                                *)
LEMMA RowBounds ==
    ASSUME IInv, NEW a \in Announcements \ revived, row[a] # None
    PROVE  /\ row[a].views \in Nat /\ row[a].likes \in Nat /\ row[a].comments \in Nat
           /\ row[a].views <= NV(a) /\ row[a].comments <= NC(a)
           /\ \A v \in Workers : job[v] # None /\ on(v) = a =>
                /\ copy[v].views + Due(v) <= NV(a)
                /\ copy[v].comments <= NC(a)
  <1>1. /\ Bounded(row[a], a, 0)
        /\ \A v \in Workers : job[v] # None /\ on(v) = a => Bounded(copy[v], a, Due(v))
        /\ row[a] \in AnnouncementRow
    BY DEF IInv, CountsOK, TypeOK
  <1>2. QED
    BY <1>1 DEF Bounded, AnnouncementRow

LEMMA JobType ==
    ASSUME IInv, NEW w \in Workers, pc[w] # "idle"
    PROVE  /\ job[w] \in Job /\ job[w] # None /\ on(w) \in Announcements
           /\ copy[w] \in AnnouncementRow
           /\ Op(w) \in MemberOps => me(w) \in Announcements \X Users
  BY DEF IInv, TypeOK, Serving, ServesOK, on, me, Job

LEMMA InsertIInv ==
    ASSUME IInv, NEW w \in Workers, Insert(w) PROVE IInv'
  <1>1. /\ pc[w] = "insert" /\ Op(w) \in {"retrieve", "like"} /\ Op(w) \in MemberOps
        /\ on(w) \in Announcements /\ me(w) \in Announcements \X Users
        /\ me(w) = <<on(w), job[w].user>> /\ job[w].user \in Users
    BY JobType DEF Insert, IInv, Serving, ServesOK, MemberOps, me, on
  <1>2. CASE Fail(w)
    BY <1>2, FailIInv
  <1>3. CASE /\ Op(w) = "retrieve"
             /\ viewed' = viewed \cup {me(w)}
             /\ Goto(w, ThenCount(w))
             /\ UNCHANGED <<row, liked, comment, read>>
    <2>1. /\ \A b \in Announcements : NV(b) <= NV(b)'
          /\ me(w) \notin viewed => NV(on(w))' = NV(on(w)) + 1
      <3>1. PICK a \in Announcements, u \in Users : a = on(w) /\ u = job[w].user
        BY <1>1
      <3>2. me(w) = <<a, u>> /\ on(w)' = a
        BY <1>1, <1>3, <3>1 DEF Goto, on
      <3>3. viewed' = viewed \cup {<<a, u>>}
        BY <1>3, <3>2
      <3>4. /\ \A b \in Announcements : NV(b) <= NV(b)'
            /\ <<a, u>> \notin viewed => NV(a)' = NV(a) + 1
        BY <3>3, MoreViews
      <3>5. NV(on(w))' = NV(a)' /\ NV(on(w)) = NV(a)
        BY <3>1, <3>2 DEF NV, ViewsOf
      <3>6. QED
        BY <3>2, <3>4, <3>5
    <2>2. \A b \in Announcements : NC(b)' = NC(b) /\ NC(b) \in Nat /\ NV(b) \in Nat /\ NV(b)' \in Nat
      BY <1>3, CountsAreNat, CountsAreNatNext DEF NC, CommentsOf
    <2>3. RowsOK
      <3>1. \A a \in Announcements \ revived : row[a] # None =>
                row[a].views <= NV(a)' /\ row[a].comments <= NC(a)'
        BY <2>1, <2>2, RowBounds
      <3>2. QED
        BY <1>1, <1>3, <2>1, <2>2, <3>1 DEF RowsOK, IInv, TypeOK, Goto
    <2>4. ThenCount(w) \in {"status", "count"}
          /\ (ThenCount(w) = "count" => me(w) \notin viewed)
      BY DEF ThenCount
    <2>5. ThenCount(w) = "count" => NV(on(w)) + 1 <= NV(on(w))'
      BY <1>1, <2>1, <2>2, <2>4
    <2>6. QED
      BY <1>1, <1>3, <2>3, <2>4, <2>5, GoesIInv DEF Goto, Steps, IInv, TypeOK
  <1>4. CASE /\ Op(w) = "like"
             /\ liked' = liked \cup {me(w)}
             /\ Goto(w, "count")
             /\ UNCHANGED <<row, viewed, comment, read>>
    <2>1. RowsOK
      BY <1>1, <1>4, RowsKept DEF Goto, IInv, TypeOK
    <2>2. QED
      BY <1>1, <1>4, <2>1, GoesIInv DEF Goto, Steps, IInv, TypeOK
  <1>5. CASE Respond(w) /\ UNCHANGED db
    BY <1>5, RespondIInv
  <1>6. QED
    BY <1>2, <1>3, <1>4, <1>5 DEF Insert

LEMMA CountIInv ==
    ASSUME IInv, NEW w \in Workers, Count(w) PROVE IInv'
  <1>1. /\ pc[w] = "count" /\ on(w) \in Announcements /\ Op(w) \in MemberOps
        /\ job[w] # None /\ copy[w].views \in Nat /\ copy[w].likes \in Nat
    BY JobType DEF Count, IInv, Serving, ServesOK, MemberOps, AnnouncementRow
  <1>2. CASE Fail(w)
    BY <1>2, FailIInv
  <1>3. CASE ~ Fail(w)
    <2>1. /\ row[on(w)] # None
          /\ UNCHANGED <<viewed, liked, comment, read, revived>>
          /\ held' \subseteq Workers /\ crashes' = crashes
          /\ \/ /\ Op(w) = "retrieve"
                /\ row' = [row EXCEPT ![on(w)].views = copy[w].views + 1]
                /\ Goto(w, "status")
             \/ /\ row' = [row EXCEPT ![on(w)].likes = copy[w].likes + 1]
                /\ Respond(w)
      BY <1>3 DEF Count, Goto, Respond, IInv, TypeOK
    <2>2. \A b \in Announcements : /\ NV(b)' = NV(b) /\ NC(b)' = NC(b)
                                   /\ NV(b) \in Nat /\ NC(b) \in Nat
      BY <2>1, CountsAreNat DEF NV, NC, ViewsOf, CommentsOf
    <2>3. row[on(w)] \in AnnouncementRow
      BY <1>1, <2>1 DEF IInv, TypeOK
    <2>4. row' \in [Announcements -> AnnouncementRow \cup {None}]
      BY <1>1, <2>1, <2>3 DEF IInv, TypeOK, AnnouncementRow
    <2>5. \A a \in Announcements \ revived : row'[a] # None =>
              /\ row[a] # None
              /\ row'[a].views <= NV(a) /\ row'[a].comments <= NC(a)
      <3>1. SUFFICES ASSUME NEW a \in Announcements \ revived, row'[a] # None
                     PROVE  /\ row[a] # None
                            /\ row'[a].views <= NV(a) /\ row'[a].comments <= NC(a)
        OBVIOUS
      <3>2. row[a] # None
        BY <2>1, <3>1 DEF IInv, TypeOK
      <3>3. CASE a # on(w)
        <4>1. row'[a] = row[a]
          BY <2>1, <3>3 DEF IInv, TypeOK
        <4>2. QED
          BY <3>2, <4>1, RowBounds
      <3>4. CASE a = on(w)
        <4>1. Op(w) = "retrieve" => copy[w].views + 1 <= NV(a)
          BY <1>1, <3>2, <3>4, RowBounds DEF Due
        <4>2. row[a].views <= NV(a) /\ row[a].comments <= NC(a)
          BY <3>2, RowBounds
        <4>3. /\ row'[a].comments = row[a].comments
              /\ \/ row'[a].views = row[a].views
                 \/ Op(w) = "retrieve" /\ row'[a].views = copy[w].views + 1
          <5>1. CASE /\ Op(w) = "retrieve"
                     /\ row' = [row EXCEPT ![on(w)].views = copy[w].views + 1]
            <6>1. row'[a] = [row[a] EXCEPT !.views = copy[w].views + 1]
              BY <3>4, <5>1 DEF IInv, TypeOK
            <6>2. QED
              BY <2>3, <3>4, <5>1, <6>1 DEF AnnouncementRow
          <5>2. CASE row' = [row EXCEPT ![on(w)].likes = copy[w].likes + 1]
            <6>1. row'[a] = [row[a] EXCEPT !.likes = copy[w].likes + 1]
              BY <3>4, <5>2 DEF IInv, TypeOK
            <6>2. row[a] \in AnnouncementRow
              BY <2>3, <3>4
            <6>3. row'[a].comments = row[a].comments /\ row'[a].views = row[a].views
              BY <6>1, <6>2 DEF AnnouncementRow
            <6>4. QED
              BY <6>3
          <5>3. QED
            BY <2>1, <5>1, <5>2
        <4>4. QED
          BY <3>2, <4>1, <4>2, <4>3
      <3>5. QED
        BY <3>3, <3>4
    <2>6. RowsOK
      BY <2>1, <2>2, <2>4, <2>5 DEF RowsOK, IInv, TypeOK
    <2>7. CASE Goto(w, "status")
      BY <1>1, <2>1, <2>6, <2>7, GoesIInv DEF Goto, Steps
    <2>8. CASE Respond(w)
      BY <2>1, <2>6, <2>8, EndsIInv DEF Respond, IInv, TypeOK, NewComments
    <2>9. QED
      BY <2>1, <2>7, <2>8
  <1>4. QED
    BY <1>2, <1>3

(* A request that looks a row up and goes on, with no counted row changed.  *)
LEMMA LookIInv ==
    ASSUME IInv, NEW w \in Workers, NEW step \in {"commit", "flag"}, Look(w, step),
           pc[w] \in {"own", "status"},
           step = "commit" => Op(w) = "unlike",
           UNCHANGED <<row, viewed, liked, comment>>,
           read' \in [Announcements \X Users -> BOOLEAN \cup {None}]
    PROVE  IInv'
  <1>1. RowsOK
    BY RowsKept DEF Look, IInv, TypeOK
  <1>2. Op(w) \in MemberOps /\ step \in Steps
    BY DEF IInv, Serving, ServesOK, Steps
  <1>3. QED
    BY <1>1, <1>2, GoesIInv DEF Look, IInv, TypeOK

LEMMA StatusIInv ==
    ASSUME IInv, NEW w \in Workers, Status(w) PROVE IInv'
  <1>1. pc[w] = "status" /\ me(w) \in Announcements \X Users
    BY JobType DEF Status, IInv, Serving, ServesOK
  <1>2. CASE Fail(w)
    BY <1>2, FailIInv
  <1>3. CASE ~ Fail(w)
    <2>1. /\ read' \in [Announcements \X Users -> BOOLEAN \cup {None}]
          /\ UNCHANGED <<row, viewed, liked, comment>>
          /\ \/ Respond(w) /\ UNCHANGED read
             \/ Look(w, "flag")
      BY <1>1, <1>3, AnnouncementsAssumption DEF Status, IInv, TypeOK, db
    <2>2. CASE Respond(w) /\ UNCHANGED read
      BY <2>1, <2>2, RespondIInv DEF db
    <2>3. CASE Look(w, "flag")
      BY <1>1, <2>1, <2>3, LookIInv
    <2>4. QED
      BY <2>1, <2>2, <2>3
  <1>4. QED
    BY <1>2, <1>3

LEMMA OwnIInv ==
    ASSUME IInv, NEW w \in Workers, Own(w) PROVE IInv'
  <1>1. CASE Respond(w) /\ UNCHANGED db
    BY <1>1, RespondIInv
  <1>2. CASE Look(w, "commit") /\ UNCHANGED db
    BY <1>2, LookIInv DEF Own, db, IInv, TypeOK, Serving, ServesOK
  <1>3. QED
    BY <1>1, <1>2 DEF Own

LEMMA FlagIInv ==
    ASSUME IInv, NEW w \in Workers, Flag(w) PROVE IInv'
  <1>1. me(w) \in Announcements \X Users
    BY JobType DEF Flag, IInv, Serving, ServesOK
  <1>2. /\ read' \in [Announcements \X Users -> BOOLEAN \cup {None}]
        /\ UNCHANGED <<row, viewed, liked, comment>> /\ Respond(w)
    BY <1>1 DEF Flag, IInv, TypeOK
  <1>3. RowsOK
    BY <1>2, RowsKept DEF Respond, IInv, TypeOK
  <1>4. QED
    BY <1>2, <1>3, EndsIInv DEF Respond, IInv, TypeOK, NewComments

LEMMA AgainIInv ==
    ASSUME IInv, NEW w \in Workers, Again(w) PROVE IInv'
  <1>1. CASE Fail(w)
    BY <1>1, FailIInv
  <1>2. CASE Goto(w, "write") /\ UNCHANGED db
    <2>1. RowsOK
      BY <1>2, RowsKept DEF Goto, db, IInv, TypeOK
    <2>2. QED
      BY <1>2, <2>1, GoesIInv DEF Again, Goto, Steps, db, IInv, TypeOK
  <1>3. QED
    BY <1>1, <1>2 DEF Again

-----------------------------------------------------------------------------
(* Steps that write one announcement and end, and delete no counted row.    *)
LEMMA WritesIInv ==
    ASSUME IInv, NEW w \in Workers, Forget(w), held' \subseteq Workers,
           NEW a \in Announcements, NEW new \in AnnouncementRow,
           row' = [row EXCEPT ![a] = new],
           liked' \subseteq Announcements \X Users,
           comment' \in [Comments -> Announcements \cup {None}],
           UNCHANGED <<viewed, read, crashes>>,
           revived \subseteq revived', revived' \subseteq Announcements,
           \A v \in Workers \ {w} : job[v] # None /\ Op(v) = "add_comment" =>
               comment'[job[v].comment] = None,
           \A b \in Announcements : NC(b) <= NC(b)',
           a \notin revived' =>
               row[a] # None /\ new.views <= NV(a) /\ new.comments <= NC(a)'
    PROVE  IInv'
  <1>1. \A b \in Announcements : NV(b)' = NV(b) /\ NV(b) \in Nat /\ NC(b) \in Nat /\ NC(b)' \in Nat
    BY CountsAreNat, CountsAreNatNext DEF NV, ViewsOf
  <1>2. row' \in [Announcements -> AnnouncementRow \cup {None}] /\ crashes' \in Nat
    BY DEF IInv, TypeOK
  <1>3. ASSUME NEW b \in Announcements \ revived', row'[b] # None
        PROVE  /\ row[b] # None
               /\ row'[b].views <= NV(b) /\ row'[b].comments <= NC(b)'
    <2>1. CASE b = a
      BY <1>3, <2>1 DEF IInv, TypeOK
    <2>2. CASE b # a
      <3>1. row'[b] = row[b] /\ b \notin revived
        BY <1>3, <2>2 DEF IInv, TypeOK
      <3>2. row[b].views <= NV(b) /\ row[b].comments <= NC(b) /\ row[b].comments \in Nat
        BY <1>3, <3>1, RowBounds
      <3>3. QED
        BY <1>1, <1>3, <3>1, <3>2
    <2>3. QED
      BY <2>1, <2>2
  <1>4. RowsOK
    BY <1>1, <1>2, <1>3 DEF RowsOK, IInv, TypeOK
  <1>5. QED
    BY <1>2, <1>4, EndsIInv

LEMMA SameComments ==
    ASSUME IInv, NEW w \in Workers, comment' = comment
    PROVE  /\ comment' \in [Comments -> Announcements \cup {None}]
           /\ \A v \in Workers \ {w} : job[v] # None /\ Op(v) = "add_comment" =>
                  comment'[job[v].comment] = None
           /\ \A b \in Announcements : NC(b)' = NC(b) /\ NC(b) <= NC(b)'
           /\ revived \subseteq Announcements /\ liked \subseteq Announcements \X Users
  <1>1. \A b \in Announcements : NC(b)' = NC(b) /\ NC(b) \in Nat
    BY CountsAreNat DEF NC, CommentsOf
  <1>2. QED
    BY <1>1 DEF IInv, TypeOK, NewComments

LEMMA UnlikeIInv ==
    ASSUME IInv, NEW w \in Workers, Unlike(w) PROVE IInv'
  <1>1. CASE Fail(w)
    BY <1>1, FailIInv
  <1>2. CASE ~ Fail(w)
    <2>1. PICK a \in Announcements : a = on(w)
      BY JobType DEF Unlike
    <2>2. /\ row[a] \in AnnouncementRow /\ row[a] # None
          /\ copy[w].likes \in Nat
      BY <1>2, <2>1, JobType DEF Unlike, IInv, TypeOK, AnnouncementRow
    <2>3. PICK new : new = [row[a] EXCEPT !.likes = Less(copy[w].likes)]
      OBVIOUS
    <2>4. new \in AnnouncementRow /\ new.views = row[a].views /\ new.comments = row[a].comments
      BY <2>2, <2>3 DEF AnnouncementRow, Less
    <2>5. row' = [row EXCEPT ![a] = new]
      BY <1>2, <2>1, <2>3 DEF Unlike
    <2>6. /\ Forget(w) /\ held' \subseteq Workers
          /\ liked' \subseteq Announcements \X Users
          /\ UNCHANGED <<viewed, comment, read, revived, crashes>>
      BY <1>2 DEF Unlike, IInv, TypeOK
    <2>7. a \notin revived => new.views <= NV(a) /\ new.comments <= NC(a)
      BY <2>2, <2>4, RowBounds
    <2>8. QED
      BY <2>2, <2>4, <2>5, <2>6, <2>7, WritesIInv, SameComments
  <1>3. QED
    BY <1>1, <1>2

LEMMA WriteIInv ==
    ASSUME IInv, NEW w \in Workers, Write(w) PROVE IInv'
  <1>1. PICK a \in Announcements : a = on(w)
    BY JobType DEF Write
  <1>2. copy[w] \in AnnouncementRow /\ job[w] # None
    BY JobType DEF Write
  <1>3. CASE Op(w) = "update"
    <2>1. PICK published \in BOOLEAN :
              row' = [row EXCEPT ![a] = [copy[w] EXCEPT !.published = published]]
      BY <1>1, <1>3 DEF Write
    <2>2. PICK new : new = [copy[w] EXCEPT !.published = published]
      OBVIOUS
    <2>3. new \in AnnouncementRow /\ new.views = copy[w].views /\ new.comments = copy[w].comments
      BY <1>2, <2>2 DEF AnnouncementRow
    <2>4. /\ Forget(w) /\ held' \subseteq Workers
          /\ UNCHANGED <<viewed, liked, comment, read, crashes>>
          /\ revived' = IF row[a] = None THEN revived \cup {a} ELSE revived
      BY <1>1, <1>3 DEF Write, IInv, TypeOK
    <2>5. a \notin revived' => row[a] # None /\ new.views <= NV(a) /\ new.comments <= NC(a)
      <3>1. SUFFICES ASSUME a \notin revived' PROVE row[a] # None /\ new.views <= NV(a) /\ new.comments <= NC(a)
        OBVIOUS
      <3>2. row[a] # None /\ a \notin revived
        BY <2>4, <3>1
      <3>3. copy[w].views + Due(w) <= NV(a) /\ copy[w].comments <= NC(a)
        BY <1>1, <1>2, <3>2, RowBounds
      <3>4. Due(w) \in Nat /\ copy[w].views \in Nat /\ NV(a) \in Nat
        BY <1>2, CountsAreNat DEF Due, AnnouncementRow
      <3>5. QED
        BY <2>3, <3>2, <3>3, <3>4
    <2>6. QED
      <3>1. row' = [row EXCEPT ![a] = new]
        BY <2>1, <2>2
      <3>2. QED
        BY <2>3, <2>4, <2>5, <3>1, WritesIInv, SameComments
  <1>4. CASE Op(w) # "update" /\ ~ Fail(w)
    <2>1. /\ row[a] \in AnnouncementRow /\ row[a] # None
          /\ row' = [row EXCEPT ![a].published = (Op(w) = "publish")]
          /\ Forget(w) /\ held' \subseteq Workers
          /\ UNCHANGED <<viewed, liked, comment, read, revived, crashes>>
      BY <1>1, <1>4 DEF Write, Respond, IInv, TypeOK
    <2>2. PICK new : new = [row[a] EXCEPT !.published = (Op(w) = "publish")]
      OBVIOUS
    <2>3. new \in AnnouncementRow /\ new.views = row[a].views /\ new.comments = row[a].comments
      BY <2>1, <2>2 DEF AnnouncementRow
    <2>4. a \notin revived => new.views <= NV(a) /\ new.comments <= NC(a)
      BY <2>1, <2>3, RowBounds
    <2>5. QED
      <3>1. row' = [row EXCEPT ![a] = new]
        BY <2>1, <2>2
      <3>2. QED
        <4>1. /\ Forget(w) /\ held' \subseteq Workers /\ row[a] # None
              /\ UNCHANGED <<viewed, liked, comment, read, revived, crashes>>
          BY <2>1
        <4>2. QED
          BY <2>3, <2>4, <3>1, <4>1, WritesIInv, SameComments
  <1>5. CASE Fail(w)
    BY <1>5, FailIInv
  <1>6. QED
    BY <1>3, <1>4, <1>5

LEMMA PostCommentIInv ==
    ASSUME IInv, NEW w \in Workers, PostComment(w) PROVE IInv'
  <1>1. CASE Fail(w)
    BY <1>1, FailIInv
  <1>2. CASE ~ Fail(w)
    <2>1. PICK a \in Announcements, c \in Comments : a = on(w) /\ c = job[w].comment
      BY JobType DEF PostComment, IInv, Serving, ServesOK
    <2>2. /\ row[a] \in AnnouncementRow /\ row[a] # None
          /\ copy[w] \in AnnouncementRow /\ job[w] # None
          /\ comment[c] = None
          /\ \A v \in Workers \ {w} : job[v] # None => job[v].comment # c
      BY <1>2, <2>1, JobType DEF PostComment, IInv, TypeOK, NewComments
    <2>3. /\ comment' = [comment EXCEPT ![c] = a]
          /\ row' = [row EXCEPT ![a].comments = More(copy[w].comments)]
          /\ Forget(w) /\ held' \subseteq Workers
          /\ UNCHANGED <<viewed, liked, read, revived, crashes>>
      BY <1>2, <2>1 DEF PostComment, Respond, IInv, TypeOK
    <2>4. PICK new : new = [row[a] EXCEPT !.comments = More(copy[w].comments)]
      OBVIOUS
    <2>5. /\ new \in AnnouncementRow
          /\ new.views = row[a].views /\ new.comments = copy[w].comments + 1
      BY <2>2, <2>4 DEF AnnouncementRow, More
    <2>6. NC(a)' = NC(a) + 1 /\ \A b \in Announcements \ {a} : NC(b)' = NC(b)
      <3>1. CommentsOf(a)' = CommentsOf(a) \cup {c} /\ c \notin CommentsOf(a)
        BY <2>2, <2>3, AnnouncementsAssumption DEF CommentsOf, IInv, TypeOK
      <3>2. \A b \in Announcements \ {a} : CommentsOf(b)' = CommentsOf(b)
        BY <2>2, <2>3, AnnouncementsAssumption DEF CommentsOf, IInv, TypeOK
      <3>3. NC(a)' = NC(a) + 1
        BY <3>1, CountsAreNat, FS_AddElement DEF NC
      <3>4. QED
        BY <3>2, <3>3 DEF NC
    <2>7. \A b \in Announcements : NC(b) \in Nat /\ NC(b) <= NC(b)'
      BY <2>6, CountsAreNat
    <2>8. a \notin revived => new.views <= NV(a) /\ new.comments <= NC(a)'
      <3>1. a \notin revived => row[a].views <= NV(a) /\ copy[w].comments <= NC(a)
        BY <2>1, <2>2, RowBounds
      <3>2. QED
        BY <2>2, <2>5, <2>6, <2>7, <3>1 DEF AnnouncementRow
    <2>9. /\ row' = [row EXCEPT ![a] = new]
          /\ comment' \in [Comments -> Announcements \cup {None}]
          /\ \A v \in Workers \ {w} : job[v] # None /\ Op(v) = "add_comment" =>
                 comment'[job[v].comment] = None
      BY <2>2, <2>3, <2>4 DEF IInv, TypeOK, NewComments
    <2>10. QED
      <3>1. revived \subseteq Announcements /\ liked \subseteq Announcements \X Users
        BY DEF IInv, TypeOK
      <3>2. QED
        <4>1. /\ Forget(w) /\ held' \subseteq Workers /\ row[a] # None
              /\ UNCHANGED <<viewed, liked, read, revived, crashes>>
          BY <2>2, <2>3
        <4>2. QED
          BY <2>5, <2>7, <2>8, <2>9, <3>1, <4>1, WritesIInv
  <1>3. QED
    BY <1>1, <1>2

LEMMA CascadeIInv ==
    ASSUME IInv, NEW w \in Workers, Cascade(w) PROVE IInv'
  <1>1. PICK a \in Announcements : a = on(w)
    BY JobType DEF Cascade
  <1>2. /\ row' = [row EXCEPT ![a] = None]
        /\ viewed' = {x \in viewed : x[1] # a}
        /\ liked' = {x \in liked : x[1] # a}
        /\ comment' = [c \in Comments |-> IF comment[c] = a THEN None ELSE comment[c]]
        /\ read' = [x \in Announcements \X Users |-> IF x[1] = a THEN None ELSE read[x]]
        /\ Forget(w) /\ held' \subseteq Workers
        /\ UNCHANGED <<revived, crashes>>
    BY <1>1 DEF Cascade, IInv, TypeOK
  <1>3. \A b \in Announcements \ {a} : /\ NV(b)' = NV(b) /\ NC(b)' = NC(b)
                                       /\ NV(b) \in Nat /\ NC(b) \in Nat
    <2>1. \A b \in Announcements \ {a} :
              ViewsOf(b)' = ViewsOf(b) /\ CommentsOf(b)' = CommentsOf(b)
      BY <1>2, AnnouncementsAssumption DEF ViewsOf, CommentsOf
    <2>2. QED
      BY <2>1, CountsAreNat DEF NV, NC
  <1>4. \A b \in Announcements \ revived : row'[b] # None =>
            /\ b # a /\ row'[b] = row[b] /\ row[b] # None
            /\ row[b].views <= NV(b) /\ row[b].comments <= NC(b)
    BY <1>2, RowBounds DEF IInv, TypeOK
  <1>5. RowsOK
    BY <1>2, <1>3, <1>4 DEF RowsOK, IInv, TypeOK
  <1>6. QED
    BY <1>2, <1>5, EndsIInv DEF IInv, TypeOK, NewComments, Serving, ServesOK

-----------------------------------------------------------------------------
LEMMA StutterIInv == IInv /\ UNCHANGED vars => IInv'
  <1> SUFFICES ASSUME IInv, UNCHANGED vars PROVE IInv'
    OBVIOUS
  <1> USE DEF vars, db, mine
  <1>1. TypeOK' /\ Serving' /\ NewComments'
    BY DEF IInv, TypeOK, Serving, ServesOK, NewComments, Op
  <1>2. CountsOK'
    BY DEF IInv, CountsOK, Bounded, NV, NC, ViewsOf, CommentsOf, Due, Op, on
  <1>3. QED
    BY <1>1, <1>2 DEF IInv

(* The inductive invariant holds in every reachable state.                  *)
THEOREM Invariance == Spec => []IInv
  <1>1. Init => IInv
    BY InitIInv
  <1>2. IInv /\ [Next]_vars => IInv'
    <2>1. ASSUME IInv, NEW w \in Workers,
                 \/ ByMember(w) \/ ByManager(w) \/ AddComment(w) \/ Create(w)
                 \/ Insert(w) \/ Count(w) \/ Own(w) \/ Unlike(w) \/ PostComment(w)
                 \/ Status(w) \/ Flag(w) \/ Again(w) \/ Write(w) \/ Cascade(w)
                 \/ Die(w)
          PROVE  IInv'
      BY <2>1, BeginsIInv, CreateIInv, InsertIInv, CountIInv, OwnIInv, UnlikeIInv,
         PostCommentIInv, StatusIInv, FlagIInv, AgainIInv, WriteIInv, CascadeIInv,
         DieIInv
    <2>2. QED
      BY <2>1, StutterIInv DEF Next
  <1>3. QED
    BY <1>1, <1>2, PTL DEF Spec

(* Every variable keeps its type, whoever runs against whom.                *)
THEOREM AnnouncementsTypeCorrect == Spec => []TypeOK
  <1>1. IInv => TypeOK
    BY DEF IInv
  <1>2. QED
    BY <1>1, Invariance, PTL

(* views_count never exceeds the number of users who viewed, except after   *)
(* an update has inserted a deleted announcement again.                     *)
THEOREM ViewsAreBacked == Spec => []ViewsNeverInflated
  <1>1. IInv => ViewsNeverInflated
    BY RowBounds DEF ViewsNeverInflated, NV
  <1>2. QED
    BY <1>1, Invariance, PTL

(* comments_count never exceeds the number of comments, with the same       *)
(* exception.                                                               *)
THEOREM CommentsAreBacked == Spec => []CommentsNeverInflated
  <1>1. IInv => CommentsNeverInflated
    BY RowBounds DEF CommentsNeverInflated, NC
  <1>2. QED
    BY <1>1, Invariance, PTL
=============================================================================
