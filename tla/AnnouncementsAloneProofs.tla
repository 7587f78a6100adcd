------------------------ MODULE AnnouncementsAloneProofs ------------------------
(***************************************************************************)
(* One worker, which may die at any point, serves every announcement, user  *)
(* and comment: comments_count is exact, likes_count never exceeds the      *)
(* likes, and views and likes go uncounted only when the worker dies.  What *)
(* makes this true is that the worker's copy shows the counters of the row  *)
(* it will save (Fresh); what keeps likes_count down is that an unlike      *)
(* which finds the counter at zero still takes a like back (Balanced).      *)
(***************************************************************************)
EXTENDS AnnouncementsProofs

OneWorker == \E w : Workers = {w}

NL(a) == Cardinality(LikesOf(a))

CountDue(w, a) == IF pc[w] = "count" /\ on(w) = a THEN 1 ELSE 0
LikeDue(w, a)  == IF pc[w] = "count" /\ on(w) = a /\ Op(w) = "like" THEN 1 ELSE 0

(* The copy of a request shows the row, the view that the request itself    *)
(* has counted aside; an unlike about to commit still has its like.         *)
Fresh(w) ==
    job[w] # None =>
        /\ row[on(w)] # None
        /\ copy[w].likes = row[on(w)].likes
        /\ copy[w].comments = row[on(w)].comments
        /\ pc[w] \notin {"status", "flag"} => copy[w].views = row[on(w)].views
        /\ pc[w] = "commit" /\ Op(w) = "unlike" => w \in held /\ me(w) \in liked

Bare(a) == ViewsOf(a) = {} /\ LikesOf(a) = {} /\ CommentsOf(a) = {}

(* The counters of an announcement against the rows they count.             *)
Balanced(w, a) ==
    /\ row[a].comments = NC(a)
    /\ row[a].likes + LikeDue(w, a) <= NL(a)
    /\ Uncounted(a) <= crashes + CountDue(w, a)

AloneFor(w) ==
    /\ Fresh(w)
    /\ \A a \in Announcements : IF row[a] = None THEN Bare(a) ELSE Balanced(w, a)

Alone == \A w \in Workers : AloneFor(w)

-----------------------------------------------------------------------------
LEMMA LikesAreNat ==
    ASSUME NEW a
    PROVE  /\ NL(a) \in Nat /\ NV(a) \in Nat /\ NC(a) \in Nat
           /\ IsFiniteSet(LikesOf(a)) /\ IsFiniteSet(ViewsOf(a))
           /\ IsFiniteSet(CommentsOf(a))
  <1>1. LikesOf(a) \subseteq Users
    BY DEF LikesOf
  <1>2. QED
    BY <1>1, CountsAreNat, AnnouncementsAssumption, FS_Subset, FS_CardinalityType DEF NL

(* A step touches one announcement; the others keep their rows, and what is *)
(* still to be counted is not theirs.                                       *)
LEMMA TouchesOne ==
    ASSUME IInv, IInv', Alone, NEW w, Workers = {w}, NEW a \in Announcements,
           pc[w] = "count" => on(w) = a,
           pc'[w] = "count" => on(w)' = a,
           crashes' = crashes,
           \A b \in Announcements \ {a} :
               /\ row'[b] = row[b]
               /\ ViewsOf(b)' = ViewsOf(b) /\ LikesOf(b)' = LikesOf(b)
               /\ CommentsOf(b)' = CommentsOf(b),
           Fresh(w)',
           IF row'[a] = None THEN Bare(a)' ELSE Balanced(w, a)'
    PROVE  Alone'
  <1>1. ASSUME NEW b \in Announcements \ {a}
        PROVE  IF row'[b] = None THEN Bare(b)' ELSE Balanced(w, b)'
    <2>1. IF row[b] = None THEN Bare(b) ELSE Balanced(w, b)
      BY DEF Alone, AloneFor
    <2>2. /\ CountDue(w, b) = 0 /\ LikeDue(w, b) = 0
          /\ CountDue(w, b)' = 0 /\ LikeDue(w, b)' = 0
      BY DEF CountDue, LikeDue
    <2>3. /\ row'[b] = row[b] /\ (Bare(b)' <=> Bare(b))
          /\ NV(b)' = NV(b) /\ NL(b)' = NL(b) /\ NC(b)' = NC(b)
          /\ Uncounted(b)' = Uncounted(b)
      BY DEF Bare, NV, NL, NC, Uncounted
    <2>4. QED
      BY <2>1, <2>2, <2>3 DEF Balanced
  <1>2. QED
    BY <1>1 DEF Alone, AloneFor

(* A step that leaves counters and counted rows alone.                      *)
LEMMA Quiet ==
    ASSUME IInv, IInv', Alone, NEW w, Workers = {w},
           UNCHANGED <<viewed, liked, comment>>,
           \A a \in Announcements :
               /\ row'[a] = None <=> row[a] = None
               /\ row[a] # None => /\ row'[a].views = row[a].views
                                   /\ row'[a].likes = row[a].likes
                                   /\ row'[a].comments = row[a].comments,
           \A a \in Announcements :
               /\ crashes + CountDue(w, a) <= crashes' + CountDue(w, a)'
               /\ LikeDue(w, a)' <= LikeDue(w, a),
           Fresh(w)'
    PROVE  Alone'
  <1>1. ASSUME NEW a \in Announcements
        PROVE  IF row'[a] = None THEN Bare(a)' ELSE Balanced(w, a)'
    <2>1. IF row[a] = None THEN Bare(a) ELSE Balanced(w, a)
      BY DEF Alone, AloneFor
    <2>2. /\ Bare(a)' <=> Bare(a)
          /\ NV(a)' = NV(a) /\ NL(a)' = NL(a) /\ NC(a)' = NC(a)
      BY DEF Bare, NV, NL, NC, ViewsOf, LikesOf, CommentsOf
    <2>3. CASE row[a] = None
      BY <2>1, <2>2, <2>3
    <2>4. CASE row[a] # None
      <3>1. /\ row[a].views \in Nat /\ row[a].likes \in Nat
            /\ row'[a].views = row[a].views /\ row'[a].likes = row[a].likes
            /\ row'[a].comments = row[a].comments
        BY <2>4 DEF IInv, TypeOK, AnnouncementRow
      <3>2. /\ CountDue(w, a) \in Nat /\ CountDue(w, a)' \in Nat
            /\ LikeDue(w, a) \in Nat /\ LikeDue(w, a)' \in Nat
            /\ crashes \in Nat /\ crashes' \in Nat
        BY DEF CountDue, LikeDue, IInv, TypeOK
      <3>3. Uncounted(a)' = Uncounted(a) /\ Uncounted(a) \in Int
        BY <2>2, <3>1, LikesAreNat DEF Uncounted, NV, NL
      <3>4. Balanced(w, a)
        BY <2>1, <2>4
      <3>5. row'[a].comments = NC(a)'
        BY <2>2, <3>1, <3>4 DEF Balanced
      <3>6. row'[a].likes + LikeDue(w, a)' <= NL(a)'
        BY <2>2, <3>1, <3>2, <3>4, LikesAreNat DEF Balanced
      <3>7. Uncounted(a)' <= crashes' + CountDue(w, a)'
        BY <3>2, <3>3, <3>4 DEF Balanced
      <3>8. QED
        BY <2>4, <3>5, <3>6, <3>7 DEF Balanced
    <2>5. QED
      BY <2>3, <2>4
  <1>2. QED
    BY <1>1 DEF Alone, AloneFor

(* The two ways in which a request ends without having counted anything.    *)
LEMMA EndsAlone ==
    ASSUME IInv, IInv', Alone, NEW w, Workers = {w}, Forget(w),
           UNCHANGED <<viewed, liked, comment>>,
           \A a \in Announcements :
               /\ row'[a] = None <=> row[a] = None
               /\ row[a] # None => /\ row'[a].views = row[a].views
                                   /\ row'[a].likes = row[a].likes
                                   /\ row'[a].comments = row[a].comments,
           \/ pc[w] # "count" /\ crashes' = crashes
           \/ crashes' = crashes + 1
    PROVE  Alone'
  <1>1. job'[w] = None /\ pc'[w] = "idle"
    BY DEF Forget, IInv, TypeOK
  <1>2. ASSUME NEW a \in Announcements
        PROVE  /\ crashes + CountDue(w, a) <= crashes' + CountDue(w, a)'
               /\ LikeDue(w, a)' <= LikeDue(w, a)
    <2>1. CountDue(w, a)' = 0 /\ LikeDue(w, a)' = 0
      BY <1>1 DEF CountDue, LikeDue
    <2>2. /\ CountDue(w, a) \in {0, 1} /\ LikeDue(w, a) \in {0, 1}
          /\ pc[w] # "count" => CountDue(w, a) = 0
      BY DEF CountDue, LikeDue
    <2>3. crashes \in Nat
      BY DEF IInv, TypeOK
    <2>4. QED
      BY <2>1, <2>2, <2>3
  <1>3. Fresh(w)'
    BY <1>1 DEF Fresh
  <1>4. QED
    BY <1>2, <1>3, Quiet

LEMMA RespondAlone ==
    ASSUME IInv, IInv', Alone, NEW w, Workers = {w}, pc[w] # "count",
           Respond(w), UNCHANGED <<row, viewed, liked, comment>>
    PROVE  Alone'
  BY EndsAlone DEF Respond

(* The announcement of a request is there, so its queries do not fail.      *)
LEMMA NeverFails ==
    ASSUME IInv, Alone, NEW w \in Workers, pc[w] # "idle"
    PROVE  ~ Fail(w)
  BY JobType DEF Fail, Alone, AloneFor, Fresh

(* A request that goes on without having counted anything.                  *)
LEMMA GoesAlone ==
    ASSUME IInv, IInv', Alone, NEW w, Workers = {w},
           UNCHANGED <<row, viewed, liked, comment, job, copy, crashes>>,
           pc[w] # "idle", pc[w] # "count", pc'[w] # "count",
           pc[w] \in {"status", "flag"} => pc'[w] \in {"status", "flag"},
           pc'[w] = "commit" /\ Op(w) = "unlike" => w \in held' /\ me(w) \in liked
    PROVE  Alone'
  <1>1. Fresh(w) /\ job[w] # None
    BY JobType DEF Alone, AloneFor
  <1>2. Fresh(w)'
    BY <1>1 DEF Fresh, on, me, Op
  <1>3. \A a \in Announcements :
            /\ crashes + CountDue(w, a) <= crashes' + CountDue(w, a)'
            /\ LikeDue(w, a)' <= LikeDue(w, a)
    BY DEF CountDue, LikeDue, IInv, TypeOK
  <1>4. QED
    BY <1>2, <1>3, Quiet

-----------------------------------------------------------------------------
LEMMA LoadAlone ==
    ASSUME IInv, IInv', Alone, NEW w, Workers = {w}, NEW j \in Job, Load(w, j)
    PROVE  Alone'
  <1>1. /\ pc[w] = "idle" /\ pc'[w] = First[j.op]
        /\ job'[w] = j /\ copy'[w] = row[j.on] /\ row[j.on] # None
        /\ UNCHANGED <<row, viewed, liked, comment, crashes>>
    BY DEF Load, db, IInv, TypeOK
  <1>2. First[j.op] # "count" /\ (First[j.op] = "commit" => j.op = "add_comment")
    BY DEF First, Job, AllOps, MemberOps, ManagerOps
  <1>3. Fresh(w)'
    BY <1>1, <1>2 DEF Fresh, on, Op
  <1>4. \A a \in Announcements :
            /\ crashes + CountDue(w, a) <= crashes' + CountDue(w, a)'
            /\ LikeDue(w, a)' <= LikeDue(w, a)
    BY <1>1, <1>2 DEF CountDue, LikeDue, IInv, TypeOK
  <1>5. QED
    BY <1>1, <1>3, <1>4, Quiet

LEMMA BeginsAlone ==
    ASSUME IInv, IInv', Alone, NEW w, Workers = {w},
           ByMember(w) \/ ByManager(w) \/ AddComment(w)
    PROVE  Alone'
  <1>1. ASSUME NEW op \in MemberOps, NEW a \in Announcements, NEW u \in Users
        PROVE  [op |-> op, on |-> a, user |-> u, comment |-> None] \in Job
    BY DEF Job, AllOps
  <1>2. ASSUME NEW op \in ManagerOps, NEW a \in Announcements
        PROVE  [op |-> op, on |-> a, user |-> None, comment |-> None] \in Job
    BY DEF Job, AllOps
  <1>3. ASSUME NEW a \in Announcements, NEW c \in Comments
        PROVE  [op |-> "add_comment", on |-> a, user |-> None, comment |-> c] \in Job
    BY DEF Job, AllOps
  <1>4. \E j \in Job : Load(w, j)
    BY <1>1, <1>2, <1>3 DEF ByMember, ByManager, AddComment
  <1>5. QED
    BY <1>4, LoadAlone

LEMMA CreateAlone ==
    ASSUME IInv, IInv', Alone, NEW w, Workers = {w}, Create(w)
    PROVE  Alone'
  <1>1. PICK a \in Announcements, published \in BOOLEAN :
            /\ pc[w] = "idle" /\ row[a] = None
            /\ row' = [row EXCEPT ![a] = [published |-> published, views |-> 0,
                                          likes |-> 0, comments |-> 0]]
            /\ UNCHANGED <<viewed, liked, comment, read, mine, crashes>>
    BY DEF Create
  <1>2. job[w] = None /\ job'[w] = None /\ pc'[w] = "idle"
    BY <1>1 DEF mine, IInv, Serving, ServesOK
  <1>3. /\ row'[a] # None
        /\ row'[a].views = 0 /\ row'[a].likes = 0 /\ row'[a].comments = 0
    BY <1>1, AnnouncementsAssumption DEF IInv, TypeOK, AnnouncementRow
  <1>4. \A b : /\ ViewsOf(b)' = ViewsOf(b) /\ LikesOf(b)' = LikesOf(b)
               /\ CommentsOf(b)' = CommentsOf(b)
    BY <1>1 DEF ViewsOf, LikesOf, CommentsOf
  <1>5. Bare(a)
    BY <1>1 DEF Alone, AloneFor
  <1>6. NV(a)' = 0 /\ NL(a)' = 0 /\ NC(a)' = 0
    BY <1>4, <1>5, FS_EmptySet DEF Bare, NV, NL, NC
  <1>7. LikeDue(w, a)' = 0 /\ CountDue(w, a)' = 0
    BY <1>2 DEF LikeDue, CountDue
  <1>8. Balanced(w, a)'
    <2>1. Uncounted(a)' = 0
      BY <1>3, <1>6 DEF Uncounted, NV, NL
    <2>2. QED
      BY <1>3, <1>6, <1>7, <2>1 DEF Balanced, IInv, TypeOK
  <1>9. \A b \in Announcements \ {a} : row'[b] = row[b]
    BY <1>1 DEF IInv, TypeOK
  <1>10. Fresh(w)'
    BY <1>2 DEF Fresh
  <1>11. QED
    BY <1>1, <1>2, <1>3, <1>4, <1>8, <1>9, <1>10, TouchesOne

-----------------------------------------------------------------------------
(* One row more in a set of pairs.                                          *)
LEMMA MoreLikes ==
    ASSUME NEW a \in Announcements, NEW u \in Users, <<a, u>> \notin liked,
           liked' = liked \cup {<<a, u>>}
    PROVE  /\ NL(a)' = NL(a) + 1
           /\ \A b \in Announcements \ {a} : LikesOf(b)' = LikesOf(b)
  <1>1. LikesOf(a)' = LikesOf(a) \cup {u} /\ u \notin LikesOf(a)
    BY DEF LikesOf
  <1>2. \A b \in Announcements \ {a} : LikesOf(b)' = LikesOf(b)
    BY DEF LikesOf
  <1>3. QED
    BY <1>1, <1>2, LikesAreNat, FS_AddElement DEF NL

LEMMA FewerLikes ==
    ASSUME NEW a \in Announcements, NEW u \in Users, <<a, u>> \in liked,
           liked' = liked \ {<<a, u>>}
    PROVE  /\ NL(a)' = NL(a) - 1
           /\ \A b \in Announcements \ {a} : LikesOf(b)' = LikesOf(b)
  <1>1. LikesOf(a)' = LikesOf(a) \ {u} /\ u \in LikesOf(a)
    BY DEF LikesOf
  <1>2. \A b \in Announcements \ {a} : LikesOf(b)' = LikesOf(b)
    BY DEF LikesOf
  <1>3. QED
    BY <1>1, <1>2, LikesAreNat, FS_RemoveElement DEF NL

(* What the request of an only worker works on.                             *)
LEMMA Working ==
    ASSUME IInv, Alone, NEW w, Workers = {w}, pc[w] # "idle"
    PROVE  /\ job[w] # None /\ on(w) \in Announcements
           /\ row[on(w)] \in AnnouncementRow /\ row[on(w)] # None
           /\ copy[w] \in AnnouncementRow
           /\ Fresh(w) /\ Balanced(w, on(w))
  <1>1. /\ job[w] # None /\ on(w) \in Announcements /\ copy[w] \in AnnouncementRow
        /\ AloneFor(w)
    BY JobType DEF Alone
  <1>2. row[on(w)] # None /\ Fresh(w)
    BY <1>1 DEF AloneFor, Fresh
  <1>3. QED
    BY <1>1, <1>2 DEF AloneFor, IInv, TypeOK

LEMMA InsertAlone ==
    ASSUME IInv, IInv', Alone, NEW w, Workers = {w}, Insert(w)
    PROVE  Alone'
  <1>1. PICK a \in Announcements : a = on(w)
    BY Working DEF Insert
  <1>2. /\ pc[w] = "insert" /\ job[w] # None /\ row[a] # None
        /\ row[a] \in AnnouncementRow /\ Fresh(w) /\ Balanced(w, a)
        /\ ~ Fail(w)
    BY <1>1, Working, NeverFails DEF Insert
  <1>3. PICK u \in Users : me(w) = <<a, u>>
    <2>1. Op(w) \in MemberOps
      BY <1>2 DEF IInv, Serving, ServesOK, MemberOps
    <2>2. QED
      BY <1>1, <1>2, <2>1 DEF IInv, Serving, ServesOK, me, on
  <1>4. CASE UNCHANGED db /\ Respond(w)
    BY <1>2, <1>4, RespondAlone DEF db
  <1>5. CASE /\ Op(w) = "retrieve"
             /\ viewed' = viewed \cup {me(w)}
             /\ Goto(w, ThenCount(w))
             /\ UNCHANGED <<row, liked, comment, read>>
    <2>1. CASE me(w) \in viewed
      <3>1. viewed' = viewed /\ pc'[w] = "status"
        BY <1>5, <2>1 DEF ThenCount, Goto, IInv, TypeOK
      <3>2. QED
        BY <1>2, <1>5, <3>1, GoesAlone DEF Goto
    <2>2. CASE me(w) \notin viewed
      <3>1. pc'[w] = "count" /\ UNCHANGED <<job, copy, held, crashes>>
        BY <1>5, <2>2 DEF ThenCount, Goto, IInv, TypeOK
      <3>2. NV(a)' = NV(a) + 1
        BY <1>3, <1>5, <2>2, MoreViews
      <3>3. \A b \in Announcements \ {a} : ViewsOf(b)' = ViewsOf(b)
        BY <1>3, <1>5 DEF ViewsOf
      <3>4. \A b : LikesOf(b)' = LikesOf(b) /\ CommentsOf(b)' = CommentsOf(b)
        BY <1>5 DEF LikesOf, CommentsOf
      <3>5. NL(a)' = NL(a) /\ NC(a)' = NC(a)
        BY <3>4 DEF NL, NC
      <3>6. /\ LikeDue(w, a) = 0 /\ CountDue(w, a) = 0
            /\ LikeDue(w, a)' = 0 /\ CountDue(w, a)' = 1
        BY <1>1, <1>2, <1>5, <3>1 DEF LikeDue, CountDue, on, Op
      <3>7. Balanced(w, a)'
        <4>1. Uncounted(a)' = Uncounted(a) + 1 /\ Uncounted(a) \in Int
          BY <1>2, <1>5, <3>2, <3>5, LikesAreNat DEF Uncounted, NV, NL, AnnouncementRow
        <4>2. QED
          BY <1>2, <1>5, <3>1, <3>5, <3>6, <4>1 DEF Balanced, IInv, TypeOK
      <3>8. Fresh(w)'
        BY <1>2, <1>5, <3>1 DEF Fresh, on, me, Op
      <3>9. on(w)' = a /\ row' = row
        BY <1>1, <1>5, <3>1 DEF on
      <3>10. QED
        BY <1>2, <3>1, <3>3, <3>4, <3>7, <3>8, <3>9, TouchesOne
    <2>3. QED
      BY <2>1, <2>2
  <1>6. CASE /\ Op(w) = "like"
             /\ me(w) \notin liked
             /\ liked' = liked \cup {me(w)}
             /\ Goto(w, "count")
             /\ UNCHANGED <<row, viewed, comment, read>>
    <2>1. pc'[w] = "count" /\ UNCHANGED <<job, copy, held, crashes>>
      BY <1>6 DEF Goto, IInv, TypeOK
    <2>2. /\ NL(a)' = NL(a) + 1
          /\ \A b \in Announcements \ {a} : LikesOf(b)' = LikesOf(b)
      BY <1>3, <1>6, MoreLikes
    <2>3. \A b : ViewsOf(b)' = ViewsOf(b) /\ CommentsOf(b)' = CommentsOf(b)
      BY <1>6 DEF ViewsOf, CommentsOf
    <2>4. NV(a)' = NV(a) /\ NC(a)' = NC(a)
      BY <2>3 DEF NV, NC
    <2>5. /\ LikeDue(w, a) = 0 /\ CountDue(w, a) = 0
          /\ LikeDue(w, a)' = 1 /\ CountDue(w, a)' = 1
      BY <1>1, <1>2, <1>6, <2>1 DEF LikeDue, CountDue, on, Op
    <2>6. Balanced(w, a)'
      <3>1. Uncounted(a)' = Uncounted(a) + 1 /\ Uncounted(a) \in Int
        BY <1>2, <1>6, <2>2, <2>4, LikesAreNat DEF Uncounted, NV, NL, AnnouncementRow
      <3>2. row'[a].likes + 1 <= NL(a)'
        BY <1>2, <1>6, <2>2, <2>5, LikesAreNat DEF Balanced, AnnouncementRow
      <3>3. QED
        BY <1>2, <1>6, <2>1, <2>4, <2>5, <3>1, <3>2 DEF Balanced, IInv, TypeOK
    <2>7. Fresh(w)'
      BY <1>2, <1>6, <2>1 DEF Fresh, on, me, Op
    <2>8. on(w)' = a /\ row' = row
      BY <1>1, <1>6, <2>1 DEF on
    <2>9. QED
      BY <1>2, <2>1, <2>2, <2>3, <2>6, <2>7, <2>8, TouchesOne
  <1>7. QED
    BY <1>2, <1>4, <1>5, <1>6 DEF Insert

LEMMA CountAlone ==
    ASSUME IInv, IInv', Alone, NEW w, Workers = {w}, Count(w)
    PROVE  Alone'
  <1>1. PICK a \in Announcements : a = on(w)
    BY Working DEF Count
  <1>2. /\ pc[w] = "count" /\ job[w] # None /\ row[a] # None
        /\ row[a] \in AnnouncementRow /\ Fresh(w) /\ Balanced(w, a)
        /\ ~ Fail(w)
    BY <1>1, Working, NeverFails DEF Count
  <1>3. /\ copy[w].views = row[a].views /\ copy[w].likes = row[a].likes
        /\ row[a].views \in Nat /\ row[a].likes \in Nat
    BY <1>1, <1>2 DEF Fresh, AnnouncementRow
  <1>4. /\ UNCHANGED <<viewed, liked, comment, crashes>>
        /\ \A b \in Announcements \ {a} : row'[b] = row[b]
    BY <1>1, <1>2 DEF Count, Goto, Respond, IInv, TypeOK
  <1>5. \A b : /\ ViewsOf(b)' = ViewsOf(b) /\ LikesOf(b)' = LikesOf(b)
               /\ CommentsOf(b)' = CommentsOf(b)
    BY <1>4 DEF ViewsOf, LikesOf, CommentsOf
  <1>6. NV(a)' = NV(a) /\ NL(a)' = NL(a) /\ NC(a)' = NC(a)
    BY <1>5 DEF NV, NL, NC
  <1>7. CountDue(w, a) = 1 /\ crashes \in Nat
    BY <1>1, <1>2 DEF CountDue, IInv, TypeOK
  <1>8. CASE /\ Op(w) = "retrieve"
             /\ row' = [row EXCEPT ![a].views = copy[w].views + 1]
             /\ Goto(w, "status")
    <2>1. pc'[w] = "status" /\ UNCHANGED <<job, copy, held>>
      BY <1>8 DEF Goto, IInv, TypeOK
    <2>2. row'[a] = [row[a] EXCEPT !.views = copy[w].views + 1]
      BY <1>8 DEF IInv, TypeOK
    <2>3. /\ row'[a] # None /\ row'[a].views = row[a].views + 1
          /\ row'[a].likes = row[a].likes /\ row'[a].comments = row[a].comments
      <3>1. row'[a] \in AnnouncementRow
        BY <1>2, <1>3, <2>2 DEF AnnouncementRow
      <3>2. QED
        BY <1>2, <1>3, <2>2, <3>1, AnnouncementsAssumption DEF AnnouncementRow
    <2>4. /\ LikeDue(w, a) = 0 /\ LikeDue(w, a)' = 0 /\ CountDue(w, a)' = 0
      BY <1>8, <2>1 DEF LikeDue, CountDue, Op
    <2>5. Balanced(w, a)'
      <3>1. Uncounted(a)' = Uncounted(a) - 1 /\ Uncounted(a) \in Int
        BY <1>3, <1>6, <2>3, LikesAreNat DEF Uncounted, NV, NL
      <3>2. QED
        BY <1>2, <1>4, <1>6, <1>7, <2>3, <2>4, <3>1 DEF Balanced
    <2>6. Fresh(w)'
      BY <1>1, <1>2, <2>1, <2>3 DEF Fresh, on
    <2>7. QED
      BY <1>1, <1>4, <1>5, <2>1, <2>3, <2>5, <2>6, TouchesOne
  <1>9. CASE /\ Op(w) = "like"
             /\ row' = [row EXCEPT ![a].likes = copy[w].likes + 1]
             /\ Respond(w)
    <2>1. pc'[w] = "idle" /\ job'[w] = None
      BY <1>9 DEF Respond, Forget, IInv, TypeOK
    <2>2. row'[a] = [row[a] EXCEPT !.likes = copy[w].likes + 1]
      BY <1>9 DEF IInv, TypeOK
    <2>3. /\ row'[a] # None /\ row'[a].views = row[a].views
          /\ row'[a].likes = row[a].likes + 1 /\ row'[a].comments = row[a].comments
      <3>1. row'[a] \in AnnouncementRow
        BY <1>2, <1>3, <2>2 DEF AnnouncementRow
      <3>2. QED
        BY <1>2, <1>3, <2>2, <3>1, AnnouncementsAssumption DEF AnnouncementRow
    <2>4. /\ LikeDue(w, a) = 1 /\ LikeDue(w, a)' = 0 /\ CountDue(w, a)' = 0
      BY <1>1, <1>2, <1>9, <2>1 DEF LikeDue, CountDue
    <2>5. Balanced(w, a)'
      <3>1. Uncounted(a)' = Uncounted(a) - 1 /\ Uncounted(a) \in Int
        BY <1>3, <1>6, <2>3, LikesAreNat DEF Uncounted, NV, NL
      <3>2. row'[a].likes + 0 <= NL(a)'
        BY <1>2, <1>3, <1>6, <2>3, <2>4, LikesAreNat DEF Balanced
      <3>3. QED
        BY <1>2, <1>4, <1>6, <1>7, <2>3, <2>4, <3>1, <3>2 DEF Balanced
    <2>6. Fresh(w)'
      BY <2>1 DEF Fresh
    <2>7. QED
      BY <1>1, <1>4, <1>5, <2>1, <2>3, <2>5, <2>6, TouchesOne
  <1>10. QED
    BY <1>1, <1>2, <1>8, <1>9 DEF Count

(* A like counter at zero hides likes that a death left uncounted, so that  *)
(* taking one of them back leaves it no higher than the likes.              *)
LEMMA UnlikeAlone ==
    ASSUME IInv, IInv', Alone, NEW w, Workers = {w}, Unlike(w)
    PROVE  Alone'
  <1>1. PICK a \in Announcements : a = on(w)
    BY Working DEF Unlike
  <1>2. /\ pc[w] = "commit" /\ Op(w) = "unlike" /\ job[w] # None /\ row[a] # None
        /\ row[a] \in AnnouncementRow /\ Fresh(w) /\ Balanced(w, a)
        /\ ~ Fail(w)
    BY <1>1, Working, NeverFails DEF Unlike
  <1>3. /\ w \in held /\ me(w) \in liked
        /\ copy[w].likes = row[a].likes
        /\ row[a].views \in Nat /\ row[a].likes \in Nat
    BY <1>1, <1>2 DEF Fresh, AnnouncementRow
  <1>4. PICK u \in Users : me(w) = <<a, u>>
    <2>1. Op(w) \in MemberOps
      BY <1>2 DEF MemberOps
    <2>2. QED
      BY <1>1, <1>2, <2>1 DEF IInv, Serving, ServesOK, me, on
  <1>5. /\ liked' = liked \ {<<a, u>>}
        /\ row' = [row EXCEPT ![a].likes = Less(copy[w].likes)]
        /\ Forget(w)
        /\ UNCHANGED <<viewed, comment, crashes>>
    BY <1>1, <1>2, <1>3, <1>4 DEF Unlike
  <1>6. pc'[w] = "idle" /\ job'[w] = None
    BY <1>5 DEF Forget, IInv, TypeOK
  <1>7. /\ NL(a)' = NL(a) - 1
        /\ \A b \in Announcements \ {a} : LikesOf(b)' = LikesOf(b)
    BY <1>3, <1>4, <1>5, FewerLikes
  <1>8. \A b : ViewsOf(b)' = ViewsOf(b) /\ CommentsOf(b)' = CommentsOf(b)
    BY <1>5 DEF ViewsOf, CommentsOf
  <1>9. NV(a)' = NV(a) /\ NC(a)' = NC(a)
    BY <1>8 DEF NV, NC
  <1>10. row'[a] = [row[a] EXCEPT !.likes = Less(copy[w].likes)]
    BY <1>5 DEF IInv, TypeOK
  <1>11. Less(copy[w].likes) \in Nat
    BY <1>3 DEF Less
  <1>12. /\ row'[a] # None /\ row'[a].views = row[a].views
         /\ row'[a].likes = Less(row[a].likes) /\ row'[a].comments = row[a].comments
    <2>1. row'[a] \in AnnouncementRow
      BY <1>2, <1>10, <1>11 DEF AnnouncementRow
    <2>2. QED
      BY <1>2, <1>3, <1>10, <2>1, AnnouncementsAssumption DEF AnnouncementRow
  <1>13. /\ LikeDue(w, a) = 0 /\ CountDue(w, a) = 0
         /\ LikeDue(w, a)' = 0 /\ CountDue(w, a)' = 0
    BY <1>2, <1>6 DEF LikeDue, CountDue
  <1>14. NL(a)' \in Nat
    <2>1. LikesOf(a)' \subseteq Users
      BY DEF LikesOf
    <2>2. QED
      BY <2>1, AnnouncementsAssumption, FS_Subset, FS_CardinalityType DEF NL
  <1>15. Balanced(w, a)'
    <2>1. row'[a].likes + 0 <= NL(a)'
      BY <1>2, <1>3, <1>7, <1>12, <1>13, <1>14, LikesAreNat DEF Balanced, Less
    <2>2. Uncounted(a)' <= Uncounted(a) /\ Uncounted(a) \in Int /\ Uncounted(a)' \in Int
      <3>1. NL(a)' - row'[a].likes <= NL(a) - row[a].likes
        BY <1>3, <1>7, <1>12, LikesAreNat DEF Less
      <3>2. QED
        BY <1>3, <1>7, <1>9, <1>11, <1>12, <3>1, LikesAreNat DEF Uncounted, NV, NL
    <2>3. QED
      BY <1>2, <1>5, <1>9, <1>12, <1>13, <2>1, <2>2 DEF Balanced, IInv, TypeOK
  <1>16. Fresh(w)'
    BY <1>6 DEF Fresh
  <1>17. \A b \in Announcements \ {a} : row'[b] = row[b]
    BY <1>5 DEF IInv, TypeOK
  <1>18. QED
    BY <1>2, <1>5, <1>6, <1>7, <1>8, <1>12, <1>15, <1>16, <1>17, TouchesOne

LEMMA PostCommentAlone ==
    ASSUME IInv, IInv', Alone, NEW w, Workers = {w}, PostComment(w)
    PROVE  Alone'
  <1>1. PICK a \in Announcements : a = on(w)
    BY Working DEF PostComment
  <1>2. /\ pc[w] = "commit" /\ Op(w) = "add_comment" /\ job[w] # None /\ row[a] # None
        /\ row[a] \in AnnouncementRow /\ Fresh(w) /\ Balanced(w, a)
        /\ ~ Fail(w)
    BY <1>1, Working, NeverFails DEF PostComment
  <1>3. PICK c \in Comments : c = job[w].comment
    BY <1>2 DEF IInv, Serving, ServesOK
  <1>4. /\ comment[c] = None
        /\ copy[w].comments = row[a].comments /\ row[a].comments \in Nat
    BY <1>1, <1>2, <1>3 DEF Fresh, AnnouncementRow, IInv, NewComments
  <1>5. /\ comment' = [comment EXCEPT ![c] = a]
        /\ row' = [row EXCEPT ![a].comments = More(copy[w].comments)]
        /\ Respond(w) /\ UNCHANGED <<viewed, liked>>
    BY <1>1, <1>2, <1>3 DEF PostComment
  <1>6. pc'[w] = "idle" /\ job'[w] = None /\ crashes' = crashes
    BY <1>5 DEF Respond, Forget, IInv, TypeOK
  <1>7. /\ CommentsOf(a)' = CommentsOf(a) \cup {c} /\ c \notin CommentsOf(a)
        /\ \A b \in Announcements \ {a} : CommentsOf(b)' = CommentsOf(b)
    BY <1>4, <1>5, AnnouncementsAssumption DEF CommentsOf, IInv, TypeOK
  <1>8. NC(a)' = NC(a) + 1
    BY <1>7, LikesAreNat, FS_AddElement DEF NC
  <1>9. \A b : ViewsOf(b)' = ViewsOf(b) /\ LikesOf(b)' = LikesOf(b)
    BY <1>5 DEF ViewsOf, LikesOf
  <1>10. row'[a] = [row[a] EXCEPT !.comments = More(copy[w].comments)]
    BY <1>5 DEF IInv, TypeOK
  <1>11. /\ row'[a] # None /\ row'[a].views = row[a].views
         /\ row'[a].likes = row[a].likes /\ row'[a].comments = row[a].comments + 1
    <2>1. row'[a] \in AnnouncementRow
      BY <1>2, <1>4, <1>10 DEF AnnouncementRow, More
    <2>2. QED
      BY <1>2, <1>4, <1>10, <2>1, AnnouncementsAssumption DEF AnnouncementRow, More
  <1>12. /\ LikeDue(w, a) = 0 /\ CountDue(w, a) = 0
         /\ LikeDue(w, a)' = 0 /\ CountDue(w, a)' = 0
    BY <1>2, <1>6 DEF LikeDue, CountDue
  <1>13. Balanced(w, a)'
    <2>1. Uncounted(a)' = Uncounted(a) /\ NL(a)' = NL(a)
      BY <1>9, <1>11 DEF Uncounted, NL
    <2>2. QED
      BY <1>2, <1>6, <1>8, <1>11, <1>12, <2>1 DEF Balanced
  <1>14. Fresh(w)'
    BY <1>6 DEF Fresh
  <1>15. \A b \in Announcements \ {a} : row'[b] = row[b]
    BY <1>5 DEF IInv, TypeOK
  <1>16. QED
    BY <1>2, <1>6, <1>7, <1>9, <1>11, <1>13, <1>14, <1>15, TouchesOne

LEMMA CascadeAlone ==
    ASSUME IInv, IInv', Alone, NEW w, Workers = {w}, Cascade(w)
    PROVE  Alone'
  <1>1. PICK a \in Announcements : a = on(w)
    BY Working DEF Cascade
  <1>2. /\ row' = [row EXCEPT ![a] = None]
        /\ viewed' = {x \in viewed : x[1] # a}
        /\ liked' = {x \in liked : x[1] # a}
        /\ comment' = [c \in Comments |-> IF comment[c] = a THEN None ELSE comment[c]]
        /\ Forget(w) /\ crashes' = crashes /\ pc[w] = "cascade"
    BY <1>1 DEF Cascade
  <1>3. pc'[w] = "idle" /\ job'[w] = None
    BY <1>2 DEF Forget, IInv, TypeOK
  <1>4. row'[a] = None /\ \A b \in Announcements \ {a} : row'[b] = row[b]
    BY <1>2 DEF IInv, TypeOK
  <1>5. Bare(a)'
    BY <1>2, AnnouncementsAssumption DEF Bare, ViewsOf, LikesOf, CommentsOf
  <1>6. \A b \in Announcements \ {a} :
            /\ ViewsOf(b)' = ViewsOf(b) /\ LikesOf(b)' = LikesOf(b)
            /\ CommentsOf(b)' = CommentsOf(b)
    BY <1>2, AnnouncementsAssumption DEF ViewsOf, LikesOf, CommentsOf
  <1>7. Fresh(w)'
    BY <1>3 DEF Fresh
  <1>8. QED
    BY <1>2, <1>3, <1>4, <1>5, <1>6, <1>7, TouchesOne

-----------------------------------------------------------------------------
LEMMA LooksAlone ==
    ASSUME IInv, IInv', Alone, NEW w, Workers = {w},
           Own(w) \/ Status(w) \/ Flag(w) \/ Again(w)
    PROVE  Alone'
  <1>1. /\ pc[w] \in {"own", "status", "flag", "again"} /\ ~ Fail(w)
        /\ pc[w] # "idle" /\ pc[w] # "count"
    BY NeverFails DEF Own, Status, Flag, Again
  <1>2. UNCHANGED <<row, viewed, liked, comment>>
    BY <1>1 DEF Own, Status, Flag, Again, db
  <1>3. CASE Respond(w)
    BY <1>1, <1>2, <1>3, RespondAlone
  <1>4. CASE Own(w) /\ Look(w, "commit") /\ me(w) \in liked
    <2>1. pc'[w] = "commit" /\ w \in held' /\ UNCHANGED <<job, copy, crashes>>
      BY <1>4 DEF Look, IInv, TypeOK
    <2>2. QED
      BY <1>1, <1>2, <1>4, <2>1, GoesAlone DEF Own
  <1>5. CASE Status(w) /\ Look(w, "flag")
    <2>1. pc'[w] = "flag" /\ UNCHANGED <<job, copy, crashes>>
      BY <1>5 DEF Look, IInv, TypeOK
    <2>2. QED
      BY <1>1, <1>2, <2>1, GoesAlone
  <1>6. CASE Again(w) /\ Goto(w, "write")
    <2>1. pc'[w] = "write" /\ UNCHANGED <<job, copy, crashes>>
      BY <1>6 DEF Goto, IInv, TypeOK
    <2>2. QED
      BY <1>1, <1>2, <1>6, <2>1, GoesAlone DEF Again
  <1>7. QED
    BY <1>1, <1>3, <1>4, <1>5, <1>6 DEF Own, Status, Flag, Again

LEMMA WriteAlone ==
    ASSUME IInv, IInv', Alone, NEW w, Workers = {w}, Write(w)
    PROVE  Alone'
  <1>1. PICK a \in Announcements : a = on(w)
    BY Working DEF Write
  <1>2. /\ pc[w] = "write" /\ job[w] # None /\ row[a] # None
        /\ row[a] \in AnnouncementRow /\ copy[w] \in AnnouncementRow /\ Fresh(w)
        /\ ~ Fail(w)
    BY <1>1, Working, NeverFails DEF Write
  <1>3. PICK published \in BOOLEAN :
            \/ row' = [row EXCEPT ![a] = [copy[w] EXCEPT !.published = published]]
            \/ row' = [row EXCEPT ![a].published = published]
    BY <1>1, <1>2 DEF Write
  <1>4. \/ row'[a] = [copy[w] EXCEPT !.published = published]
        \/ row'[a] = [row[a] EXCEPT !.published = published]
    BY <1>3 DEF IInv, TypeOK
  <1>5. /\ copy[w].views = row[a].views /\ copy[w].likes = row[a].likes
        /\ copy[w].comments = row[a].comments
    BY <1>1, <1>2 DEF Fresh
  <1>6. row'[a] \in AnnouncementRow
    BY <1>2, <1>4 DEF AnnouncementRow
  <1>7. /\ row'[a] # None /\ row'[a].views = row[a].views
        /\ row'[a].likes = row[a].likes /\ row'[a].comments = row[a].comments
    BY <1>2, <1>4, <1>5, <1>6, AnnouncementsAssumption DEF AnnouncementRow
  <1>8. \A b \in Announcements \ {a} : row'[b] = row[b]
    BY <1>3 DEF IInv, TypeOK
  <1>9. /\ Forget(w) /\ crashes' = crashes /\ pc[w] # "count"
        /\ UNCHANGED <<viewed, liked, comment>>
    BY <1>2 DEF Write, Respond
  <1>10. \A b \in Announcements :
             /\ row'[b] = None <=> row[b] = None
             /\ row[b] # None => /\ row'[b].views = row[b].views
                                 /\ row'[b].likes = row[b].likes
                                 /\ row'[b].comments = row[b].comments
    BY <1>2, <1>7, <1>8
  <1>11. QED
    BY <1>9, <1>10, EndsAlone

LEMMA DieAlone ==
    ASSUME IInv, IInv', Alone, NEW w, Workers = {w}, Die(w)
    PROVE  Alone'
  BY EndsAlone DEF Die, db

LEMMA StutterAlone ==
    ASSUME Alone, UNCHANGED vars PROVE Alone'
  <1>1. UNCHANGED <<row, viewed, liked, comment, pc, job, copy, held, crashes>>
    BY DEF vars, db, mine
  <1>2. ASSUME NEW w \in Workers PROVE Fresh(w)' <=> Fresh(w)
    BY <1>1 DEF Fresh, on, me, Op
  <1>3. \A a : /\ ViewsOf(a)' = ViewsOf(a) /\ LikesOf(a)' = LikesOf(a)
               /\ CommentsOf(a)' = CommentsOf(a)
    BY <1>1 DEF ViewsOf, LikesOf, CommentsOf
  <1>4. \A a : /\ Uncounted(a)' = Uncounted(a)
               /\ NL(a)' = NL(a) /\ NC(a)' = NC(a) /\ (Bare(a)' <=> Bare(a))
    BY <1>1, <1>3 DEF Uncounted, NL, NC, Bare
  <1>5. \A w, a : CountDue(w, a)' = CountDue(w, a) /\ LikeDue(w, a)' = LikeDue(w, a)
    BY <1>1 DEF CountDue, LikeDue, on, Op
  <1>6. \A w, a : Balanced(w, a)' <=> Balanced(w, a)
    BY <1>1, <1>4, <1>5 DEF Balanced
  <1>7. QED
    BY <1>1, <1>2, <1>4, <1>6 DEF Alone, AloneFor

LEMMA InitAlone == Init => Alone
  <1> SUFFICES ASSUME Init PROVE Alone
    OBVIOUS
  <1>1. \A a \in Announcements : row[a] = None /\ Bare(a)
    BY AnnouncementsAssumption DEF Init, Bare, ViewsOf, LikesOf, CommentsOf
  <1>2. \A w \in Workers : Fresh(w)
    BY DEF Init, Fresh
  <1>3. QED
    BY <1>1, <1>2 DEF Alone, AloneFor

LEMMA NextAlone ==
    ASSUME OneWorker PROVE IInv /\ IInv' /\ Alone /\ [Next]_vars => Alone'
  <1> SUFFICES ASSUME IInv, IInv', Alone, [Next]_vars PROVE Alone'
    OBVIOUS
  <1>1. CASE UNCHANGED vars
    BY <1>1, StutterAlone
  <1>2. CASE Next
    <2>1. PICK w : Workers = {w}
      BY DEF OneWorker
    <2>2. \/ ByMember(w) \/ ByManager(w) \/ AddComment(w) \/ Create(w)
          \/ Insert(w) \/ Count(w) \/ Own(w) \/ Unlike(w) \/ PostComment(w)
          \/ Status(w) \/ Flag(w) \/ Again(w) \/ Write(w) \/ Cascade(w)
          \/ Die(w)
      BY <1>2, <2>1 DEF Next
    <2>3. QED
      BY <2>1, <2>2, BeginsAlone, CreateAlone, InsertAlone, CountAlone, UnlikeAlone,
         PostCommentAlone, CascadeAlone, LooksAlone, WriteAlone, DieAlone
  <1>3. QED
    BY <1>1, <1>2

(* With one worker the copy it saves shows the row, and the counters differ *)
(* from the rows they count only by what a death left uncounted.            *)
THEOREM AloneInvariance == ASSUME OneWorker PROVE Spec => []Alone
  <1>1. Init => Alone
    BY InitAlone
  <1>2. IInv /\ IInv' /\ Alone /\ [Next]_vars => Alone'
    BY NextAlone
  <1>3. QED
    BY <1>1, <1>2, Invariance, PTL DEF Spec

(* With one worker comments_count is the number of comments, whenever the   *)
(* worker dies.                                                             *)
THEOREM CommentsAreExact == ASSUME OneWorker PROVE Spec => []CommentCountExact
  <1>1. Alone => CommentCountExact
    BY DEF OneWorker, Alone, AloneFor, Balanced, CommentCountExact, NC
  <1>2. QED
    BY <1>1, AloneInvariance, PTL

(* With one worker likes_count is at most the number of likes.              *)
THEOREM LikesAreBacked == ASSUME OneWorker PROVE Spec => []LikesNeverInflated
  <1>1. IInv /\ Alone => LikesNeverInflated
    <2> SUFFICES ASSUME IInv, Alone, NEW a \in Announcements, row[a] # None
                 PROVE  row[a].likes <= Cardinality(LikesOf(a))
      BY DEF LikesNeverInflated
    <2>1. PICK w \in Workers : Balanced(w, a)
      BY DEF OneWorker, Alone, AloneFor
    <2>2. LikeDue(w, a) \in Nat /\ row[a].likes \in Nat
      BY DEF LikeDue, IInv, TypeOK, AnnouncementRow
    <2>3. QED
      BY <2>1, <2>2, LikesAreNat DEF Balanced, NL
  <1>2. QED
    BY <1>1, Invariance, AloneInvariance, PTL

(* With one worker no more views and likes of an announcement go uncounted  *)
(* than the worker has died times, but for the one it is about to count.    *)
THEOREM OnlyDeathsDrift == ASSUME OneWorker PROVE Spec => []DriftOnlyByCrashes
  <1>1. IInv /\ Alone => DriftOnlyByCrashes
    <2> SUFFICES ASSUME IInv, Alone, NEW a \in Announcements, row[a] # None
                 PROVE  Uncounted(a) <= crashes + Cardinality(Counting(a))
      BY DEF DriftOnlyByCrashes
    <2>1. PICK w : Workers = {w} /\ Balanced(w, a)
      BY DEF OneWorker, Alone, AloneFor
    <2>2. Counting(a) = IF pc[w] = "count" /\ on(w) = a THEN {w} ELSE {}
      BY <2>1 DEF Counting
    <2>3. Cardinality(Counting(a)) = CountDue(w, a)
      BY <2>2, FS_EmptySet, FS_Singleton DEF CountDue
    <2>4. QED
      BY <2>1, <2>3 DEF Balanced
  <1>2. QED
    BY <1>1, Invariance, AloneInvariance, PTL
=============================================================================
