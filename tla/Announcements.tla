---------------------------- MODULE Announcements ----------------------------
(***************************************************************************)
(* The announcements of one cluster, the rows that record who viewed,       *)
(* liked, commented and read them, and the three counters kept beside them. *)
(*                                                                         *)
(* A request loads the announcement once and then issues its queries, each  *)
(* a transaction of its own except the atomic blocks of unlike and          *)
(* add_comment.  A counter is written as the value of the loaded copy plus  *)
(* or minus one.  A save that finds no row, and an insert whose foreign key *)
(* is gone, raise and end the request.                                      *)
(*                                                                         *)
(* A request that its first query refuses changes nothing and is left out,  *)
(* and so is expires_at, which only refuses requests.  Notifications are    *)
(* left out too: each is sent inside a try that ignores its failure.        *)
(***************************************************************************)
EXTENDS Integers, FiniteSets

CONSTANTS
    Workers,        \* web workers, each serves one request at a time
    Announcements,  \* primary keys
    Comments,       \* primary keys
    Users,
    Ops,            \* bound: the operations that occur
    MaxCount,       \* bound: nobody counts up what has been counted so often
    MaxCrashes,     \* bound: how many times a worker dies
    None

MemberOps  == {"retrieve", "like", "unlike", "mark_read", "mark_unread"}
ManagerOps == {"update", "publish", "unpublish", "delete"}
AllOps     == MemberOps \cup ManagerOps \cup {"add_comment"}

(* What each handler does once it has loaded the announcement.              *)
First == [retrieve |-> "insert", like |-> "insert", unlike |-> "own",
          mark_read |-> "status", mark_unread |-> "status",
          add_comment |-> "commit", update |-> "again", publish |-> "write",
          unpublish |-> "write", delete |-> "cascade"]

Steps == {"insert", "count", "own", "status", "flag", "commit", "again",
          "write", "cascade"}

AnnouncementRow == [published : BOOLEAN, views : Nat, likes : Nat, comments : Nat]

Job == [op : AllOps, on : Announcements, user : Users \cup {None},
        comment : Comments \cup {None}]

ASSUME AnnouncementsAssumption ==
    /\ IsFiniteSet(Users) /\ IsFiniteSet(Comments)
    /\ Ops \subseteq AllOps \cup {"create"}
    /\ MaxCount \in Nat /\ MaxCrashes \in Nat
    /\ None \notin AnnouncementRow \cup Job \cup BOOLEAN
    /\ None \notin Announcements \cup Users \cup Comments

VARIABLES
    row,       \* the Announcement rows
    viewed,    \* the AnnouncementView rows, as pairs announcement, user
    liked,     \* the AnnouncementLike rows
    comment,   \* the announcement of each AnnouncementComment row
    read,      \* the AnnouncementReadStatus rows: is_read, or no row
    pc,        \* what a worker does next
    job,       \* the request a worker serves
    copy,      \* the Announcement object it has loaded
    held,      \* workers whose like or read status object still has its row
    revived,   \* history: the announcements that an update has inserted again
    crashes

db   == <<row, viewed, liked, comment, read>>
mine == <<pc, job, copy, held>>
vars == <<db, mine, revived, crashes>>

-----------------------------------------------------------------------------
on(w) == job[w].on
me(w) == <<job[w].on, job[w].user>>
Op(w) == job[w].op

Goto(w, step) ==
    /\ pc' = [pc EXCEPT ![w] = step]
    /\ UNCHANGED <<job, copy, held, revived, crashes>>

Forget(w) ==
    /\ pc' = [pc EXCEPT ![w] = "idle"]
    /\ job' = [job EXCEPT ![w] = None]
    /\ copy' = [copy EXCEPT ![w] = None]

(* The response, or the exception that ends the request.                    *)
Respond(w) ==
    /\ Forget(w)
    /\ held' = held \ {w}
    /\ UNCHANGED <<revived, crashes>>

(* The query that the request fails: its announcement has been deleted.     *)
Fail(w) ==
    /\ row[on(w)] = None
    /\ Respond(w)
    /\ UNCHANGED db

(* get_object of the request j.                                             *)
Load(w, j) ==
    /\ j.op \in Ops
    /\ pc[w] = "idle"
    /\ row[j.on] # None
    /\ pc' = [pc EXCEPT ![w] = First[j.op]]
    /\ job' = [job EXCEPT ![w] = j]
    /\ copy' = [copy EXCEPT ![w] = row[j.on]]
    /\ UNCHANGED <<db, held, revived, crashes>>

(* Members see published announcements only.                                *)
ByMember(w) ==
    \E op \in MemberOps, a \in Announcements, u \in Users :
        /\ row[a] # None
        /\ row[a].published
        /\ op = "retrieve" => row[a].views < MaxCount
        /\ op = "like" => row[a].likes < MaxCount
        /\ Load(w, [op |-> op, on |-> a, user |-> u, comment |-> None])

ByManager(w) ==
    \E op \in ManagerOps, a \in Announcements :
        /\ row[a] # None
        /\ op = "publish" => ~row[a].published
        /\ op = "unpublish" => row[a].published
        /\ Load(w, [op |-> op, on |-> a, user |-> None, comment |-> None])

(* add_comment of both apps: a manager may also comment on what is hidden.  *)
(* The comment's primary key is new.                                        *)
AddComment(w) ==
    \E a \in Announcements, c \in Comments :
        /\ row[a] # None
        /\ row[a].comments < MaxCount
        /\ comment[c] = None
        /\ \A v \in Workers : job[v] # None => job[v].comment # c
        /\ Load(w, [op |-> "add_comment", on |-> a, user |-> None, comment |-> c])

Create(w) ==
    \E a \in Announcements, published \in BOOLEAN :
        /\ "create" \in Ops
        /\ pc[w] = "idle"
        /\ row[a] = None
        /\ \A v \in Workers : job[v] # None => on(v) # a
        /\ row' = [row EXCEPT ![a] = [published |-> published, views |-> 0,
                                      likes |-> 0, comments |-> 0]]
        /\ revived' = revived \ {a}
        /\ UNCHANGED <<viewed, liked, comment, read, mine, crashes>>

-----------------------------------------------------------------------------
(* Mutant: a new view is not counted.                                       *)
ThenUncounted(w) == "status"

(* Mutant: so is the view of a user who has viewed the announcement before. *)
ThenEveryTime(w) == "count"

(* retrieve counts the view only if it has just created its row.            *)
ThenCount(w) == IF me(w) \in viewed THEN "status" ELSE "count"

(* get_or_create of the user's AnnouncementView or AnnouncementLike; the    *)
(* unique constraint makes it one row even when two workers race.           *)
Insert(w) ==
    /\ pc[w] = "insert"
    /\ \/ Fail(w)
       \/ /\ row[on(w)] # None
          /\ Op(w) = "retrieve"
          /\ viewed' = viewed \cup {me(w)}
          /\ Goto(w, ThenCount(w))
          /\ UNCHANGED <<row, liked, comment, read>>
       \/ /\ row[on(w)] # None
          /\ Op(w) = "like"
          /\ me(w) \notin liked
          /\ liked' = liked \cup {me(w)}
          /\ Goto(w, "count")
          /\ UNCHANGED <<row, viewed, comment, read>>
       \/ /\ Op(w) = "like"
          /\ me(w) \in liked
          /\ Respond(w)
          /\ UNCHANGED db

(* The created row is counted.                                              *)
Count(w) ==
    /\ pc[w] = "count"
    /\ \/ Fail(w)
       \/ /\ row[on(w)] # None
          /\ Op(w) = "retrieve"
          /\ row' = [row EXCEPT ![on(w)].views = copy[w].views + 1]
          /\ Goto(w, "status")
          /\ UNCHANGED <<viewed, liked, comment, read>>
       \/ /\ row[on(w)] # None
          /\ Op(w) = "like"
          /\ row' = [row EXCEPT ![on(w)].likes = copy[w].likes + 1]
          /\ Respond(w)
          /\ UNCHANGED <<viewed, liked, comment, read>>

(* The request goes on with a row it has looked up.                         *)
Look(w, step) ==
    /\ pc' = [pc EXCEPT ![w] = step]
    /\ held' = held \cup {w}
    /\ UNCHANGED <<job, copy, revived, crashes>>

(* unlike looks its like up.                                                *)
Own(w) ==
    /\ pc[w] = "own"
    /\ IF me(w) \in liked THEN Look(w, "commit") ELSE Respond(w)
    /\ UNCHANGED db

(* Mutants: unlike without max(0, ...), and one that leaves the counter.    *)
LessNoFloor(n) == n - 1
LessUncounted(n) == n

Less(n) == IF n > 0 THEN n - 1 ELSE 0

(* Mutants: the comment is not counted, or a signal counts it again.        *)
MoreUncounted(n) == n
MoreTwice(n) == n + 2

More(n) == n + 1

(* The atomic blocks.  Their values are computed before they begin, so that *)
(* they take effect as one step, when they commit; Fail rolls them back.    *)
Unlike(w) ==
    /\ pc[w] = "commit"
    /\ Op(w) = "unlike"
    /\ \/ Fail(w)
       \/ /\ row[on(w)] # None
          /\ liked' = IF w \in held THEN liked \ {me(w)} ELSE liked
          /\ row' = [row EXCEPT ![on(w)].likes = Less(copy[w].likes)]
          /\ Forget(w)
          /\ held' = held \ ({w} \cup {v \in held : /\ w \in held
                                                    /\ Op(v) = "unlike"
                                                    /\ me(v) = me(w)})
          /\ UNCHANGED <<viewed, comment, read, revived, crashes>>

PostComment(w) ==
    /\ pc[w] = "commit"
    /\ Op(w) = "add_comment"
    /\ \/ Fail(w)
       \/ /\ row[on(w)] # None
          /\ comment' = [comment EXCEPT ![job[w].comment] = on(w)]
          /\ row' = [row EXCEPT ![on(w)].comments = More(copy[w].comments)]
          /\ Respond(w)
          /\ UNCHANGED <<viewed, liked, read>>

(* retrieve and mark_as_read get or create the user's read status,          *)
(* mark_as_unread gets it.                                                  *)
Status(w) ==
    /\ pc[w] = "status"
    /\ \/ Fail(w)
       \/ /\ row[on(w)] # None
          /\ Op(w) # "mark_unread"
          /\ IF read[me(w)] = None
             THEN read' = [read EXCEPT ![me(w)] = FALSE]
             ELSE UNCHANGED read
          /\ IF read[me(w)] = TRUE THEN Respond(w) ELSE Look(w, "flag")
          /\ UNCHANGED <<row, viewed, liked, comment>>
       \/ /\ row[on(w)] # None
          /\ Op(w) = "mark_unread"
          /\ IF read[me(w)] = None THEN Respond(w) ELSE Look(w, "flag")
          /\ UNCHANGED db

Flag(w) ==
    /\ pc[w] = "flag"
    /\ IF w \in held
       THEN read' = [read EXCEPT ![me(w)] = (Op(w) # "mark_unread")]
       ELSE UNCHANGED read
    /\ Respond(w)
    /\ UNCHANGED <<row, viewed, liked, comment>>

(* perform_update reads the announcement again before it saves.             *)
Again(w) ==
    /\ pc[w] = "again"
    /\ \/ Fail(w)
       \/ row[on(w)] # None /\ Goto(w, "write") /\ UNCHANGED db

(* An update writes the whole copy, with the fields the client has sent     *)
(* (is_published among them), and inserts it when the row is gone; publish  *)
(* and unpublish write their own columns.                                   *)
Write(w) ==
    /\ pc[w] = "write"
    /\ \/ Op(w) # "update" /\ Fail(w)
       \/ /\ Op(w) = "update"
          /\ \E published \in BOOLEAN :
                 row' = [row EXCEPT ![on(w)] = [copy[w] EXCEPT !.published = published]]
          /\ revived' = IF row[on(w)] = None THEN revived \cup {on(w)} ELSE revived
          /\ Forget(w)
          /\ held' = held \ {w}
          /\ UNCHANGED <<viewed, liked, comment, read, crashes>>
       \/ /\ Op(w) # "update"
          /\ row[on(w)] # None
          /\ row' = [row EXCEPT ![on(w)].published = (Op(w) = "publish")]
          /\ Respond(w)
          /\ UNCHANGED <<viewed, liked, comment, read>>

(* destroy: the rows that refer to the announcement go with it.             *)
Cascade(w) ==
    /\ pc[w] = "cascade"
    /\ row' = [row EXCEPT ![on(w)] = None]
    /\ viewed' = {x \in viewed : x[1] # on(w)}
    /\ liked' = {x \in liked : x[1] # on(w)}
    /\ comment' = [c \in Comments |-> IF comment[c] = on(w) THEN None ELSE comment[c]]
    /\ read' = [x \in Announcements \X Users |-> IF x[1] = on(w) THEN None ELSE read[x]]
    /\ Forget(w)
    /\ held' = {v \in held : on(v) # on(w)}
    /\ UNCHANGED <<revived, crashes>>

(* A worker dies: what it has committed stays, its request is lost.         *)
Die(w) ==
    /\ pc[w] # "idle"
    /\ crashes < MaxCrashes
    /\ crashes' = crashes + 1
    /\ Forget(w)
    /\ held' = held \ {w}
    /\ UNCHANGED <<db, revived>>

Init ==
    /\ row = [a \in Announcements |-> None]
    /\ viewed = {} /\ liked = {}
    /\ comment = [c \in Comments |-> None]
    /\ read = [x \in Announcements \X Users |-> None]
    /\ pc = [w \in Workers |-> "idle"]
    /\ job = [w \in Workers |-> None]
    /\ copy = [w \in Workers |-> None]
    /\ held = {} /\ revived = {}
    /\ crashes = 0

Next ==
    \E w \in Workers :
        \/ ByMember(w) \/ ByManager(w) \/ AddComment(w) \/ Create(w)
        \/ Insert(w) \/ Count(w) \/ Own(w) \/ Unlike(w) \/ PostComment(w)
        \/ Status(w) \/ Flag(w) \/ Again(w) \/ Write(w) \/ Cascade(w)
        \/ Die(w)

Spec == Init /\ [][Next]_vars

-----------------------------------------------------------------------------
TypeOK ==
    /\ row \in [Announcements -> AnnouncementRow \cup {None}]
    /\ viewed \subseteq Announcements \X Users
    /\ liked \subseteq Announcements \X Users
    /\ comment \in [Comments -> Announcements \cup {None}]
    /\ read \in [Announcements \X Users -> BOOLEAN \cup {None}]
    /\ pc \in [Workers -> Steps \cup {"idle"}]
    /\ job \in [Workers -> Job \cup {None}]
    /\ copy \in [Workers -> AnnouncementRow \cup {None}]
    /\ held \subseteq Workers
    /\ revived \subseteq Announcements
    /\ crashes \in Nat

ViewsOf(a)    == {u \in Users : <<a, u>> \in viewed}
LikesOf(a)    == {u \in Users : <<a, u>> \in liked}
CommentsOf(a) == {c \in Comments : comment[c] = a}

(* However many workers serve an announcement, its view counter is at most  *)
(* the number of users who have viewed it: overlapping increments, and an   *)
(* update that writes an older counter back, only lose views.  The one      *)
(* exception is an announcement deleted during an update, which then        *)
(* inserts it again with its counters but without the rows they counted.    *)
ViewsNeverInflated ==
    \A a \in Announcements \ revived :
        row[a] # None => row[a].views <= Cardinality(ViewsOf(a))

(* And its comment counter is at most the number of its comments.           *)
CommentsNeverInflated ==
    \A a \in Announcements \ revived :
        row[a] # None => row[a].comments <= Cardinality(CommentsOf(a))

(* With one worker the comment counter is the number of comments, whenever  *)
(* the worker dies: comment and counter are saved in one transaction.       *)
CommentCountExact ==
    \A a \in Announcements :
        row[a] # None => row[a].comments = Cardinality(CommentsOf(a))

(* With one worker the like counter is at most the number of likes; unlike  *)
(* keeps it so although it may not be the like it takes back that counted.  *)
LikesNeverInflated ==
    \A a \in Announcements :
        row[a] # None => row[a].likes <= Cardinality(LikesOf(a))

Uncounted(a) == Cardinality(ViewsOf(a)) - row[a].views
                    + Cardinality(LikesOf(a)) - row[a].likes

Counting(a) == {w \in Workers : pc[w] = "count" /\ on(w) = a}

(* With one worker the view and like counters of an announcement miss no    *)
(* more than one for each time the worker has died: nothing else is lost    *)
(* between the insert of a row and the save of its counter.                 *)
DriftOnlyByCrashes ==
    \A a \in Announcements :
        row[a] # None => Uncounted(a) <= crashes + Cardinality(Counting(a))

=============================================================================
