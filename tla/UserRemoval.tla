----------------------------- MODULE UserRemoval ------------------------------
(***************************************************************************)
(* Removing a user with all posts in one MongoDB transaction               *)
(* (users/users.service.ts, utils/wapper/withTransaction.ts), while posts  *)
(* are created, edited, given to other users and deleted                   *)
(* (posts/posts.service.ts).                                               *)
(*                                                                         *)
(* The transaction reads a snapshot: it deletes the user, reads the user's *)
(* posts and deletes those it read.  A post that somebody wrote after the  *)
(* snapshot is a write conflict: the driver aborts and runs the callback   *)
(* again.  A document the transaction wrote is held until it ends, and     *)
(* other writers wait.                                                     *)
(***************************************************************************)
EXTENDS Naturals

CONSTANTS
  Users,     \* the accounts at the start
  Posts,     \* the ids that new posts draw
  Handlers,  \* the slots that serve requests
  MaxUpsets, \* bound: how many edits of posts and failures there are
  Faulty,    \* the slots whose calls to MongoDB may reject, or whose process may die
  None

ASSUME MaxUpsetsAssumption == MaxUpsets \in Nat
ASSUME FaultyAssumption == Faulty \subseteq Handlers
ASSUME NoneAssumption == None \notin Users

VARIABLES
  users,   \* the users whose document exists
  posts,   \* the posts whose document exists
  author,  \* post -> its author, None before the post is created
  late,    \* history: posts that came to their author when a removal of the author had read
           \* its posts, or was over
  upsets,  \* how many edits and failures there were
  task     \* handler -> what it is doing

vars == <<users, posts, author, late, upsets, task>>

Removing == {"deleteUser", "deletePosts", "commit"}

Task ==
  [step : {"idle", "save"} \union Removing, user : Users \union {None},
   seen : SUBSET Posts, stale : SUBSET Posts]

Idle == [step |-> "idle", user |-> None, seen |-> {}, stale |-> {}]

Start(h, step, u) ==
  /\ task[h].step = "idle"
  /\ task' = [task EXCEPT ![h] = [step |-> step, user |-> u, seen |-> {}, stale |-> {}]]

Finish(h) == task' = [task EXCEPT ![h] = Idle]

PostsOf(u) == {p \in posts : author[p] = u}

\* The documents that an open transaction has written.
UserHeld(u) == \E h \in Handlers : task[h].step \in {"deletePosts", "commit"} /\ task[h].user = u
PostHeld(p) == \E h \in Handlers : task[h].step = "commit" /\ p \in task[h].seen

\* A post comes to a user: is it too late for a removal of the user to see it?
Comes(p, u) == IF u \notin users \/ UserHeld(u) THEN late \union {p} ELSE late \ {p}

\* A write outside of the transactions makes the snapshots that show p stale.
Stale(p) ==
  task' = [h \in Handlers |->
             IF p \in task[h].seen THEN [task[h] EXCEPT !.stale = @ \union {p}] ELSE task[h]]

-----------------------------------------------------------------------------
Init ==
  /\ users = Users
  /\ posts = {}
  /\ author = [p \in Posts |-> None]
  /\ late = {}
  /\ upsets = 0
  /\ task = [h \in Handlers |-> Idle]

(***************************************************************************)
(* Posts.  The guard has read the user before the handler saves the post.  *)
(***************************************************************************)
CreatePost(h, u) ==
  /\ u \in users
  /\ Start(h, "save", u)
  /\ UNCHANGED <<users, posts, author, late, upsets>>

SavePost(h, p) ==
  /\ task[h].step = "save"
  /\ author[p] = None
  /\ posts' = posts \union {p}
  /\ author' = [author EXCEPT ![p] = task[h].user]
  /\ late' = Comes(p, task[h].user)
  /\ Finish(h)
  /\ UNCHANGED <<users, upsets>>

\* PUT and PATCH of a post, one findOneAndUpdate.  A request that passed the
\* guard before its user was removed still gets here.  The DTO may carry another
\* author, and nobody asks whether there is such a user.
UpdatePost(p, u) ==
  /\ upsets < MaxUpsets
  /\ p \in posts
  /\ ~PostHeld(p)
  /\ upsets' = upsets + 1
  /\ author' = [author EXCEPT ![p] = u]
  /\ late' = IF u = author[p] THEN late ELSE Comes(p, u)
  /\ Stale(p)
  /\ UNCHANGED <<users, posts>>

DeletePost(p) ==
  /\ p \in posts
  /\ ~PostHeld(p)
  /\ posts' = posts \ {p}
  /\ Stale(p)
  /\ UNCHANGED <<users, author, late, upsets>>

(***************************************************************************)
(* DELETE /authentication/:id.                                             *)
(***************************************************************************)
DeleteUserById(h, u) ==
  /\ Start(h, "deleteUser", u)
  /\ UNCHANGED <<users, posts, author, late, upsets>>

\* A user that is gone is a NotFoundException, which aborts the transaction.
DeleteUser(h) ==
  /\ task[h].step = "deleteUser"
  /\ ~UserHeld(task[h].user)
  /\ IF task[h].user \in users
       THEN /\ task' = [task EXCEPT ![h].step = "deletePosts",
                                    ![h].seen = PostsOf(task[h].user)]
            /\ late' = late \ PostsOf(task[h].user)
       ELSE Finish(h) /\ late' = late
  /\ UNCHANGED <<users, posts, author, upsets>>

\* Mutant: deleteMany runs outside of the session.
DeletePostsNow(h) ==
  /\ task[h].step = "deletePosts"
  /\ posts' = posts \ task[h].seen
  /\ task' = [task EXCEPT ![h].step = "commit"]
  /\ UNCHANGED <<users, author, late, upsets>>

\* Mutant: a conflict is taken for the end of the removal.
DeletePostsOnce(h) ==
  /\ task[h].step = "deletePosts"
  /\ IF task[h].stale = {}
       THEN task' = [task EXCEPT ![h].step = "commit"]
       ELSE Finish(h)
  /\ UNCHANGED <<users, posts, author, late, upsets>>

\* A conflict aborts the transaction, and the callback runs again from its start.
DeletePosts(h) ==
  /\ task[h].step = "deletePosts"
  /\ IF task[h].stale = {}
       THEN task' = [task EXCEPT ![h].step = "commit"]
       ELSE task' = [task EXCEPT ![h] = [step |-> "deleteUser", user |-> task[h].user,
                                         seen |-> {}, stale |-> {}]]
  /\ UNCHANGED <<users, posts, author, late, upsets>>

\* Mutant: only the user was deleted in the session.
CommitUserOnly(h) ==
  /\ task[h].step = "commit"
  /\ users' = users \ {task[h].user}
  /\ Finish(h)
  /\ UNCHANGED <<posts, author, late, upsets>>

\* The driver commits when the callback returns; the commitTransaction that
\* withTransaction adds commits the same transaction again, which does nothing.
Commit(h) ==
  /\ task[h].step = "commit"
  /\ users' = users \ {task[h].user}
  /\ posts' = posts \ task[h].seen
  /\ Finish(h)
  /\ UNCHANGED <<author, late, upsets>>

\* The request fails, or the process dies and the server aborts the transaction.
Fail(h) ==
  /\ h \in Faulty
  /\ upsets < MaxUpsets
  /\ task[h].step # "idle"
  /\ upsets' = upsets + 1
  /\ Finish(h)
  /\ UNCHANGED <<users, posts, author, late>>

-----------------------------------------------------------------------------
Proceed(h) ==
  \/ \E p \in Posts : SavePost(h, p)
  \/ DeleteUser(h)
  \/ DeletePosts(h)
  \/ Commit(h)

Next ==
  \/ \E h \in Handlers :
       \/ \E u \in Users : CreatePost(h, u) \/ DeleteUserById(h, u)
       \/ Proceed(h)
       \/ Fail(h)
  \/ \E p \in Posts : (\E u \in Users : UpdatePost(p, u)) \/ DeletePost(p)

Spec == Init /\ [][Next]_vars

\* MongoDB answers every call, with a result or an error.
FairSpec == Spec /\ \A h \in Handlers : WF_vars(Proceed(h))

-----------------------------------------------------------------------------
(* Type invariant.                                                         *)
TypeOK ==
  /\ users \subseteq Users
  /\ posts \subseteq Posts
  /\ author \in [Posts -> Users \union {None}]
  /\ late \subseteq Posts
  /\ upsets \in 0..MaxUpsets
  /\ task \in [Handlers -> Task]

(* A removed user leaves no post behind that was the user's when the       *)
(* removal read the posts, however edits, deletions, other removals and    *)
(* failures interleave: what is left was saved by a request that was under *)
(* way, or given to the user by an edit that came too late.                *)
OrphansAreLate ==
  \A p \in posts : author[p] \notin users => p \in late

(* A removal that fails or starts over loses nothing: a post disappears    *)
(* because somebody deletes it or together with its author.                *)
PostsGoWithTheirAuthor ==
  [][\A p \in posts : p \notin posts' =>
       DeletePost(p) \/ (author[p] \in users /\ author[p] \notin users')]_vars

(* A removal whose own calls succeed is carried out: it starts over after  *)
(* each write conflict, and waits for another removal of the user, which   *)
(* may fail, as long as edits and failures do not go on for ever.          *)
RemovalCompletes ==
  \A u \in Users :
    (\E h \in Handlers \ Faulty : task[h].step \in Removing /\ task[h].user = u)
      ~> u \notin users

-----------------------------------------------------------------------------
(* The inductive invariant behind the two safety properties.               *)

\* An open transaction has read a user that is still there, is the only one to
\* hold it, and has seen posts of that user alone; one that is about to commit
\* met no conflict.
TransactionsHoldTheirUser ==
  \A h \in Handlers : task[h].step \in {"deletePosts", "commit"} =>
    /\ task[h].user \in users
    /\ \A p \in task[h].seen : author[p] = task[h].user \/ p \in task[h].stale
    /\ task[h].step = "commit" => task[h].stale = {}
    /\ \A g \in Handlers : task[g].step \in {"deletePosts", "commit"}
                             /\ task[g].user = task[h].user => g = h

\* Each post of that user is one the transaction has seen or a late one; what it
\* is about to delete is still there.
SnapshotsAreComplete ==
  \A h \in Handlers :
    /\ task[h].step \in {"deletePosts", "commit"} =>
         \A p \in posts : author[p] = task[h].user => p \in task[h].seen \/ p \in late
    /\ task[h].step = "commit" => task[h].seen \subseteq posts
    /\ task[h].step = "deletePosts" => task[h].seen \ task[h].stale \subseteq posts
    /\ task[h].step \in {"idle", "save", "deleteUser"} => task[h].seen = {}
    /\ task[h].step = "save" => task[h].user \in Users

PostsAreCreated == \A p \in posts : author[p] # None

(* What every step of the code keeps.                                      *)
IInv ==
  /\ TypeOK
  /\ TransactionsHoldTheirUser
  /\ SnapshotsAreComplete
  /\ PostsAreCreated
  /\ OrphansAreLate
=============================================================================
