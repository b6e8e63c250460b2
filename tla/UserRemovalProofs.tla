--------------------------- MODULE UserRemovalProofs ---------------------------
(***************************************************************************)
(* A removal takes the posts of its user along, for any number of users,   *)
(* posts and handlers, with or without failures.                           *)
(***************************************************************************)
EXTENDS UserRemoval, TLAPS

USE NoneAssumption, MaxUpsetsAssumption

Open == {"deletePosts", "commit"}

-----------------------------------------------------------------------------
\* What a step does to the tasks.

LEMMA IdleTask ==
  Idle \in Task /\ Idle.step = "idle" /\ Idle.seen = {} /\ Idle.stale = {}
BY DEF Idle, Task

LEMMA FinishTask ==
  ASSUME TypeOK, NEW h \in Handlers, Finish(h)
  PROVE  /\ task' \in [Handlers -> Task]
         /\ task'[h].step = "idle" /\ task'[h].seen = {}
         /\ \A g \in Handlers : g # h => task'[g] = task[g]
BY IdleTask DEF TypeOK, Finish

LEMMA StartTask ==
  ASSUME TypeOK, NEW h \in Handlers, NEW s \in {"save", "deleteUser"}, NEW u \in Users,
         Start(h, s, u)
  PROVE  /\ task' \in [Handlers -> Task]
         /\ task'[h].step = s /\ task'[h].user = u /\ task'[h].seen = {}
         /\ \A g \in Handlers : g # h => task'[g] = task[g]
<1> DEFINE t == [step |-> s, user |-> u, seen |-> {}, stale |-> {}]
<1>1. t \in Task
  BY DEF Task, Removing
<1>2. task' = [task EXCEPT ![h] = t]
  BY DEF Start
<1> QED
  BY <1>1, <1>2 DEF TypeOK

LEMMA StaleTask ==
  ASSUME TypeOK, NEW p \in Posts, Stale(p)
  PROVE  /\ task' \in [Handlers -> Task]
         /\ \A h \in Handlers :
              /\ task'[h].step = task[h].step
              /\ task'[h].user = task[h].user
              /\ task'[h].seen = task[h].seen
              /\ task[h].stale \subseteq task'[h].stale
              /\ p \in task[h].seen => p \in task'[h].stale
              /\ p \notin task[h].seen => task'[h].stale = task[h].stale
<1>1. ASSUME NEW h \in Handlers
      PROVE  /\ task[h] \in Task
             /\ task'[h] = IF p \in task[h].seen
                             THEN [task[h] EXCEPT !.stale = @ \union {p}] ELSE task[h]
  BY DEF Stale, TypeOK
<1>2. ASSUME NEW h \in Handlers
      PROVE  /\ task'[h] \in Task
             /\ task'[h].step = task[h].step
             /\ task'[h].user = task[h].user
             /\ task'[h].seen = task[h].seen
             /\ task[h].stale \subseteq task'[h].stale
             /\ p \in task[h].seen => p \in task'[h].stale
             /\ p \notin task[h].seen => task'[h].stale = task[h].stale
  <2>1. task[h] \in Task
    BY <1>1
  <2>2. CASE p \notin task[h].seen
    BY <1>1, <2>1, <2>2
  <2>3. CASE p \in task[h].seen
    <3>1. task'[h] = [task[h] EXCEPT !.stale = @ \union {p}]
      BY <1>1, <2>3
    <3>2. [task[h] EXCEPT !.stale = @ \union {p}] \in Task
      BY <2>1 DEF Task
    <3>3. /\ task'[h].step = task[h].step
          /\ task'[h].user = task[h].user
          /\ task'[h].seen = task[h].seen
          /\ task'[h].stale = task[h].stale \union {p}
      BY <2>1, <3>1 DEF Task
    <3>4. task'[h] \in Task
      BY <3>1, <3>2
    <3>5. task[h].stale \subseteq task'[h].stale /\ p \in task'[h].stale
      BY <3>3
    <3> QED
      BY <2>3, <3>3, <3>4, <3>5
  <2> QED
    BY <2>2, <2>3
<1>3. task' \in [Handlers -> Task]
  <2> DEFINE next(h) == IF p \in task[h].seen THEN [task[h] EXCEPT !.stale = @ \union {p}] ELSE task[h]
  <2>1. task' = [h \in Handlers |-> next(h)]
    BY DEF Stale
  <2>2. ASSUME NEW h \in Handlers PROVE next(h) \in Task
    BY <1>1, <1>2
  <2> HIDE DEF next
  <2> QED
    BY <2>1, <2>2
<1> QED
  BY <1>2, <1>3

LEMMA InitIInv == Init => IInv
<1> SUFFICES ASSUME Init PROVE IInv
  OBVIOUS
<1>1. TypeOK
  BY IdleTask DEF Init, TypeOK
<1>2. TransactionsHoldTheirUser /\ SnapshotsAreComplete
  BY IdleTask DEF Init, TransactionsHoldTheirUser, SnapshotsAreComplete
<1>3. PostsAreCreated /\ OrphansAreLate
  BY DEF Init, PostsAreCreated, OrphansAreLate
<1> QED
  BY <1>1, <1>2, <1>3 DEF IInv

-----------------------------------------------------------------------------
(* One lemma per action: it keeps the inductive invariant.                 *)

LEMMA StartIInv ==
  ASSUME IInv, NEW h \in Handlers, NEW u \in Users,
         CreatePost(h, u) \/ DeleteUserById(h, u)
  PROVE  IInv'
<1>1. PICK s \in {"save", "deleteUser"} : Start(h, s, u)
  BY DEF CreatePost, DeleteUserById
<1>2. UNCHANGED <<users, posts, author, late, upsets>>
  BY DEF CreatePost, DeleteUserById
<1>3. /\ task' \in [Handlers -> Task]
      /\ task'[h].step = s /\ task'[h].user = u /\ task'[h].seen = {}
      /\ \A g \in Handlers : g # h => task'[g] = task[g]
  BY <1>1, StartTask DEF IInv
<1>4. TypeOK' /\ PostsAreCreated' /\ OrphansAreLate'
  BY <1>2, <1>3 DEF IInv, TypeOK, PostsAreCreated, OrphansAreLate
<1>5. TransactionsHoldTheirUser'
  BY <1>2, <1>3 DEF IInv, TransactionsHoldTheirUser
<1>6. SnapshotsAreComplete'
  BY <1>2, <1>3 DEF IInv, SnapshotsAreComplete
<1> QED
  BY <1>4, <1>5, <1>6 DEF IInv

LEMMA SavePostIInv ==
  ASSUME IInv, NEW h \in Handlers, NEW p \in Posts, SavePost(h, p)
  PROVE  IInv'
<1> DEFINE u == task[h].user
<1>1. /\ task[h].step = "save" /\ author[p] = None
      /\ posts' = posts \union {p} /\ author' = [author EXCEPT ![p] = u]
      /\ users' = users /\ upsets' = upsets
      /\ late' = Comes(p, u)
  BY DEF SavePost
<1>2. /\ task' \in [Handlers -> Task]
      /\ task'[h].step = "idle" /\ task'[h].seen = {}
      /\ \A g \in Handlers : g # h => task'[g] = task[g]
  BY FinishTask DEF IInv, SavePost
<1>3. /\ u \in Users /\ p \notin posts
      /\ late' \subseteq Posts /\ late \ {p} \subseteq late'
      /\ u \notin users \/ UserHeld(u) => p \in late'
  BY <1>1 DEF IInv, TypeOK, SnapshotsAreComplete, PostsAreCreated, Comes
<1> HIDE DEF u
<1>4. /\ author' \in [Posts -> Users \union {None}] /\ author'[p] = u
      /\ \A q \in Posts : q # p => author'[q] = author[q]
  BY <1>1, <1>3 DEF IInv, TypeOK
<1>5. TypeOK'
  BY <1>1, <1>2, <1>3, <1>4 DEF IInv, TypeOK
<1>6. PostsAreCreated' /\ OrphansAreLate'
  BY <1>1, <1>3, <1>4 DEF IInv, TypeOK, PostsAreCreated, OrphansAreLate
<1>7. \A g \in Handlers : task'[g].step # "idle" => g # h /\ task'[g] = task[g]
  BY <1>2
<1>8. \A g \in Handlers : task[g].step \in Open => p \notin task[g].seen \/ p \in task[g].stale
  BY <1>1, NoneAssumption
  DEF Open, IInv, TypeOK, Task, TransactionsHoldTheirUser
<1>9. TransactionsHoldTheirUser'
  <2> SUFFICES ASSUME NEW g \in Handlers, task'[g].step \in Open
               PROVE  /\ task'[g].user \in users'
                      /\ \A q \in task'[g].seen :
                           author'[q] = task'[g].user \/ q \in task'[g].stale
                      /\ task'[g].step = "commit" => task'[g].stale = {}
                      /\ \A k \in Handlers : task'[k].step \in Open
                           /\ task'[k].user = task'[g].user => k = g
    BY DEF TransactionsHoldTheirUser, Open
  <2>1. g # h /\ task'[g] = task[g] /\ task[g].seen \subseteq Posts
    BY <1>7 DEF IInv, TypeOK, Task, Open
  <2>2. \A q \in task[g].seen : author'[q] = author[q] \/ q \in task[g].stale
    BY <1>4, <1>8, <2>1
  <2> QED
    BY <1>1, <1>7, <2>1, <2>2 DEF IInv, TransactionsHoldTheirUser, Open
<1>10. SnapshotsAreComplete'
  <2>1. ASSUME NEW g \in Handlers, task'[g].step \in Open,
               NEW q \in posts', author'[q] = task'[g].user
        PROVE  q \in task'[g].seen \/ q \in late'
    <3>1. task'[g] = task[g]
      BY <1>7, <2>1 DEF Open
    <3>2. CASE q = p
      <4>1. UserHeld(u)
        BY <1>4, <2>1, <3>1, <3>2 DEF UserHeld, Open
      <4> QED
        BY <1>3, <3>2, <4>1
    <3>3. CASE q # p
      BY <1>1, <1>3, <1>4, <2>1, <3>1, <3>3 DEF IInv, TypeOK, SnapshotsAreComplete, Open
    <3> QED
      BY <3>2, <3>3
  <2>2. ASSUME NEW g \in Handlers
        PROVE  /\ task'[g].step = "commit" => task'[g].seen \subseteq posts'
               /\ task'[g].step = "deletePosts" =>
                    task'[g].seen \ task'[g].stale \subseteq posts'
               /\ task'[g].step \in {"idle", "save", "deleteUser"} => task'[g].seen = {}
               /\ task'[g].step = "save" => task'[g].user \in Users
    BY <1>1, <1>2 DEF IInv, SnapshotsAreComplete
  <2> QED
    BY <2>1, <2>2 DEF SnapshotsAreComplete, Open
<1> QED
  BY <1>5, <1>6, <1>9, <1>10 DEF IInv

LEMMA UpdatePostIInv ==
  ASSUME IInv, NEW p \in Posts, NEW u \in Users, UpdatePost(p, u)
  PROVE  IInv'
<1>1. /\ users' = users /\ posts' = posts /\ p \in posts /\ ~PostHeld(p)
      /\ upsets' \in 0..MaxUpsets
      /\ author' \in [Posts -> Users \union {None}] /\ author'[p] = u
      /\ \A q \in Posts : q # p => author'[q] = author[q]
  BY DEF UpdatePost, IInv, TypeOK
<1>2. /\ task' \in [Handlers -> Task]
      /\ \A h \in Handlers :
           /\ task'[h].step = task[h].step
           /\ task'[h].user = task[h].user
           /\ task'[h].seen = task[h].seen
           /\ task[h].stale \subseteq task'[h].stale
           /\ p \in task[h].seen => p \in task'[h].stale
           /\ p \notin task[h].seen => task'[h].stale = task[h].stale
  BY StaleTask DEF UpdatePost, IInv
<1>3. /\ late' \subseteq Posts /\ late \ {p} \subseteq late'
      /\ u = author[p] => late' = late
      /\ u # author[p] /\ (u \notin users \/ UserHeld(u)) => p \in late'
  BY DEF UpdatePost, Comes, IInv, TypeOK
<1>4. TypeOK' /\ PostsAreCreated' /\ OrphansAreLate'
  <2>1. TypeOK'
    BY <1>1, <1>2, <1>3 DEF IInv, TypeOK
  <2>2. PostsAreCreated'
    BY <1>1, NoneAssumption DEF IInv, TypeOK, PostsAreCreated
  <2>3. ASSUME NEW q \in posts, author'[q] \notin users PROVE q \in late'
    <3>1. CASE q = p
      BY <1>1, <1>3, <2>3, <3>1 DEF IInv, OrphansAreLate
    <3>2. CASE q # p
      BY <1>1, <1>3, <2>3, <3>2 DEF IInv, TypeOK, OrphansAreLate
    <3> QED
      BY <3>1, <3>2
  <2> QED
    BY <1>1, <2>1, <2>2, <2>3 DEF OrphansAreLate
<1>5. TransactionsHoldTheirUser'
  <2> SUFFICES ASSUME NEW g \in Handlers, task'[g].step \in Open
               PROVE  /\ task'[g].user \in users'
                      /\ \A q \in task'[g].seen :
                           author'[q] = task'[g].user \/ q \in task'[g].stale
                      /\ task'[g].step = "commit" => task'[g].stale = {}
                      /\ \A k \in Handlers : task'[k].step \in Open
                           /\ task'[k].user = task'[g].user => k = g
    BY DEF TransactionsHoldTheirUser, Open
  <2>1. /\ task[g].step \in Open /\ task[g].user \in users /\ task[g].seen \subseteq Posts
        /\ \A q \in task[g].seen : author[q] = task[g].user \/ q \in task[g].stale
        /\ task[g].step = "commit" => task[g].stale = {} /\ p \notin task[g].seen
    BY <1>1, <1>2 DEF IInv, TypeOK, Task, TransactionsHoldTheirUser, PostHeld, Open
  <2>2. \A q \in task[g].seen : author'[q] = task[g].user \/ q \in task'[g].stale
    BY <1>1, <1>2, <2>1
  <2>3. \A k \in Handlers : task'[k].step \in Open /\ task'[k].user = task'[g].user => k = g
    BY <1>2, <2>1 DEF IInv, TransactionsHoldTheirUser, Open
  <2> QED
    BY <1>1, <1>2, <2>1, <2>2, <2>3
<1>6. SnapshotsAreComplete'
  <2>1. ASSUME NEW g \in Handlers, task'[g].step \in Open,
               NEW q \in posts', author'[q] = task'[g].user
        PROVE  q \in task'[g].seen \/ q \in late'
    <3>1. /\ task[g].step \in Open /\ task[g].user = task'[g].user
          /\ task[g].seen = task'[g].seen
          /\ \A r \in posts : author[r] = task[g].user => r \in task[g].seen \/ r \in late
      BY <1>2, <2>1 DEF IInv, SnapshotsAreComplete, Open
    <3>2. CASE q = p
      <4>1. UserHeld(u)
        BY <1>1, <2>1, <3>1, <3>2 DEF UserHeld, Open
      <4> QED
        BY <1>1, <1>3, <2>1, <3>1, <3>2, <4>1
    <3>3. CASE q # p
      BY <1>1, <1>3, <2>1, <3>1, <3>3 DEF IInv, TypeOK
    <3> QED
      BY <3>2, <3>3
  <2>2. ASSUME NEW g \in Handlers
        PROVE  /\ task'[g].step = "commit" => task'[g].seen \subseteq posts'
               /\ task'[g].step = "deletePosts" =>
                    task'[g].seen \ task'[g].stale \subseteq posts'
               /\ task'[g].step \in {"idle", "save", "deleteUser"} => task'[g].seen = {}
               /\ task'[g].step = "save" => task'[g].user \in Users
    BY <1>1, <1>2 DEF IInv, SnapshotsAreComplete
  <2> QED
    BY <2>1, <2>2 DEF SnapshotsAreComplete, Open
<1> QED
  BY <1>4, <1>5, <1>6 DEF IInv

LEMMA DeletePostIInv ==
  ASSUME IInv, NEW p \in Posts, DeletePost(p)
  PROVE  IInv'
<1>1. /\ users' = users /\ author' = author /\ late' = late
      /\ posts' = posts \ {p} /\ upsets' = upsets /\ ~PostHeld(p)
  BY DEF DeletePost
<1>2. /\ task' \in [Handlers -> Task]
      /\ \A h \in Handlers :
           /\ task'[h].step = task[h].step
           /\ task'[h].user = task[h].user
           /\ task'[h].seen = task[h].seen
           /\ task[h].stale \subseteq task'[h].stale
           /\ p \in task[h].seen => p \in task'[h].stale
           /\ p \notin task[h].seen => task'[h].stale = task[h].stale
  BY StaleTask DEF DeletePost, IInv
<1>3. TypeOK' /\ PostsAreCreated' /\ OrphansAreLate'
  BY <1>1, <1>2 DEF IInv, TypeOK, PostsAreCreated, OrphansAreLate
<1>4. TransactionsHoldTheirUser'
  <2>1. \A h \in Handlers : task[h].step = "commit" => p \notin task[h].seen
    BY <1>1 DEF PostHeld
  <2> QED
    BY <1>1, <1>2, <2>1 DEF IInv, TransactionsHoldTheirUser
<1>5. SnapshotsAreComplete'
  BY <1>1, <1>2 DEF IInv, SnapshotsAreComplete, PostHeld
<1> QED
  BY <1>3, <1>4, <1>5 DEF IInv

LEMMA DeleteUserIInv ==
  ASSUME IInv, NEW h \in Handlers, DeleteUser(h)
  PROVE  IInv'
<1> DEFINE u == task[h].user
<1>1. /\ task[h].step = "deleteUser" /\ ~UserHeld(u)
      /\ UNCHANGED <<users, posts, author, upsets>>
  BY DEF DeleteUser
<1>2. CASE u \notin users
  <2>1. Finish(h) /\ late' = late
    BY <1>2 DEF DeleteUser
  <2>2. /\ task' \in [Handlers -> Task]
        /\ task'[h].step = "idle" /\ task'[h].seen = {}
        /\ \A g \in Handlers : g # h => task'[g] = task[g]
    BY <2>1, FinishTask DEF IInv
  <2>3. TypeOK' /\ PostsAreCreated' /\ OrphansAreLate'
    BY <1>1, <2>1, <2>2 DEF IInv, TypeOK, PostsAreCreated, OrphansAreLate
  <2>4. TransactionsHoldTheirUser' /\ SnapshotsAreComplete'
    BY <1>1, <2>1, <2>2 DEF IInv, TransactionsHoldTheirUser, SnapshotsAreComplete
  <2> QED
    BY <2>3, <2>4 DEF IInv
<1>3. CASE u \in users
  <2>1. /\ task' = [task EXCEPT ![h].step = "deletePosts", ![h].seen = PostsOf(u)]
        /\ late' = late \ PostsOf(u)
    BY <1>3 DEF DeleteUser
  <2>2. /\ task' \in [Handlers -> Task]
        /\ task'[h].step = "deletePosts" /\ task'[h].user = u
        /\ task'[h].seen = PostsOf(u)
        /\ \A g \in Handlers : g # h => task'[g] = task[g]
    <3>1. PostsOf(u) \subseteq Posts
      BY DEF PostsOf, IInv, TypeOK
    <3> QED
      BY <2>1, <3>1 DEF IInv, TypeOK, Task, Removing
  <2>3. TypeOK' /\ PostsAreCreated' /\ OrphansAreLate'
    BY <1>1, <1>3, <2>1, <2>2 DEF IInv, TypeOK, PostsAreCreated, OrphansAreLate, PostsOf
  <2>4. TransactionsHoldTheirUser'
    BY <1>1, <1>3, <2>2 DEF IInv, TransactionsHoldTheirUser, PostsOf, UserHeld
  <2>5. SnapshotsAreComplete'
    <3>1. \A g \in Handlers : g # h /\ task[g].step \in Open => task[g].user # u
      BY <1>1 DEF UserHeld, Open
    <3>2. ASSUME NEW g \in Handlers, task'[g].step \in Open,
                 NEW q \in posts, author[q] = task'[g].user
          PROVE  q \in task'[g].seen \/ q \in late'
      <4>1. CASE g = h
        BY <2>2, <3>2, <4>1 DEF PostsOf
      <4>2. CASE g # h
        <5>1. task'[g] = task[g] /\ q \notin PostsOf(u)
          BY <2>2, <3>1, <3>2, <4>2 DEF PostsOf
        <5> QED
          BY <2>1, <3>2, <5>1 DEF IInv, SnapshotsAreComplete, Open
      <4> QED
        BY <4>1, <4>2
    <3>3. ASSUME NEW g \in Handlers
          PROVE  /\ task'[g].step = "commit" => task'[g].seen \subseteq posts
                 /\ task'[g].step = "deletePosts" =>
                      task'[g].seen \ task'[g].stale \subseteq posts
                 /\ task'[g].step \in {"idle", "save", "deleteUser"} => task'[g].seen = {}
                 /\ task'[g].step = "save" => task'[g].user \in Users
      BY <2>2 DEF IInv, SnapshotsAreComplete, PostsOf
    <3> QED
      BY <1>1, <3>2, <3>3 DEF SnapshotsAreComplete, Open
  <2> QED
    BY <2>3, <2>4, <2>5 DEF IInv
<1> QED
  BY <1>2, <1>3

LEMMA DeletePostsIInv ==
  ASSUME IInv, NEW h \in Handlers, DeletePosts(h)
  PROVE  IInv'
<1>1. /\ task[h].step = "deletePosts" /\ task[h] \in Task
      /\ UNCHANGED <<users, posts, author, late, upsets>>
  BY DEF DeletePosts, IInv, TypeOK
<1>2. CASE task[h].stale = {}
  <2>1. /\ task' \in [Handlers -> Task]
        /\ task'[h].step = "commit" /\ task'[h].user = task[h].user
        /\ task'[h].seen = task[h].seen /\ task'[h].stale = task[h].stale
        /\ \A g \in Handlers : g # h => task'[g] = task[g]
    BY <1>2 DEF DeletePosts, IInv, TypeOK, Task, Removing
  <2>2. TypeOK' /\ PostsAreCreated' /\ OrphansAreLate'
    BY <1>1, <2>1 DEF IInv, TypeOK, PostsAreCreated, OrphansAreLate
  <2>3. TransactionsHoldTheirUser'
    BY <1>1, <1>2, <2>1 DEF IInv, TransactionsHoldTheirUser
  <2>4. SnapshotsAreComplete'
    BY <1>1, <1>2, <2>1 DEF IInv, SnapshotsAreComplete
  <2> QED
    BY <2>2, <2>3, <2>4 DEF IInv
<1>3. CASE task[h].stale # {}
  <2>1. /\ task' \in [Handlers -> Task]
        /\ task'[h].step = "deleteUser" /\ task'[h].seen = {}
        /\ \A g \in Handlers : g # h => task'[g] = task[g]
    <3> DEFINE t == [step |-> "deleteUser", user |-> task[h].user, seen |-> {}, stale |-> {}]
    <3>1. t \in Task
      BY <1>1 DEF Task, Removing
    <3>2. task' = [task EXCEPT ![h] = t]
      BY <1>3 DEF DeletePosts
    <3> QED
      BY <3>1, <3>2 DEF IInv, TypeOK
  <2>2. TypeOK' /\ PostsAreCreated' /\ OrphansAreLate'
    BY <1>1, <2>1 DEF IInv, TypeOK, PostsAreCreated, OrphansAreLate
  <2>3. TransactionsHoldTheirUser' /\ SnapshotsAreComplete'
    BY <1>1, <2>1 DEF IInv, TransactionsHoldTheirUser, SnapshotsAreComplete
  <2> QED
    BY <2>2, <2>3 DEF IInv
<1> QED
  BY <1>2, <1>3

LEMMA CommitIInv ==
  ASSUME IInv, NEW h \in Handlers, Commit(h)
  PROVE  IInv'
<1> DEFINE u == task[h].user
           seen == task[h].seen
<1>1. /\ task[h].step = "commit" /\ users' = users \ {u} /\ posts' = posts \ seen
      /\ UNCHANGED <<author, late, upsets>>
  BY DEF Commit
<1>2. /\ task' \in [Handlers -> Task]
      /\ task'[h].step = "idle" /\ task'[h].seen = {}
      /\ \A g \in Handlers : g # h => task'[g] = task[g]
  BY FinishTask DEF IInv, Commit
<1>3. /\ u \in users
      /\ \A p \in seen : author[p] = u
      /\ \A p \in posts : author[p] = u => p \in seen \/ p \in late
      /\ \A g \in Handlers : g # h /\ task[g].step \in Open => task[g].user # u
  BY <1>1 DEF IInv, TransactionsHoldTheirUser, SnapshotsAreComplete, Open
<1> HIDE DEF u, seen
<1>4. TypeOK'
  BY <1>1, <1>2 DEF IInv, TypeOK
<1>5. PostsAreCreated' /\ OrphansAreLate'
  BY <1>1, <1>3 DEF IInv, PostsAreCreated, OrphansAreLate
<1>6. TransactionsHoldTheirUser'
  BY <1>1, <1>2, <1>3 DEF IInv, TransactionsHoldTheirUser, Open
<1>7. SnapshotsAreComplete'
  <2>1. ASSUME NEW g \in Handlers, g # h, task[g].step \in Open
        PROVE  task[g].seen \intersect seen \subseteq task[g].stale
    BY <1>3, <2>1 DEF IInv, TransactionsHoldTheirUser, Open
  <2>2. \A g \in Handlers : task[g].step = "commit" => task[g].stale = {}
    BY DEF IInv, TransactionsHoldTheirUser
  <2> QED
    BY <1>1, <1>2, <2>1, <2>2 DEF IInv, SnapshotsAreComplete, Open
<1> QED
  BY <1>4, <1>5, <1>6, <1>7 DEF IInv

LEMMA FailIInv ==
  ASSUME IInv, NEW h \in Handlers, Fail(h)
  PROVE  IInv'
<1>1. UNCHANGED <<users, posts, author, late>> /\ upsets' \in 0..MaxUpsets
  BY DEF Fail, IInv, TypeOK
<1>2. /\ task' \in [Handlers -> Task]
      /\ task'[h].step = "idle" /\ task'[h].seen = {}
      /\ \A g \in Handlers : g # h => task'[g] = task[g]
  BY FinishTask DEF IInv, Fail
<1>3. TypeOK' /\ PostsAreCreated' /\ OrphansAreLate'
  BY <1>1, <1>2 DEF IInv, TypeOK, PostsAreCreated, OrphansAreLate
<1>4. TransactionsHoldTheirUser' /\ SnapshotsAreComplete'
  BY <1>1, <1>2 DEF IInv, TransactionsHoldTheirUser, SnapshotsAreComplete
<1> QED
  BY <1>3, <1>4 DEF IInv

LEMMA NextIInv == IInv /\ [Next]_vars => IInv'
<1> SUFFICES ASSUME IInv, [Next]_vars PROVE IInv'
  OBVIOUS
<1>1. CASE Next
  BY <1>1, StartIInv, SavePostIInv, UpdatePostIInv, DeletePostIInv, DeleteUserIInv, DeletePostsIInv,
     CommitIInv, FailIInv DEF Next, Proceed
<1>2. CASE UNCHANGED vars
  BY <1>2 DEF vars, IInv, TypeOK, TransactionsHoldTheirUser, SnapshotsAreComplete,
              PostsAreCreated, OrphansAreLate
<1> QED
  BY <1>1, <1>2

-----------------------------------------------------------------------------
(* The inductive invariant of the removal holds in every reachable state.  *)
THEOREM Invariance == Spec => []IInv
BY InitIInv, NextIInv, PTL DEF Spec

(* Whatever a removed user leaves behind came to the user after the        *)
(* removal had read the user's posts: saved by a request under way, or     *)
(* handed over by an edit.                                                 *)
THEOREM RemovalIsComplete == Spec => []OrphansAreLate
<1>1. IInv => OrphansAreLate
  BY DEF IInv
<1> QED
  BY <1>1, Invariance, PTL

(* A post disappears because somebody deletes it or with its author: an    *)
(* aborted or failed removal has taken nothing away.                       *)
THEOREM RemovalIsAtomic == Spec => PostsGoWithTheirAuthor
<1> DEFINE A == \A p \in posts : p \notin posts' =>
                  DeletePost(p) \/ (author[p] \in users /\ author[p] \notin users')
<1>1. IInv /\ [Next]_vars => A
  <2> SUFFICES ASSUME IInv, [Next]_vars, NEW p \in posts, p \notin posts'
               PROVE  DeletePost(p) \/ (author[p] \in users /\ author[p] \notin users')
    OBVIOUS
  <2>1. ASSUME NEW q \in Posts, DeletePost(q) PROVE DeletePost(p)
    BY <2>1 DEF DeletePost
  <2>2. ASSUME NEW h \in Handlers, Commit(h)
        PROVE  author[p] \in users /\ author[p] \notin users'
    BY <2>2 DEF Commit, IInv, TransactionsHoldTheirUser
  <2>3. ASSUME posts \subseteq posts' PROVE FALSE
    BY <2>3
  <2>4. ASSUME NEW h \in Handlers PROVE SavePost(h, p) => posts \subseteq posts'
    BY DEF SavePost
  <2>5. CASE Next
    <3>1. CASE \E h \in Handlers, u \in Users : CreatePost(h, u) \/ DeleteUserById(h, u)
      BY <2>3, <3>1 DEF CreatePost, DeleteUserById
    <3>2. CASE \E h \in Handlers, q \in Posts : SavePost(h, q)
      BY <2>3, <3>2 DEF SavePost
    <3>3. CASE \E h \in Handlers : DeleteUser(h) \/ DeletePosts(h) \/ Fail(h)
      BY <2>3, <3>3 DEF DeleteUser, DeletePosts, Fail
    <3>4. CASE \E q \in Posts, u \in Users : UpdatePost(q, u)
      BY <2>3, <3>4 DEF UpdatePost
    <3> QED
      BY <2>1, <2>2, <2>5, <3>1, <3>2, <3>3, <3>4 DEF Next, Proceed
  <2>6. CASE UNCHANGED vars
    BY <2>3, <2>6 DEF vars
  <2> QED
    BY <2>5, <2>6
<1>2. IInv /\ [Next]_vars => [A]_vars
  BY <1>1
<1> QED
  BY <1>2, Invariance, PTL DEF Spec, PostsGoWithTheirAuthor
=============================================================================
