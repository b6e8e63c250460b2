------------------------ MODULE CategoryApprovalProofs ------------------------
(***************************************************************************)
(* Proofs about CategoryApproval, for every set of categories, requests,   *)
(* users, names and handlers, with or without faults: what holds of every  *)
(* interleaving, what a single decider adds, and that with one that does   *)
(* not fail the code implements ApprovalAtomic.                            *)
(***************************************************************************)
EXTENDS CategoryApproval, TLAPS

USE NoneAssumption, DecidersAssumption

-----------------------------------------------------------------------------
(* The documents that the code builds are documents of the schemas.        *)

LEMMA NewCategoryDocument ==
  ASSUME NEW n \in Names, NEW u \in Users \union {None}
  PROVE  NewCategory(n, u) \in Category /\ NewCategory(n, u) # None
BY DEF NewCategory, Category, CategoryStatus

LEMMA NewApproveDocument ==
  ASSUME NEW u \in Users, NEW d \in NewData
  PROVE  NewApprove(u, d) \in ApproveDocument /\ NewApprove(u, d) # None
BY DEF NewApprove, ApproveDocument, ApproveStatus

LEMMA WrittenCategory ==
  ASSUME NEW doc \in Category, NEW d \in NewData
  PROVE  /\ ApprovalCategoryCreate(doc, d) \in Category
         /\ RejectedCategoryCreate(doc, d) \in Category
BY DEF ApprovalCategoryCreate, RejectedCategoryCreate, Category, CategoryStatus, NewData

LEMMA IdleTask == Idle \in Task /\ Idle.step = "idle"
BY DEF Idle, Task

-----------------------------------------------------------------------------
(* Initially nothing is stored and nobody is at work.                      *)

LEMMA InitIInv == Init => IInv
<1> SUFFICES ASSUME Init PROVE IInv
  OBVIOUS
<1> USE DEF Init
<1>1. TypeOK
  BY IdleTask DEF TypeOK
<1>2. StoredIsMinted /\ PublishedByVerdict /\ PublishedAsRequested
  BY DEF StoredIsMinted, PublishedByVerdict, PublishedAsRequested, Published, Stored
<1>3. RequestsAreDistinct /\ VerdictsAreRecorded
  BY DEF RequestsAreDistinct, VerdictsAreRecorded, Requested, IsFor, Decided
<1>4. CreatorsAreAlone /\ DecidersAreCurrent
  BY IdleTask DEF CreatorsAreAlone, DecidersAreCurrent, Deciding
<1> QED
  BY <1>1, <1>2, <1>3, <1>4 DEF IInv

-----------------------------------------------------------------------------
(* One lemma per action: it keeps the inductive invariant.                 *)

LEMMA CreateCategoryIInv ==
  ASSUME IInv, NEW h \in Handlers, NEW c \in Categories, NEW n \in Names,
         NEW u \in Users, CreateCategory(h, c, n, u)
  PROVE  IInv'
<1> DEFINE data == [id |-> c, name |-> n, modifiedBy |-> u]
           t == [Idle EXCEPT !.step = "createApprove", !.by = u, !.newData = data]
<1> USE DEF IInv, CreateCategory
<1>1. data \in NewData /\ data.id = c /\ data.modifiedBy = u
  BY DEF NewData
<1>2. t \in Task /\ t.step = "createApprove" /\ t.newData = data /\ t.by = u
  BY <1>1 DEF Task, Idle
<1>3. task' = [task EXCEPT ![h] = t] /\ task[h].step = "idle" /\ c \notin minted
  OBVIOUS
<1> HIDE DEF data, t
<1>4. TypeOK'
  BY <1>2, <1>3, NewCategoryDocument, <1>1 DEF TypeOK
<1>5. /\ \A g \in Handlers : g # h => task'[g] = task[g]
      /\ task'[h] = t
  BY <1>3 DEF TypeOK
<1>6. /\ \A d \in Categories : d # c => categories'[d] = categories[d]
      /\ categories'[c].status = "PENDING"
      /\ minted' = minted \union {c}
      /\ approves' = approves /\ verdicts' = verdicts
  BY DEF TypeOK, NewCategory
<1> HIDE DEF CreateCategory
<1>7. StoredIsMinted'
  BY <1>6 DEF StoredIsMinted, Stored, TypeOK
<1>8. RequestsAreDistinct' /\ VerdictsAreRecorded'
  BY <1>6 DEF RequestsAreDistinct, VerdictsAreRecorded, Requested, IsFor, Decided
<1>9. \A a \in Requests : ~IsFor(a, c)
  BY <1>3 DEF RequestsAreDistinct, IsFor
<1>10. \A g \in Handlers : ~Creating(g, c)
  BY <1>3 DEF CreatorsAreAlone, Creating
<1>11. CreatorsAreAlone'
  BY <1>1, <1>2, <1>5, <1>6, <1>9, <1>10
     DEF CreatorsAreAlone, Creating, IsFor, Requested
<1>12. DecidersAreCurrent'
  BY <1>2, <1>5, <1>6 DEF DecidersAreCurrent, Deciding, Requested
<1>13. PublishedByVerdict' /\ PublishedAsRequested'
  BY <1>6 DEF PublishedByVerdict, PublishedAsRequested, Published, Stored, IsFor,
              Requested, Decided
<1> QED
  BY <1>4, <1>7, <1>8, <1>11, <1>12, <1>13

LEMMA CreateApproveIInv ==
  ASSUME IInv, NEW h \in Handlers, NEW a \in Requests, CreateApprove(h, a)
  PROVE  IInv'
<1> USE DEF IInv
<1> DEFINE data == task[h].newData
           doc == NewApprove(task[h].by, data)
<1>1. /\ data \in NewData /\ data.id \in minted /\ data.id \in Categories
      /\ task[h].by = data.modifiedBy /\ data.modifiedBy \in Users
      /\ \A b \in Requests : ~IsFor(b, data.id)
      /\ \A g \in Handlers : Creating(g, data.id) => g = h
  BY DEF CreateApprove, CreatorsAreAlone, NewData
<1>2. /\ doc \in ApproveDocument /\ doc # None
      /\ doc.newData = data /\ doc.createdBy = task[h].by /\ doc.status = "PENDING"
  BY <1>1, NewApproveDocument DEF NewApprove
<1> HIDE DEF data, doc
<1>3. /\ approves[a] = None
      /\ approves' = [approves EXCEPT ![a] = doc]
      /\ task' = [task EXCEPT ![h] = Idle]
      /\ categories' = categories /\ minted' = minted /\ verdicts' = verdicts
  BY DEF CreateApprove, Finish, data, doc
<1>4. TypeOK'
  BY <1>2, <1>3, IdleTask DEF TypeOK
<1>5. /\ \A g \in Handlers : g # h => task'[g] = task[g]
      /\ task'[h].step = "idle"
      /\ \A b \in Requests : b # a => approves'[b] = approves[b]
      /\ approves'[a] = doc
  BY <1>3, IdleTask DEF TypeOK
<1>6. StoredIsMinted'
  BY <1>3 DEF StoredIsMinted, Stored
<1>7. RequestsAreDistinct'
  BY <1>1, <1>2, <1>3, <1>5 DEF RequestsAreDistinct, Requested, IsFor
<1>8. CreatorsAreAlone'
  <2>1. \A g \in Handlers : task'[g].step = "createApprove" =>
          /\ g # h /\ task'[g] = task[g]
          /\ task[g].newData.id # data.id
    BY <1>1, <1>5 DEF Creating
  <2>2. \A b \in Requests, d \in NewData : IsFor(b, d.id)' => IsFor(b, d.id) \/ d.id = data.id
    BY <1>2, <1>5 DEF IsFor, Requested
  <2> QED
    BY <1>3, <2>1, <2>2 DEF CreatorsAreAlone, Creating
<1>9. DecidersAreCurrent'
  BY <1>3, <1>5 DEF DecidersAreCurrent, Deciding, Requested
<1>10. VerdictsAreRecorded'
  BY <1>2, <1>3, <1>5 DEF VerdictsAreRecorded, Requested, Decided
<1>11. PublishedByVerdict' /\ PublishedAsRequested'
  BY <1>3, <1>5 DEF PublishedByVerdict, PublishedAsRequested, Published, Stored, IsFor,
                    Requested, Decided
<1> QED
  BY <1>4, <1>6, <1>7, <1>8, <1>9, <1>10, <1>11

LEMMA FindApprovePendingForActionIInv ==
  ASSUME IInv, NEW h \in Handlers, NEW a \in Requests, NEW v \in Verdicts,
         NEW u \in Users, FindApprovePendingForAction(h, a, v, u)
  PROVE  IInv'
<1> USE DEF IInv
<1> DEFINE t == [step |-> "writeApprove", by |-> u, verdict |-> v,
                 request |-> a, newData |-> approves[a].newData]
<1>1. /\ approves[a] # None /\ task' = [task EXCEPT ![h] = t]
      /\ categories' = categories /\ minted' = minted
      /\ verdicts' = verdicts /\ approves' = approves
  BY DEF FindApprovePendingForAction
<1>2. /\ t \in Task /\ t.step = "writeApprove" /\ t.by = u /\ t.verdict = v
      /\ t.request = a /\ t.newData = approves[a].newData
  BY <1>1 DEF Task, TypeOK, ApproveDocument
<1> HIDE DEF t
<1>3. TypeOK'
  BY <1>1, <1>2 DEF TypeOK
<1>4. /\ \A g \in Handlers : g # h => task'[g] = task[g]
      /\ task'[h] = t
  BY <1>1 DEF TypeOK
<1>5. StoredIsMinted' /\ RequestsAreDistinct' /\ VerdictsAreRecorded'
  BY <1>1 DEF StoredIsMinted, Stored, RequestsAreDistinct, VerdictsAreRecorded,
              Requested, IsFor, Decided
<1>6. CreatorsAreAlone'
  BY <1>1, <1>2, <1>4 DEF CreatorsAreAlone, IsFor, Requested, Creating
<1>7. DecidersAreCurrent'
  BY <1>1, <1>2, <1>4 DEF DecidersAreCurrent, Deciding, Requested
<1>8. PublishedByVerdict' /\ PublishedAsRequested'
  BY <1>1 DEF PublishedByVerdict, PublishedAsRequested, Published, Stored, IsFor,
              Requested, Decided
<1> QED
  BY <1>3, <1>5, <1>6, <1>7, <1>8

LEMMA WriteApproveIInv ==
  ASSUME IInv, NEW h \in Handlers, WriteApprove(h)
  PROVE  IInv'
<1> USE DEF IInv
<1> DEFINE a == task[h].request
           v == task[h].verdict
           doc == [approves[a] EXCEPT !.status = v, !.acceptedBy = task[h].by]
           t == [task[h] EXCEPT !.step = "writeCategory"]
<1>1. /\ a \in Requests /\ v \in Verdicts /\ task[h].by \in Users
      /\ approves[a] # None /\ task[h].newData = approves[a].newData
      /\ task[h].step = "writeApprove" /\ task[h] \in Task
  BY DEF WriteApprove, DecidersAreCurrent, Deciding, Requested, TypeOK
<1>2. approves[a] \in ApproveDocument
  BY <1>1 DEF TypeOK
<1>3. /\ doc \in ApproveDocument /\ doc.status = v /\ doc.status # "PENDING"
      /\ doc.newData = approves[a].newData /\ doc.createdBy = approves[a].createdBy
  BY <1>1, <1>2 DEF ApproveDocument, ApproveStatus, Verdicts
<1>4. /\ t \in Task /\ t.step = "writeCategory" /\ t.by = task[h].by /\ t.verdict = v
      /\ t.request = a /\ t.newData = task[h].newData
  BY <1>1 DEF Task
<1>5. /\ approves' = [approves EXCEPT ![a] = doc]
      /\ verdicts' = [verdicts EXCEPT ![a] = verdicts[a] \union {v}]
      /\ task' = [task EXCEPT ![h] = t]
      /\ categories' = categories /\ minted' = minted
  BY <1>1 DEF WriteApprove, TypeOK
<1> HIDE DEF doc, t, a, v
<1>6. TypeOK'
  BY <1>1, <1>3, <1>4, <1>5 DEF TypeOK
<1>7. /\ \A g \in Handlers : g # h => task'[g] = task[g]
      /\ task'[h] = t
      /\ \A b \in Requests : b # a => approves'[b] = approves[b] /\ verdicts'[b] = verdicts[b]
      /\ approves'[a] = doc
      /\ verdicts'[a] = verdicts[a] \union {v}
      /\ doc # None
  BY <1>1, <1>3, <1>5 DEF TypeOK
<1>8. StoredIsMinted' /\ RequestsAreDistinct'
  BY <1>1, <1>3, <1>5, <1>7 DEF StoredIsMinted, Stored, RequestsAreDistinct, Requested, IsFor
<1>9. \A b \in Requests, c \in Categories : IsFor(b, c)' = IsFor(b, c)
  BY <1>1, <1>3, <1>7 DEF IsFor, Requested
<1>10. CreatorsAreAlone'
  <2>1. \A b \in Requests, d \in NewData : IsFor(b, d.id)' = IsFor(b, d.id)
    BY <1>9 DEF NewData
  <2> QED
    BY <1>4, <1>5, <1>7, <2>1 DEF CreatorsAreAlone, Creating
<1>11. DecidersAreCurrent'
  BY <1>1, <1>3, <1>4, <1>7 DEF DecidersAreCurrent, Deciding, Requested
<1>12. VerdictsAreRecorded'
  BY <1>1, <1>3, <1>7 DEF VerdictsAreRecorded, Requested, Decided
<1>13. PublishedByVerdict'
  BY <1>5, <1>7, <1>9 DEF PublishedByVerdict, Published, Stored
<1>14. PublishedAsRequested'
  BY <1>1, <1>3, <1>5, <1>7, <1>9
     DEF PublishedAsRequested, Published, Stored, Decided, Requested
<1> QED
  BY <1>6, <1>8, <1>10, <1>11, <1>12, <1>13, <1>14

LEMMA WriteCategoryIInv ==
  ASSUME IInv, NEW h \in Handlers, WriteCategory(h)
  PROVE  IInv'
<1> USE DEF IInv
<1> DEFINE a == task[h].request
           v == task[h].verdict
           data == task[h].newData
<1>0. PICK c \in Categories : c = data.id
  BY DEF WriteCategory, DecidersAreCurrent, Deciding, Requested, TypeOK,
         ApproveDocument, NewData
<1> DEFINE doc == IF categories[c] = None THEN None
                  ELSE IF v = "APPROVED" THEN ApprovalCategoryCreate(categories[c], data)
                  ELSE RejectedCategoryCreate(categories[c], data)
<1>1. /\ a \in Requests /\ v \in Verdicts /\ v \in verdicts[a]
      /\ approves[a] # None /\ data = approves[a].newData
      /\ approves[a] \in ApproveDocument /\ data \in NewData /\ c = data.id
      /\ approves[a].createdBy = data.modifiedBy
  BY <1>0 DEF WriteCategory, DecidersAreCurrent, Deciding, Requested, TypeOK,
              RequestsAreDistinct, ApproveDocument
<1>2. IsFor(a, c) /\ Decided(a)
  BY <1>1 DEF IsFor, Decided, Requested, VerdictsAreRecorded
<1>3. /\ doc \in Category \union {None}
      /\ doc = None <=> categories[c] = None
  <2>1. CASE categories[c] = None
    BY <2>1
  <2>2. CASE categories[c] # None
    <3>1. categories[c] \in Category
      BY <2>2 DEF TypeOK
    <3>2. /\ ApprovalCategoryCreate(categories[c], data) \in Category
          /\ RejectedCategoryCreate(categories[c], data) \in Category
      BY <1>1, <3>1, WrittenCategory
    <3> QED
      BY <2>2, <3>2
  <2> QED
    BY <2>1, <2>2
<1>4. doc # None => /\ doc.status = StatusOf(v)
                    /\ doc.name = data.name
                    /\ doc.modifiedBy = data.modifiedBy
  <2>1. CASE categories[c] = None
    BY <2>1
  <2>2. CASE categories[c] # None /\ v = "APPROVED"
    <3>1. categories[c] \in Category /\ doc = ApprovalCategoryCreate(categories[c], data)
      BY <2>2 DEF TypeOK
    <3> QED
      BY <2>2, <3>1 DEF ApprovalCategoryCreate, Category, StatusOf
  <2>3. CASE categories[c] # None /\ v # "APPROVED"
    <3>1. categories[c] \in Category /\ doc = RejectedCategoryCreate(categories[c], data)
      BY <2>3 DEF TypeOK
    <3> QED
      BY <2>3, <3>1 DEF RejectedCategoryCreate, Category, StatusOf
  <2> QED
    BY <2>1, <2>2, <2>3
<1>5. /\ categories' = [categories EXCEPT ![c] = doc]
      /\ task' = [task EXCEPT ![h] = Idle]
      /\ minted' = minted /\ approves' = approves /\ verdicts' = verdicts
  BY <1>1 DEF WriteCategory, Finish, TypeOK
<1> HIDE DEF doc, data, v, a
<1>6. TypeOK'
  BY <1>1, <1>3, <1>5, IdleTask DEF TypeOK
<1>7. /\ \A g \in Handlers : g # h => task'[g] = task[g]
      /\ task'[h].step = "idle"
      /\ \A d \in Categories : d # c => categories'[d] = categories[d]
      /\ categories'[c] = doc
  BY <1>1, <1>5, IdleTask DEF TypeOK
<1>8. StoredIsMinted'
  BY <1>1, <1>3, <1>5, <1>7 DEF StoredIsMinted, Stored
<1>9. RequestsAreDistinct' /\ VerdictsAreRecorded'
  BY <1>5 DEF RequestsAreDistinct, VerdictsAreRecorded, Requested, IsFor, Decided
<1>10. CreatorsAreAlone'
  BY <1>5, <1>7 DEF CreatorsAreAlone, Creating, IsFor, Requested
<1>11. DecidersAreCurrent'
  BY <1>5, <1>7 DEF DecidersAreCurrent, Deciding, Requested
<1>12. PublishedByVerdict'
  <2>1. Published(c)' =>
          \E b \in Requests : /\ IsFor(b, c)'
                              /\ \E w \in verdicts'[b] : categories'[c].status = StatusOf(w)
    BY <1>1, <1>2, <1>4, <1>5, <1>7 DEF Published, Stored, IsFor, Requested
  <2>2. \A d \in Categories : d # c /\ Published(d)' => Published(d)
    BY <1>7 DEF Published, Stored
  <2> QED
    BY <1>5, <1>7, <2>1, <2>2 DEF PublishedByVerdict, IsFor, Requested
<1>13. PublishedAsRequested'
  <2>1. Published(c)' => /\ categories'[c].name = approves[a].newData.name
                         /\ categories'[c].modifiedBy = approves[a].createdBy
    BY <1>1, <1>4, <1>7 DEF Published, Stored
  <2>2. \A d \in Categories : d # c /\ Published(d)' => Published(d)
    BY <1>7 DEF Published, Stored
  <2> QED
    BY <1>1, <1>2, <1>5, <1>7, <2>1, <2>2
       DEF PublishedAsRequested, IsFor, Requested, Decided
<1> QED
  BY <1>6, <1>8, <1>9, <1>10, <1>11, <1>12, <1>13

LEMMA UpdateCategoryIInv ==
  ASSUME IInv, NEW c \in Categories, NEW n \in Names, UpdateCategory(c, n)
  PROVE  IInv'
<1> USE DEF IInv
<1>1. /\ categories[c] # None
      /\ categories' = [categories EXCEPT ![c] = NewCategory(n, None)]
      /\ minted' = minted /\ approves' = approves /\ verdicts' = verdicts /\ task' = task
  BY DEF UpdateCategory
<1>2. /\ \A d \in Categories : d # c => categories'[d] = categories[d]
      /\ categories'[c].status = "PENDING"
  BY <1>1 DEF TypeOK, NewCategory
<1>3. TypeOK'
  BY <1>1, NewCategoryDocument DEF TypeOK
<1>4. StoredIsMinted'
  BY <1>1, <1>2 DEF StoredIsMinted, Stored
<1>5. RequestsAreDistinct' /\ VerdictsAreRecorded'
  BY <1>1 DEF RequestsAreDistinct, VerdictsAreRecorded, Requested, IsFor, Decided
<1>6. CreatorsAreAlone' /\ DecidersAreCurrent'
  BY <1>1 DEF CreatorsAreAlone, Creating, IsFor, Requested, DecidersAreCurrent, Deciding
<1>7. PublishedByVerdict' /\ PublishedAsRequested'
  BY <1>1, <1>2 DEF PublishedByVerdict, PublishedAsRequested, Published, Stored, IsFor,
                    Requested, Decided
<1> QED
  BY <1>3, <1>4, <1>5, <1>6, <1>7

LEMMA DeleteCategoryIInv ==
  ASSUME IInv, NEW c \in Categories, DeleteCategory(c)
  PROVE  IInv'
<1> USE DEF IInv
<1>1. /\ categories' = [categories EXCEPT ![c] = None]
      /\ minted' = minted /\ approves' = approves /\ verdicts' = verdicts /\ task' = task
  BY DEF DeleteCategory
<1>2. /\ \A d \in Categories : d # c => categories'[d] = categories[d]
      /\ categories'[c] = None
  BY <1>1 DEF TypeOK
<1>3. TypeOK'
  BY <1>1 DEF TypeOK
<1>4. StoredIsMinted'
  BY <1>1, <1>2 DEF StoredIsMinted, Stored
<1>5. RequestsAreDistinct' /\ VerdictsAreRecorded'
  BY <1>1 DEF RequestsAreDistinct, VerdictsAreRecorded, Requested, IsFor, Decided
<1>6. CreatorsAreAlone' /\ DecidersAreCurrent'
  BY <1>1 DEF CreatorsAreAlone, Creating, IsFor, Requested, DecidersAreCurrent, Deciding
<1>7. PublishedByVerdict' /\ PublishedAsRequested'
  BY <1>1, <1>2 DEF PublishedByVerdict, PublishedAsRequested, Published, Stored, IsFor,
                    Requested, Decided
<1> QED
  BY <1>3, <1>4, <1>5, <1>6, <1>7

LEMMA FailIInv ==
  ASSUME IInv, NEW h \in Handlers, Fail(h)
  PROVE  IInv'
<1> USE DEF IInv
<1>1. /\ task' = [task EXCEPT ![h] = Idle]
      /\ categories' = categories /\ minted' = minted
      /\ approves' = approves /\ verdicts' = verdicts
  BY DEF Fail, Finish
<1>2. /\ \A g \in Handlers : g # h => task'[g] = task[g]
      /\ task'[h].step = "idle"
  BY <1>1, IdleTask DEF TypeOK
<1>3. TypeOK'
  BY <1>1, IdleTask DEF TypeOK
<1>4. StoredIsMinted' /\ RequestsAreDistinct' /\ VerdictsAreRecorded'
  BY <1>1 DEF StoredIsMinted, Stored, RequestsAreDistinct, VerdictsAreRecorded,
              Requested, IsFor, Decided
<1>5. CreatorsAreAlone' /\ DecidersAreCurrent'
  BY <1>1, <1>2 DEF CreatorsAreAlone, Creating, IsFor, Requested, DecidersAreCurrent, Deciding
<1>6. PublishedByVerdict' /\ PublishedAsRequested'
  BY <1>1 DEF PublishedByVerdict, PublishedAsRequested, Published, Stored, IsFor,
              Requested, Decided
<1> QED
  BY <1>3, <1>4, <1>5, <1>6

LEMMA StutterIInv ==
  ASSUME IInv, UNCHANGED vars
  PROVE  IInv'
<1> USE DEF IInv, vars
<1>1. TypeOK' /\ StoredIsMinted'
  BY DEF TypeOK, StoredIsMinted, Stored
<1>2. RequestsAreDistinct' /\ VerdictsAreRecorded'
  BY DEF RequestsAreDistinct, VerdictsAreRecorded, Requested, IsFor, Decided
<1>3. CreatorsAreAlone' /\ DecidersAreCurrent'
  BY DEF CreatorsAreAlone, Creating, IsFor, Requested, DecidersAreCurrent, Deciding
<1>4. PublishedByVerdict' /\ PublishedAsRequested'
  BY DEF PublishedByVerdict, PublishedAsRequested, Published, Stored, IsFor,
         Requested, Decided
<1> QED
  BY <1>1, <1>2, <1>3, <1>4

LEMMA NextIInv == IInv /\ [Next]_vars => IInv'
<1> SUFFICES ASSUME IInv, [Next]_vars PROVE IInv'
  OBVIOUS
<1>1. ASSUME NEW h \in Handlers, NEW c \in Categories, NEW n \in Names, NEW u \in Users,
             CreateCategory(h, c, n, u)
      PROVE  IInv'
  BY <1>1, CreateCategoryIInv
<1>2. ASSUME NEW h \in Handlers, NEW a \in Requests, NEW v \in Verdicts, NEW u \in Users,
             FindApprovePendingForAction(h, a, v, u)
      PROVE  IInv'
  BY <1>2, FindApprovePendingForActionIInv
<1>3. ASSUME NEW h \in Handlers, Proceed(h)
      PROVE  IInv'
  BY <1>3, CreateApproveIInv, WriteApproveIInv, WriteCategoryIInv DEF Proceed
<1>4. ASSUME NEW h \in Handlers, Fail(h)
      PROVE  IInv'
  BY <1>4, FailIInv
<1>5. ASSUME NEW c \in Categories, NEW n \in Names, UpdateCategory(c, n)
      PROVE  IInv'
  BY <1>5, UpdateCategoryIInv
<1>6. ASSUME NEW c \in Categories, DeleteCategory(c)
      PROVE  IInv'
  BY <1>6, DeleteCategoryIInv
<1>7. CASE UNCHANGED vars
  BY <1>7, StutterIInv
<1> QED
  BY <1>1, <1>2, <1>3, <1>4, <1>5, <1>6, <1>7 DEF Next, Approved, Rejected, Verdicts

-----------------------------------------------------------------------------
(* The inductive invariant holds in every reachable state.                 *)
THEOREM Invariance == Spec => []IInv
<1>1. Init => IInv
  BY InitIInv
<1>2. IInv /\ [Next]_vars => IInv'
  BY NextIInv
<1> QED
  BY <1>1, <1>2, PTL DEF Spec

(* The collections always hold documents of their schemas and the handlers *)
(* the locals of the code.                                                 *)
THEOREM TypeCorrect == Spec => []TypeOK
<1>1. IInv => TypeOK
  BY DEF IInv
<1> QED
  BY <1>1, Invariance, PTL

(* However many handlers race, and wherever they crash, a category is      *)
(* ACTIVE only after somebody approved it and INACTIVE only after somebody *)
(* rejected it.                                                            *)
THEOREM NothingOpensWithoutVerdict == Spec => []PublishedByVerdict
<1>1. IInv => PublishedByVerdict
  BY DEF IInv
<1> QED
  BY <1>1, Invariance, PTL

(* However many handlers race, a category that left PENDING carries the    *)
(* name and the author of the request that was decided.                    *)
THEOREM PublishedIsWhatWasRequested == Spec => []PublishedAsRequested
<1>1. IInv => PublishedAsRequested
  BY DEF IInv
<1> QED
  BY <1>1, Invariance, PTL

-----------------------------------------------------------------------------
(* Who attends to a category, step by step.                                *)

\* Attended, with what it reads of the state spelled out.
LEMMA AttendedAt ==
  ASSUME NEW c \in Categories
  PROVE  /\ Attended(c) <=>
              \/ categories[c] = None
              \/ categories[c].status # "PENDING"
              \/ categories[c].author = None
              \/ \E a \in Requests : /\ approves[a] # None /\ approves[a].newData.id = c
                                    /\ approves[a].status = "PENDING"
              \/ \E h \in Handlers : /\ task[h].step # "idle" /\ task[h].newData.id = c
                                    /\ task[h].step \in {"createApprove", "writeApprove",
                                                        "writeCategory"}
         /\ Attended(c)' <=>
              \/ categories'[c] = None
              \/ categories'[c].status # "PENDING"
              \/ categories'[c].author = None
              \/ \E a \in Requests : /\ approves'[a] # None /\ approves'[a].newData.id = c
                                    /\ approves'[a].status = "PENDING"
              \/ \E h \in Handlers : /\ task'[h].step # "idle" /\ task'[h].newData.id = c
                                    /\ task'[h].step \in {"createApprove", "writeApprove",
                                                        "writeCategory"}
<1>1. Attended(c) <=>
        \/ categories[c] = None \/ categories[c].status # "PENDING"
        \/ categories[c].author = None
        \/ \E a \in Requests : /\ approves[a] # None /\ approves[a].newData.id = c
                              /\ approves[a].status = "PENDING"
        \/ \E h \in Handlers : /\ task[h].step # "idle" /\ task[h].newData.id = c
                              /\ task[h].step \in {"createApprove", "writeApprove",
                                                  "writeCategory"}
  BY DEF Attended, Stored, Published, Overwritten, IsFor, Requested, Decided, Creating, Deciding
<1>2. Attended(c)' <=>
        \/ categories'[c] = None \/ categories'[c].status # "PENDING"
        \/ categories'[c].author = None
        \/ \E a \in Requests : /\ approves'[a] # None /\ approves'[a].newData.id = c
                              /\ approves'[a].status = "PENDING"
        \/ \E h \in Handlers : /\ task'[h].step # "idle" /\ task'[h].newData.id = c
                              /\ task'[h].step \in {"createApprove", "writeApprove",
                                                  "writeCategory"}
  BY DEF Attended, Stored, Published, Overwritten, IsFor, Requested, Decided, Creating, Deciding
<1> QED
  BY <1>1, <1>2

LEMMA StartAttended ==
  ASSUME IInv, NEW c \in Categories, Attended(c), NEW h \in Handlers,
         \/ \E d \in Categories, n \in Names, u \in Users : CreateCategory(h, d, n, u)
         \/ \E a \in Requests, v \in Verdicts, u \in Users :
              FindApprovePendingForAction(h, a, v, u)
  PROVE  Attended(c)'
<1>1. task[h].step = "idle" /\ approves' = approves
  BY DEF CreateCategory, FindApprovePendingForAction
<1>2. \A g \in Handlers : g # h => task'[g] = task[g]
  BY DEF CreateCategory, FindApprovePendingForAction, IInv, TypeOK
<1>3. \/ categories'[c] = categories[c]
      \/ task'[h].step = "createApprove" /\ task'[h].newData.id = c
  <2>1. ASSUME NEW d \in Categories, NEW n \in Names, NEW u \in Users,
               CreateCategory(h, d, n, u), d # c
        PROVE  categories'[c] = categories[c]
    BY <2>1 DEF CreateCategory, IInv, TypeOK
  <2>2. ASSUME NEW n \in Names, NEW u \in Users, CreateCategory(h, c, n, u)
        PROVE  task'[h].step = "createApprove" /\ task'[h].newData.id = c
    BY <2>2 DEF CreateCategory, Idle, IInv, TypeOK
  <2>3. ASSUME NEW a \in Requests, NEW v \in Verdicts, NEW u \in Users,
               FindApprovePendingForAction(h, a, v, u)
        PROVE  categories' = categories
    BY <2>3 DEF FindApprovePendingForAction
  <2> QED
    BY <2>1, <2>2, <2>3
<1> QED
  BY <1>1, <1>2, <1>3, AttendedAt

LEMMA CreateApproveAttended ==
  ASSUME IInv, NEW c \in Categories, Attended(c), NEW h \in Handlers, NEW a \in Requests,
         CreateApprove(h, a)
  PROVE  Attended(c)'
<1>1. /\ approves[a] = None /\ categories' = categories
      /\ \A b \in Requests : b # a => approves'[b] = approves[b]
      /\ \A g \in Handlers : g # h => task'[g] = task[g]
  BY DEF CreateApprove, Finish, IInv, TypeOK
<1>2. /\ approves'[a] # None /\ approves'[a].status = "PENDING"
      /\ approves'[a].newData = task[h].newData
  <2>1. task[h].newData \in NewData /\ task[h].by \in Users
    BY DEF CreateApprove, IInv, CreatorsAreAlone, NewData
  <2> QED
    BY <2>1, NewApproveDocument DEF CreateApprove, NewApprove, IInv, TypeOK
<1> QED
  BY <1>1, <1>2, AttendedAt

LEMMA WriteApproveAttended ==
  ASSUME IInv, NEW c \in Categories, Attended(c), NEW h \in Handlers, WriteApprove(h)
  PROVE  Attended(c)'
<1>1. /\ task[h].step = "writeApprove" /\ task[h].request \in Requests
      /\ task[h].newData = approves[task[h].request].newData
  BY DEF WriteApprove, IInv, DecidersAreCurrent, Deciding
<1>2. /\ categories' = categories
      /\ \A b \in Requests : b # task[h].request => approves'[b] = approves[b]
      /\ \A g \in Handlers : g # h => task'[g] = task[g]
  BY DEF WriteApprove, IInv, TypeOK
<1>3. task'[h].step = "writeCategory" /\ task'[h].newData = task[h].newData
  BY DEF WriteApprove, IInv, TypeOK, Task
<1> QED
  BY <1>1, <1>2, <1>3, AttendedAt

LEMMA WriteCategoryAttended ==
  ASSUME IInv, NEW c \in Categories, Attended(c), NEW h \in Handlers, WriteCategory(h)
  PROVE  Attended(c)'
<1>1. /\ approves' = approves
      /\ \A g \in Handlers : g # h => task'[g] = task[g]
  BY DEF WriteCategory, Finish, IInv, TypeOK
<1>2. task[h].newData \in NewData
  BY DEF WriteCategory, IInv, DecidersAreCurrent, Deciding, TypeOK, ApproveDocument, Requested
<1>3. CASE task[h].newData.id # c
  <2>1. categories'[c] = categories[c]
    BY <1>2, <1>3 DEF WriteCategory, IInv, TypeOK
  <2> QED
    BY <1>1, <1>3, <2>1, AttendedAt
<1>4. CASE task[h].newData.id = c
  <2>1. \/ categories'[c] = None
        \/ categories'[c].status # "PENDING"
    <3>1. CASE categories[c] = None
      BY <1>4, <3>1 DEF WriteCategory, IInv, TypeOK
    <3>2. CASE categories[c] # None
      <4>1. categories[c] \in Category
        BY <3>2 DEF IInv, TypeOK
      <4>2. /\ ApprovalCategoryCreate(categories[c], task[h].newData).status = "ACTIVE"
            /\ RejectedCategoryCreate(categories[c], task[h].newData).status = "INACTIVE"
        BY <4>1 DEF ApprovalCategoryCreate, RejectedCategoryCreate, Category
      <4>3. categories'[c] \in {ApprovalCategoryCreate(categories[c], task[h].newData),
                                RejectedCategoryCreate(categories[c], task[h].newData)}
        BY <1>4, <3>2 DEF WriteCategory, IInv, TypeOK
      <4> QED
        BY <4>2, <4>3
    <3> QED
      BY <3>1, <3>2
  <2> QED
    BY <2>1, AttendedAt
<1> QED
  BY <1>3, <1>4

LEMMA EditAttended ==
  ASSUME IInv, NEW c \in Categories, Attended(c), NEW d \in Categories,
         \/ \E n \in Names : UpdateCategory(d, n)
         \/ DeleteCategory(d)
  PROVE  Attended(c)'
<1>1. approves' = approves /\ task' = task
  BY DEF UpdateCategory, DeleteCategory
<1>2. \/ categories'[c] = categories[c] \/ categories'[c] = None
      \/ categories'[c].author = None
  BY DEF UpdateCategory, DeleteCategory, NewCategory, IInv, TypeOK
<1> QED
  BY <1>1, <1>2, AttendedAt

LEMMA FailAttended ==
  ASSUME IInv, NEW c \in Categories, Attended(c), NEW h \in Handlers, Fail(h),
         task[h].newData.id # c
  PROVE  Attended(c)'
<1>1. /\ categories' = categories /\ approves' = approves
      /\ \A g \in Handlers : g # h => task'[g] = task[g]
  BY DEF Fail, Finish, IInv, TypeOK
<1> QED
  BY <1>1, AttendedAt

(* Nobody but a handler that fails half way leaves a pending category      *)
(* behind with nobody to decide it.                                        *)
THEOREM NobodyStrandsACategory == Spec => NeverStranded
<1>1. IInv /\ [Next]_vars =>
        [\A c \in Categories : Attended(c) /\ ~Attended(c)' =>
           \E h \in Faulty : Fail(h) /\ task[h].newData.id = c]_vars
  <2> SUFFICES ASSUME IInv, Next, NEW c \in Categories, Attended(c), ~Attended(c)'
               PROVE  \E h \in Faulty : Fail(h) /\ task[h].newData.id = c
    OBVIOUS
  <2>1. PICK h \in Handlers : Fail(h)
    BY StartAttended, CreateApproveAttended, WriteApproveAttended, WriteCategoryAttended,
       EditAttended DEF Next, Proceed, Approved, Rejected, Verdicts
  <2>2. h \in Faulty /\ task[h].newData.id = c
    BY <2>1, FailAttended DEF Fail
  <2> QED
    BY <2>1, <2>2
<1> QED
  BY <1>1, Invariance, PTL DEF Spec, NeverStranded

(* As long as nothing fails, a category that waits for its verdict has     *)
(* somebody to give it: a pending request, or a handler about to write the *)
(* request or the verdict.                                                 *)
THEOREM AttendedUnlessFailed ==
  ASSUME Faulty = {}
  PROVE  Spec => [](\A c \in Categories : Attended(c))
<1> DEFINE AllAttended == \A c \in Categories : Attended(c)
           Parts == \A c \in Categories : Attended(c) /\ ~Attended(c)' =>
                      \E h \in Faulty : Fail(h) /\ task[h].newData.id = c
<1>1. Init => AllAttended
  BY DEF Init, Attended, Stored
<1>2. AllAttended /\ [Parts]_vars => AllAttended'
  <2>1. CASE UNCHANGED vars
    BY <2>1, AttendedAt DEF vars
  <2> QED
    BY <2>1
<1>3. Spec => [][Parts]_vars
  BY NobodyStrandsACategory DEF NeverStranded
<1> HIDE DEF AllAttended, Parts
<1>4. Spec => []AllAttended
  BY <1>1, <1>2, <1>3, PTL DEF Spec
<1> QED
  BY <1>4 DEF AllAttended

-----------------------------------------------------------------------------
(***************************************************************************)
(* Decisions made one at a time: they are final, and the category shows    *)
(* the verdict that its request carries, even if handlers fail between any *)
(* two writes.                                                             *)
(***************************************************************************)
LEMMA InitSerialInv == Init => SerialInv
<1> SUFFICES ASSUME Init PROVE SerialInv
  OBVIOUS
<1>1. IInv
  BY InitIInv
<1>2. OnlyDecidersDecide /\ DecisionIsExclusive
  BY IdleTask DEF Init, OnlyDecidersDecide, DecisionIsExclusive, Deciding
<1>3. VerdictAgrees
  BY DEF Init, VerdictAgrees, Published, Stored
<1> QED
  BY <1>1, <1>2, <1>3 DEF SerialInv

\* A step that leaves the requests alone and publishes nothing.
LEMMA QuietStep ==
  ASSUME VerdictAgrees, approves' = approves,
         \A c \in Categories : Published(c)' =>
           Published(c) /\ categories'[c].status = categories[c].status
  PROVE  VerdictAgrees'
BY DEF VerdictAgrees, IsFor, Requested, Decided

LEMMA CreateCategorySerial ==
  ASSUME SerialInv, NEW h \in Handlers, NEW c \in Categories, NEW n \in Names,
         NEW u \in Users, CreateCategory(h, c, n, u)
  PROVE  (OnlyDecidersDecide /\ DecisionIsExclusive /\ VerdictAgrees)'
<1>1. /\ \A g \in Handlers : g # h => task'[g] = task[g]
      /\ task'[h].step = "createApprove"
      /\ approves' = approves
  BY DEF SerialInv, IInv, TypeOK, CreateCategory, Idle
<1>2. \A d \in Categories : Published(d)' =>
        Published(d) /\ categories'[d].status = categories[d].status
  BY DEF SerialInv, IInv, TypeOK, CreateCategory, NewCategory, Published, Stored
<1>3. OnlyDecidersDecide' /\ DecisionIsExclusive'
  BY <1>1 DEF SerialInv, OnlyDecidersDecide, DecisionIsExclusive, Deciding
<1> QED
  BY <1>1, <1>2, <1>3, QuietStep DEF SerialInv

LEMMA CreateApproveSerial ==
  ASSUME SerialInv, NEW h \in Handlers, NEW a \in Requests, CreateApprove(h, a)
  PROVE  (OnlyDecidersDecide /\ DecisionIsExclusive /\ VerdictAgrees)'
<1>1. /\ \A g \in Handlers : g # h => task'[g] = task[g]
      /\ task'[h].step = "idle"
      /\ \A b \in Requests : b # a => approves'[b] = approves[b]
      /\ approves[a] = None
      /\ categories' = categories
  BY IdleTask DEF SerialInv, IInv, TypeOK, CreateApprove, Finish
<1>2. OnlyDecidersDecide'
  BY <1>1 DEF SerialInv, OnlyDecidersDecide, Deciding
<1>3. DecisionIsExclusive'
  <2>1. \A g \in Handlers : Deciding(g) => task[g].request \in Requests \ {a}
    BY <1>1 DEF SerialInv, IInv, DecidersAreCurrent, Requested
  <2> QED
    BY <1>1, <2>1 DEF SerialInv, DecisionIsExclusive, Deciding
<1>4. VerdictAgrees'
  BY <1>1 DEF SerialInv, VerdictAgrees, Published, Stored, IsFor, Requested, Decided
<1> QED
  BY <1>2, <1>3, <1>4

LEMMA FindApprovePendingForActionSerial ==
  ASSUME SerialInv, NEW h \in Handlers, NEW a \in Requests, NEW v \in Verdicts,
         NEW u \in Users, FindApprovePendingForAction(h, a, v, u)
  PROVE  (OnlyDecidersDecide /\ DecisionIsExclusive /\ VerdictAgrees)'
<1>1. /\ \A g \in Handlers : g # h => task'[g] = task[g]
      /\ h \in Deciders
      /\ task'[h].step = "writeApprove"
      /\ task'[h].request = a
      /\ approves[a].status = "PENDING"
      /\ approves' = approves /\ categories' = categories
  BY DEF SerialInv, IInv, TypeOK, FindApprovePendingForAction
<1>2. OnlyDecidersDecide' /\ DecisionIsExclusive'
  BY <1>1 DEF SerialInv, OnlyDecidersDecide, DecisionIsExclusive, Deciding
<1> QED
  BY <1>1, <1>2, QuietStep DEF SerialInv, Published, Stored

LEMMA WriteApproveSerial ==
  ASSUME SoleDecider, SerialInv, NEW h \in Handlers, WriteApprove(h)
  PROVE  (OnlyDecidersDecide /\ DecisionIsExclusive /\ VerdictAgrees)'
<1> DEFINE a == task[h].request
<1>1. /\ a \in Requests /\ Requested(a) /\ approves[a] \in ApproveDocument
      /\ task[h].step = "writeApprove" /\ task[h] \in Task
      /\ approves[a].status = "PENDING"
  BY DEF SerialInv, IInv, TypeOK, WriteApprove, DecidersAreCurrent, Deciding, Requested,
         DecisionIsExclusive
<1>2. \A g \in Handlers : g # h => ~Deciding(g)
  BY <1>1 DEF SerialInv, OnlyDecidersDecide, SoleDecider, Deciding
<1>3. /\ \A g \in Handlers : g # h => task'[g] = task[g]
      /\ task'[h].step = "writeCategory"
      /\ task'[h].request = a
      /\ task'[h].verdict = task[h].verdict
      /\ approves'[a].status = task[h].verdict
      /\ \A b \in Requests : b # a => approves'[b] = approves[b]
      /\ categories' = categories
  BY <1>1 DEF SerialInv, IInv, TypeOK, WriteApprove, ApproveDocument, Task
<1> HIDE DEF a
<1>4. OnlyDecidersDecide'
  BY <1>1, <1>3 DEF SerialInv, OnlyDecidersDecide, Deciding
<1>5. DecisionIsExclusive'
  BY <1>2, <1>3 DEF DecisionIsExclusive, Deciding
<1>6. VerdictAgrees'
  <2>1. \A b \in Requests : Decided(b) => b # a
    BY <1>1 DEF Decided
  <2> QED
    BY <1>3, <2>1 DEF SerialInv, VerdictAgrees, Published, Stored, IsFor, Requested, Decided
<1> QED
  BY <1>4, <1>5, <1>6

LEMMA WriteCategorySerial ==
  ASSUME SerialInv, NEW h \in Handlers, WriteCategory(h)
  PROVE  (OnlyDecidersDecide /\ DecisionIsExclusive /\ VerdictAgrees)'
<1>1. PICK a \in Requests : a = task[h].request
  BY DEF SerialInv, IInv, WriteCategory, DecidersAreCurrent, Deciding
<1>2. PICK c \in Categories : c = task[h].newData.id
  BY DEF SerialInv, IInv, TypeOK, WriteCategory, DecidersAreCurrent, Deciding, Requested,
         ApproveDocument, NewData
<1>3. /\ Requested(a) /\ IsFor(a, c)
      /\ approves[a].status = task[h].verdict
      /\ task[h].verdict \in Verdicts
  BY <1>1, <1>2 DEF SerialInv, IInv, WriteCategory, DecidersAreCurrent, Deciding,
                    DecisionIsExclusive, IsFor
<1>4. /\ \A g \in Handlers : g # h => task'[g] = task[g]
      /\ task'[h].step = "idle"
      /\ approves' = approves
      /\ \A d \in Categories : d # c => categories'[d] = categories[d]
  BY <1>2, IdleTask DEF SerialInv, IInv, TypeOK, WriteCategory, Finish
<1>5. Published(c)' => categories'[c].status = StatusOf(approves[a].status)
  BY <1>2, <1>3 DEF SerialInv, IInv, TypeOK, Category, WriteCategory, Published, Stored,
                    StatusOf, ApprovalCategoryCreate, RejectedCategoryCreate, Verdicts
<1>6. OnlyDecidersDecide' /\ DecisionIsExclusive'
  BY <1>4 DEF SerialInv, OnlyDecidersDecide, DecisionIsExclusive, Deciding
<1>7. VerdictAgrees'
  <2>1. Decided(a)
    BY <1>3 DEF Decided, Verdicts
  <2> QED
    BY <1>3, <1>4, <1>5, <2>1
       DEF SerialInv, VerdictAgrees, Published, Stored, IsFor, Requested, Decided
<1> QED
  BY <1>6, <1>7

LEMMA EditSerial ==
  ASSUME SerialInv, NEW c \in Categories,
         DeleteCategory(c) \/ \E n \in Names : UpdateCategory(c, n)
  PROVE  (OnlyDecidersDecide /\ DecisionIsExclusive /\ VerdictAgrees)'
<1>1. task' = task /\ approves' = approves
  BY DEF DeleteCategory, UpdateCategory
<1>2. \A d \in Categories : Published(d)' =>
        Published(d) /\ categories'[d].status = categories[d].status
  BY DEF SerialInv, IInv, TypeOK, DeleteCategory, UpdateCategory, NewCategory,
         Published, Stored
<1>3. OnlyDecidersDecide' /\ DecisionIsExclusive'
  BY <1>1 DEF SerialInv, OnlyDecidersDecide, DecisionIsExclusive, Deciding
<1> QED
  BY <1>1, <1>2, <1>3, QuietStep DEF SerialInv

LEMMA FailSerial ==
  ASSUME SerialInv, NEW h \in Handlers, Fail(h)
  PROVE  (OnlyDecidersDecide /\ DecisionIsExclusive /\ VerdictAgrees)'
<1>1. /\ \A g \in Handlers : g # h => task'[g] = task[g]
      /\ task'[h].step = "idle"
      /\ approves' = approves /\ categories' = categories
  BY IdleTask DEF SerialInv, IInv, TypeOK, Fail, Finish
<1>2. OnlyDecidersDecide' /\ DecisionIsExclusive'
  BY <1>1 DEF SerialInv, OnlyDecidersDecide, DecisionIsExclusive, Deciding
<1> QED
  BY <1>1, <1>2, QuietStep DEF SerialInv, Published, Stored

LEMMA NextSerialInv == SoleDecider /\ SerialInv /\ [Next]_vars => SerialInv'
<1> SUFFICES ASSUME SoleDecider, SerialInv, [Next]_vars PROVE SerialInv'
  OBVIOUS
<1>1. IInv'
  BY NextIInv DEF SerialInv
<1> DEFINE Goal == OnlyDecidersDecide /\ DecisionIsExclusive /\ VerdictAgrees
<1>2. ASSUME NEW h \in Handlers, NEW c \in Categories, NEW n \in Names, NEW u \in Users,
             CreateCategory(h, c, n, u)
      PROVE  Goal'
  BY <1>2, CreateCategorySerial
<1>3. ASSUME NEW h \in Handlers, NEW a \in Requests, NEW v \in Verdicts, NEW u \in Users,
             FindApprovePendingForAction(h, a, v, u)
      PROVE  Goal'
  BY <1>3, FindApprovePendingForActionSerial
<1>4. ASSUME NEW h \in Handlers, Proceed(h)
      PROVE  Goal'
  BY <1>4, CreateApproveSerial, WriteApproveSerial, WriteCategorySerial DEF Proceed
<1>5. ASSUME NEW h \in Handlers, Fail(h)
      PROVE  Goal'
  BY <1>5, FailSerial
<1>6. ASSUME NEW c \in Categories, DeleteCategory(c) \/ \E n \in Names : UpdateCategory(c, n)
      PROVE  Goal'
  BY <1>6, EditSerial
<1>7. CASE UNCHANGED vars
  BY <1>1, <1>7 DEF vars, SerialInv, OnlyDecidersDecide, DecisionIsExclusive, VerdictAgrees,
              Deciding, Published, Stored, IsFor, Requested, Decided
<1> QED
  BY <1>1, <1>2, <1>3, <1>4, <1>5, <1>6, <1>7 DEF Next, Approved, Rejected, Verdicts, SerialInv

-----------------------------------------------------------------------------
(* If decisions are made one at a time, a category that left PENDING shows *)
(* the verdict that its request carries, whatever fails in between.        *)
THEOREM SerialDecisionsAgree ==
  ASSUME SoleDecider
  PROVE  Spec => []VerdictAgrees
<1>1. Init => SerialInv
  BY InitSerialInv
<1>2. SerialInv /\ [Next]_vars => SerialInv'
  BY NextSerialInv
<1>3. SerialInv => VerdictAgrees
  BY DEF SerialInv
<1> QED
  BY <1>1, <1>2, <1>3, PTL DEF Spec

(* If decisions are made one at a time, a decided request never changes.   *)
THEOREM SerialDecisionsAreFinal ==
  ASSUME SoleDecider
  PROVE  Spec => DecisionFinal
<1>1. Init => SerialInv
  BY InitSerialInv
<1>2. SerialInv /\ [Next]_vars => SerialInv'
  BY NextSerialInv
<1>3. SerialInv /\ [Next]_vars =>
        [\A a \in Requests : Decided(a) => approves'[a] = approves[a]]_vars
  <2> SUFFICES ASSUME SerialInv, [Next]_vars, NEW a \in Requests, Decided(a)
               PROVE  approves'[a] = approves[a]
    OBVIOUS
  <2>1. ASSUME NEW h \in Handlers, NEW b \in Requests, CreateApprove(h, b)
        PROVE  approves'[a] = approves[a]
    BY <2>1 DEF CreateApprove, SerialInv, IInv, TypeOK, Decided, Requested
  <2>2. ASSUME NEW h \in Handlers, WriteApprove(h)
        PROVE  approves'[a] = approves[a]
    <3>1. task[h].request # a
      BY <2>2 DEF WriteApprove, SerialInv, DecisionIsExclusive, Decided
    <3> QED
      BY <2>2, <3>1 DEF WriteApprove, SerialInv, IInv, TypeOK
  <2>3. CASE approves' = approves
    BY <2>3
  <2> QED
    BY <2>1, <2>2, <2>3
       DEF Next, Proceed, vars, CreateCategory, Approved, Rejected, FindApprovePendingForAction, WriteCategory,
           UpdateCategory, DeleteCategory, Fail
<1> QED
  BY <1>1, <1>2, <1>3, PTL DEF Spec, DecisionFinal

-----------------------------------------------------------------------------
(***************************************************************************)
(* CategoryApproval implements ApprovalGate: with any number of handlers   *)
(* and with failures, every step is a step of the gate or leaves what the  *)
(* gate speaks of unchanged.                                               *)
(***************************************************************************)
(* The two functions the gate is read from, value by value.                *)

LEMMA ShownAt ==
  /\ \A c \in Categories :
       Shown[c] = IF c \notin minted THEN "NONE"
                  ELSE IF Stored(c) THEN categories[c].status ELSE "GONE"
  /\ \A c \in Categories :
       Shown'[c] = IF c \notin minted' THEN "NONE"
                   ELSE IF categories'[c] # None THEN categories'[c].status ELSE "GONE"
  /\ Shown = [c \in Categories |-> Shown[c]]
  /\ Shown' = [c \in Categories |-> Shown'[c]]
BY DEF Shown, Stored

LEMMA CastAt ==
  /\ \A c \in Categories :
       Cast[c] = UNION {verdicts[a] : a \in {r \in Requests : IsFor(r, c)}}
  /\ \A c \in Categories :
       Cast'[c] = UNION {verdicts'[a] : a \in {r \in Requests : IsFor(r, c)'}}
  /\ Cast = [c \in Categories |-> Cast[c]]
  /\ Cast' = [c \in Categories |-> Cast'[c]]
BY DEF Cast

LEMMA CastMembers ==
  /\ \A c \in Categories : \A v : v \in Cast[c] <=>
       \E a \in Requests : IsFor(a, c) /\ v \in verdicts[a]
  /\ \A c \in Categories : \A v : v \in Cast'[c] <=>
       \E a \in Requests : IsFor(a, c)' /\ v \in verdicts'[a]
BY CastAt

\* Two collections that give the same verdicts give the same votes.
LEMMA SameCast ==
  ASSUME \A c \in Categories : \A v :
           (\E a \in Requests : IsFor(a, c)' /\ v \in verdicts'[a]) <=>
           (\E a \in Requests : IsFor(a, c) /\ v \in verdicts[a])
  PROVE  Cast' = Cast
<1>1. \A c \in Categories : Cast'[c] = Cast[c]
  <2> SUFFICES ASSUME NEW c \in Categories PROVE Cast'[c] = Cast[c]
    OBVIOUS
  <2>1. \A v : v \in Cast'[c] <=> v \in Cast[c]
    BY CastMembers
  <2> QED
    BY <2>1
<1> QED
  BY <1>1, CastAt

LEMMA QuietRequests ==
  ASSUME approves' = approves, verdicts' = verdicts
  PROVE  Cast' = Cast
BY DEF Cast, IsFor, Requested

LEMMA QuietCategories ==
  ASSUME categories' = categories, minted' = minted
  PROVE  Shown' = Shown
BY DEF Shown, Stored

-----------------------------------------------------------------------------
LEMMA InitGate == Init => Gate!Init
<1> SUFFICES ASSUME Init PROVE Gate!Init
  OBVIOUS
<1>1. Shown = [c \in Categories |-> "NONE"]
  BY ShownAt DEF Init
<1>2. Cast = [c \in Categories |-> {}]
  <2>1. \A c \in Categories, a \in Requests : ~IsFor(a, c)
    BY DEF Init, IsFor, Requested
  <2>2. \A c \in Categories : Cast[c] = {}
    BY <2>1, CastMembers
  <2> QED
    BY <2>2, CastAt
<1> QED
  BY <1>1, <1>2 DEF Gate!Init

\* What a step does to one category, seen from the gate.
LEMMA OneCategory ==
  ASSUME NEW c \in Categories,
         \A d \in Categories : d # c =>
           /\ categories'[d] = categories[d]
           /\ d \in minted' <=> d \in minted
  PROVE  Shown' = [Shown EXCEPT ![c] = Shown'[c]]
BY ShownAt DEF Stored

LEMMA CreateCategoryGate ==
  ASSUME IInv, NEW h \in Handlers, NEW c \in Categories, NEW n \in Names,
         NEW u \in Users, CreateCategory(h, c, n, u)
  PROVE  Gate!Propose(c)
<1>1. /\ c \notin minted /\ minted' = minted \union {c}
      /\ categories' = [categories EXCEPT ![c] = NewCategory(n, u)]
      /\ approves' = approves /\ verdicts' = verdicts
  BY DEF CreateCategory
<1>2. Shown[c] = "NONE" /\ Shown'[c] = "PENDING"
  BY <1>1, NewCategoryDocument, ShownAt DEF IInv, TypeOK, NewCategory
<1>3. Shown' = [Shown EXCEPT ![c] = "PENDING"]
  BY <1>1, <1>2, OneCategory DEF IInv, TypeOK
<1> QED
  BY <1>1, <1>2, <1>3, QuietRequests DEF Gate!Propose

LEMMA CreateApproveGate ==
  ASSUME IInv, NEW h \in Handlers, NEW a \in Requests, CreateApprove(h, a)
  PROVE  Shown' = Shown /\ Cast' = Cast
<1>1. /\ approves[a] = None /\ verdicts' = verdicts
      /\ categories' = categories /\ minted' = minted
      /\ \A b \in Requests : b # a => approves'[b] = approves[b]
  BY DEF CreateApprove, IInv, TypeOK
<1>2. verdicts[a] = {}
  BY <1>1 DEF IInv, VerdictsAreRecorded, Requested
<1> QED
  BY <1>1, <1>2, QuietCategories, SameCast DEF IsFor, Requested

LEMMA WriteApproveGate ==
  ASSUME IInv, NEW h \in Handlers, WriteApprove(h)
  PROVE  \E c \in Categories, v \in Verdicts : Gate!Vote(c, v)
<1>1. PICK a \in Requests : a = task[h].request
  BY DEF IInv, WriteApprove, DecidersAreCurrent, Deciding
<1>2. PICK v \in Verdicts : v = task[h].verdict
  BY DEF IInv, WriteApprove, DecidersAreCurrent, Deciding
<1>3. Requested(a) /\ approves[a] \in ApproveDocument
  BY <1>1 DEF IInv, TypeOK, WriteApprove, DecidersAreCurrent, Deciding, Requested
<1>4. PICK c \in Categories : c = approves[a].newData.id
  BY <1>3 DEF ApproveDocument, NewData
<1>5. c \in minted
  BY <1>3, <1>4 DEF IInv, RequestsAreDistinct
<1>6. /\ categories' = categories /\ minted' = minted
      /\ verdicts' = [verdicts EXCEPT ![a] = verdicts[a] \union {v}]
      /\ \A b \in Requests : b # a => approves'[b] = approves[b]
      /\ approves'[a] # None
      /\ approves'[a].newData = approves[a].newData
  <2>1. approves' = [approves EXCEPT ![a] =
          [approves[a] EXCEPT !.status = v, !.acceptedBy = task[h].by]]
    BY <1>1, <1>2 DEF IInv, TypeOK, WriteApprove
  <2>2. [approves[a] EXCEPT !.status = v, !.acceptedBy = task[h].by] \in ApproveDocument
    <3>1. task[h].by \in Users
      BY DEF IInv, WriteApprove, DecidersAreCurrent, Deciding
    <3> QED
      BY <1>3, <3>1 DEF ApproveDocument, ApproveStatus
  <2>3. /\ approves'[a] \in ApproveDocument
        /\ approves'[a].newData = approves[a].newData
        /\ \A b \in Requests : b # a => approves'[b] = approves[b]
    BY <1>3, <2>1, <2>2 DEF IInv, TypeOK
  <2>4. None \notin ApproveDocument
    BY NoneAssumption
  <2> QED
    BY <1>1, <1>2, <2>3, <2>4 DEF WriteApprove
<1>7. \A b \in Requests, d \in Categories : IsFor(b, d)' = IsFor(b, d)
  BY <1>3, <1>6 DEF IsFor, Requested
<1>8. \A b \in Requests : IsFor(b, c) <=> b = a
  BY <1>3, <1>4 DEF IsFor, IInv, RequestsAreDistinct
<1>9. \A d \in Categories : Cast'[d] = IF d = c THEN Cast[c] \union {v} ELSE Cast[d]
  <2>1. \A b \in Requests : verdicts'[b] = IF b = a THEN verdicts[a] \union {v} ELSE verdicts[b]
    BY <1>6 DEF IInv, TypeOK
  <2>2. \A d \in Categories : \A w : d # c => (w \in Cast'[d] <=> w \in Cast[d])
    BY <1>4, <1>7, <2>1, CastMembers DEF IsFor
  <2>3. \A w : w \in Cast'[c] <=> w \in Cast[c] \union {v}
    BY <1>7, <1>8, <2>1, CastMembers
  <2> QED
    BY <2>2, <2>3
<1>10. Cast' = [Cast EXCEPT ![c] = @ \union {v}]
  BY <1>9, CastAt
<1>11. Shown' = Shown /\ Shown[c] # "NONE"
  <2>1. Stored(c) => categories[c].status # "NONE"
    BY DEF IInv, TypeOK, Category, CategoryStatus, Stored
  <2> QED
    BY <1>5, <1>6, <2>1, QuietCategories, ShownAt
<1> QED
  BY <1>10, <1>11 DEF Gate!Vote

LEMMA WriteCategoryGate ==
  ASSUME IInv, NEW h \in Handlers, WriteCategory(h)
  PROVE  \/ \E c \in Categories, v \in Verdicts : Gate!Apply(c, v)
         \/ Shown' = Shown /\ Cast' = Cast
<1>1. PICK c \in Categories : c = task[h].newData.id
  BY DEF IInv, TypeOK, WriteCategory, DecidersAreCurrent, Deciding, Requested,
         ApproveDocument, NewData
<1>2. PICK v \in Verdicts : v = task[h].verdict
  BY DEF IInv, WriteCategory, DecidersAreCurrent, Deciding
<1>3. minted' = minted /\ approves' = approves /\ verdicts' = verdicts
  BY DEF WriteCategory
<1>4. CASE categories[c] = None
  <2>1. categories' = categories
    BY <1>1, <1>4 DEF IInv, TypeOK, WriteCategory
  <2> QED
    BY <1>3, <2>1, QuietCategories, QuietRequests
<1>5. CASE categories[c] # None
  <2>1. categories[c] \in Category /\ c \in minted
    BY <1>5 DEF IInv, TypeOK, StoredIsMinted, Stored
  <2>2. /\ \A d \in Categories : d # c => categories'[d] = categories[d]
        /\ categories'[c] # None
        /\ categories'[c].status = StatusOf(v)
    <3>1. task[h].newData \in NewData
      BY DEF IInv, TypeOK, WriteCategory, DecidersAreCurrent, Deciding, Requested,
             ApproveDocument
    <3>2. categories'[c] = IF v = "APPROVED"
                           THEN ApprovalCategoryCreate(categories[c], task[h].newData)
                           ELSE RejectedCategoryCreate(categories[c], task[h].newData)
      BY <1>1, <1>2, <1>5 DEF IInv, TypeOK, WriteCategory
    <3>3. categories'[c] # None
      <4>1. categories'[c] \in Category
        BY <2>1, <3>1, <3>2, WrittenCategory
      <4> QED
        BY <4>1
    <3>4. categories'[c].status = StatusOf(v)
      BY <2>1, <3>2 DEF Category, ApprovalCategoryCreate, RejectedCategoryCreate, StatusOf
    <3>5. \A d \in Categories : d # c => categories'[d] = categories[d]
      BY <1>1 DEF IInv, TypeOK, WriteCategory
    <3> QED
      BY <3>3, <3>4, <3>5
  <2>3. v \in Cast[c]
    <3>1. PICK a \in Requests : a = task[h].request
      BY DEF IInv, WriteCategory, DecidersAreCurrent, Deciding
    <3>2. IsFor(a, c) /\ v \in verdicts[a]
      BY <1>1, <1>2, <3>1 DEF IInv, WriteCategory, DecidersAreCurrent, Deciding, IsFor
    <3> QED
      BY <3>2, CastMembers
  <2>4. Gate!Visible(c) /\ Shown'[c] = Gate!Opens(v)
    BY <1>3, <2>1, <2>2, ShownAt
       DEF Gate!Visible, Gate!Opens, StatusOf, Category, CategoryStatus, Stored
  <2>5. Shown' = [Shown EXCEPT ![c] = Gate!Opens(v)]
    BY <1>3, <2>2, <2>4, OneCategory
  <2> QED
    BY <1>3, <2>3, <2>4, <2>5, QuietRequests DEF Gate!Apply
<1> QED
  BY <1>4, <1>5

LEMMA EditGate ==
  ASSUME IInv, NEW c \in Categories
  PROVE  /\ DeleteCategory(c) => Gate!Withdraw(c)
         /\ \A n \in Names : UpdateCategory(c, n) => Gate!Close(c)
<1>1. categories[c] # None => Gate!Visible(c)
  BY ShownAt DEF IInv, TypeOK, StoredIsMinted, Stored, Category, CategoryStatus,
                 Gate!Visible
<1>2. ASSUME DeleteCategory(c)
      PROVE  Gate!Withdraw(c)
  <2>1. /\ categories[c] # None
        /\ \A d \in Categories : d # c => categories'[d] = categories[d]
        /\ categories'[c] = None /\ c \in minted /\ minted' = minted
        /\ approves' = approves /\ verdicts' = verdicts
    BY <1>2 DEF DeleteCategory, IInv, TypeOK, StoredIsMinted, Stored
  <2>2. Shown'[c] = "GONE"
    BY <2>1, ShownAt
  <2>3. Shown' = [Shown EXCEPT ![c] = "GONE"]
    BY <2>1, <2>2, OneCategory
  <2> QED
    BY <1>1, <2>1, <2>3, QuietRequests DEF Gate!Withdraw
<1>3. ASSUME NEW n \in Names, UpdateCategory(c, n)
      PROVE  Gate!Close(c)
  <2>1. /\ categories[c] # None
        /\ \A d \in Categories : d # c => categories'[d] = categories[d]
        /\ categories'[c] = NewCategory(n, None) /\ c \in minted /\ minted' = minted
        /\ approves' = approves /\ verdicts' = verdicts
    BY <1>3 DEF UpdateCategory, IInv, TypeOK, StoredIsMinted, Stored
  <2>2. Shown'[c] = "PENDING"
    BY <2>1, NewCategoryDocument, ShownAt DEF NewCategory
  <2>3. Shown' = [Shown EXCEPT ![c] = "PENDING"]
    BY <2>1, <2>2, OneCategory
  <2> QED
    BY <1>1, <2>1, <2>3, QuietRequests DEF Gate!Close
<1> QED
  BY <1>2, <1>3

LEMMA NextGate == IInv /\ [Next]_vars => [Gate!Next]_Gate!vars
<1> SUFFICES ASSUME IInv, [Next]_vars PROVE [Gate!Next]_Gate!vars
  OBVIOUS
<1>1. ASSUME NEW h \in Handlers, NEW c \in Categories, NEW n \in Names, NEW u \in Users,
             CreateCategory(h, c, n, u)
      PROVE  Gate!Next
  BY <1>1, CreateCategoryGate DEF Gate!Next
<1>2. ASSUME NEW h \in Handlers, NEW a \in Requests, CreateApprove(h, a)
      PROVE  Shown' = Shown /\ Cast' = Cast
  BY <1>2, CreateApproveGate
<1>3. ASSUME NEW h \in Handlers, WriteApprove(h)
      PROVE  Gate!Next
  BY <1>3, WriteApproveGate DEF Gate!Next, Verdicts
<1>4. ASSUME NEW h \in Handlers, WriteCategory(h)
      PROVE  Gate!Next \/ (Shown' = Shown /\ Cast' = Cast)
  BY <1>4, WriteCategoryGate DEF Gate!Next, Verdicts
<1>5. ASSUME NEW c \in Categories, DeleteCategory(c) \/ \E n \in Names : UpdateCategory(c, n)
      PROVE  Gate!Next
  BY <1>5, EditGate DEF Gate!Next
<1>6. ASSUME \/ \E h \in Handlers : Fail(h)
             \/ \E h \in Handlers, a \in Requests, v \in Verdicts, u \in Users :
                  FindApprovePendingForAction(h, a, v, u)
             \/ UNCHANGED vars
      PROVE  Shown' = Shown /\ Cast' = Cast
  <2>1. UNCHANGED <<categories, minted, approves, verdicts>>
    BY <1>6 DEF Fail, FindApprovePendingForAction, vars
  <2> QED
    BY <2>1, QuietCategories, QuietRequests
<1> QED
  BY <1>1, <1>2, <1>3, <1>4, <1>5, <1>6 DEF Next, Proceed, Approved, Rejected, Verdicts, Gate!vars

-----------------------------------------------------------------------------
(* The code, with its races and its crashes, implements the gate: whatever *)
(* a reader of a category sees was opened by a verdict cast on it.         *)
THEOREM GateRefinement == Spec => GateSpec
<1>1. Init => Gate!Init
  BY InitGate
<1>2. IInv /\ [Next]_vars => [Gate!Next]_Gate!vars
  BY NextGate
<1> QED
  BY <1>1, <1>2, Invariance, PTL DEF Spec, GateSpec, Gate!Spec

-----------------------------------------------------------------------------
(***************************************************************************)
(* If decisions are made one at a time, by a slot that does not fail, the  *)
(* code implements ApprovalAtomic as well: reading the request, writing    *)
(* the verdict and writing the category look like one step, the last one.  *)
(***************************************************************************)
(* The verdict of a category, request by request.                          *)

\* The verdict on a request is written, and nobody is about to apply it.
Settled(a) ==
  /\ Decided(a)
  /\ \A h \in Handlers : ~(task[h].step = "writeCategory" /\ task[h].request = a)

LEMMA VerdictAt ==
  ASSUME RequestsAreDistinct, NEW c \in Categories
  PROVE  /\ \A a \in Requests : IsFor(a, c) /\ Settled(a) => Verdict[c] = approves[a].status
         /\ (\A a \in Requests : ~(IsFor(a, c) /\ Settled(a))) => Verdict[c] = None
<1>1. Verdict[c] =
        IF \E a \in Requests : IsFor(a, c) /\ Settled(a)
        THEN approves[CHOOSE a \in Requests : IsFor(a, c)].status ELSE None
  BY DEF Verdict, Settled
<1>2. ASSUME NEW a \in Requests, IsFor(a, c)
      PROVE  (CHOOSE b \in Requests : IsFor(b, c)) = a
  BY <1>2 DEF RequestsAreDistinct, IsFor
<1> QED
  BY <1>1, <1>2

LEMMA VerdictNext ==
  ASSUME RequestsAreDistinct', NEW c \in Categories
  PROVE  /\ \A a \in Requests : IsFor(a, c)' /\ Settled(a)' => Verdict'[c] = approves'[a].status
         /\ (\A a \in Requests : ~(IsFor(a, c)' /\ Settled(a)')) => Verdict'[c] = None
<1>1. Verdict'[c] =
        IF \E a \in Requests : IsFor(a, c)' /\ Settled(a)'
        THEN approves'[CHOOSE a \in Requests : IsFor(a, c)'].status ELSE None
  BY DEF Verdict, Settled
<1>2. ASSUME NEW a \in Requests, IsFor(a, c)'
      PROVE  (CHOOSE b \in Requests : IsFor(b, c)') = a
  BY <1>2 DEF RequestsAreDistinct, IsFor
<1> QED
  BY <1>1, <1>2

\* A step that settles no request leaves the verdicts.
LEMMA SameVerdict ==
  ASSUME RequestsAreDistinct, RequestsAreDistinct',
         \A a \in Requests, c \in Categories :
           (IsFor(a, c)' /\ Settled(a)') <=> (IsFor(a, c) /\ Settled(a)),
         \A a \in Requests : Settled(a) => approves'[a].status = approves[a].status
  PROVE  Verdict' = Verdict
<1>1. \A c \in Categories : Verdict'[c] = Verdict[c]
  BY VerdictAt, VerdictNext
<1>2. /\ Verdict = [c \in Categories |-> Verdict[c]]
      /\ Verdict' = [c \in Categories |-> Verdict'[c]]
  BY DEF Verdict
<1> QED
  BY <1>1, <1>2

\* A step that leaves the requests alone, and nobody about to apply a verdict.
LEMMA QuietVerdicts ==
  ASSUME IInv, IInv', approves' = approves,
         \A h \in Handlers, a \in Requests :
           (task'[h].step = "writeCategory" /\ task'[h].request = a)
             <=> (task[h].step = "writeCategory" /\ task[h].request = a)
  PROVE  Verdict' = Verdict
<1>1. RequestsAreDistinct /\ RequestsAreDistinct'
  BY DEF IInv
<1>2. \A a \in Requests, c \in Categories :
        (IsFor(a, c)' <=> IsFor(a, c)) /\ (Settled(a)' <=> Settled(a))
  BY DEF IsFor, Requested, Settled, Decided
<1> QED
  BY <1>1, <1>2, SameVerdict

-----------------------------------------------------------------------------
LEMMA InitAtomic == Init => Atomic!Init
<1> SUFFICES ASSUME Init PROVE Atomic!Init
  OBVIOUS
<1>1. Shown = [c \in Categories |-> "NONE"]
  BY ShownAt DEF Init
<1>2. \A a \in Requests, c \in Categories : ~IsFor(a, c)
  BY DEF Init, IsFor, Requested
<1>3. Verdict = [c \in Categories |-> None]
  BY <1>2 DEF Verdict
<1> QED
  BY <1>1, <1>3 DEF Atomic!Init

LEMMA CreateCategoryAtomic ==
  ASSUME IInv, IInv', NEW h \in Handlers, NEW c \in Categories, NEW n \in Names,
         NEW u \in Users, CreateCategory(h, c, n, u)
  PROVE  Atomic!Propose(c)
<1>1. Shown[c] = "NONE" /\ Shown' = [Shown EXCEPT ![c] = "PENDING"]
  BY CreateCategoryGate DEF Gate!Propose
<1>2. /\ approves' = approves
      /\ task[h].step = "idle" /\ task'[h].step = "createApprove"
      /\ \A g \in Handlers : g # h => task'[g] = task[g]
  <2>1. Idle \in Task
    BY IdleTask
  <2>2. [Idle EXCEPT !.step = "createApprove", !.by = u,
                     !.newData = [id |-> c, name |-> n, modifiedBy |-> u]].step = "createApprove"
    BY DEF Idle
  <2> QED
    BY <2>2 DEF CreateCategory, IInv, TypeOK
<1>3. Verdict' = Verdict
  BY <1>2, QuietVerdicts
<1> QED
  BY <1>1, <1>3 DEF Atomic!Propose

\* A new request is pending: it settles nothing.
LEMMA CreateApproveAtomic ==
  ASSUME IInv, IInv', NEW h \in Handlers, NEW a \in Requests, CreateApprove(h, a)
  PROVE  Shown' = Shown /\ Verdict' = Verdict
<1>1. /\ approves[a] = None
      /\ task[h].step = "createApprove" /\ task'[h].step = "idle"
      /\ \A g \in Handlers : g # h => task'[g] = task[g]
      /\ \A b \in Requests : b # a => approves'[b] = approves[b]
      /\ approves'[a].status = "PENDING"
  BY IdleTask DEF CreateApprove, Finish, NewApprove, IInv, TypeOK
<1>2. ~Settled(a) /\ ~Settled(a)'
  BY <1>1 DEF Settled, Decided, Requested
<1>3. \A b \in Requests, c \in Categories : b # a =>
        /\ IsFor(b, c)' <=> IsFor(b, c)
        /\ Settled(b)' <=> Settled(b)
  BY <1>1 DEF IsFor, Requested, Settled, Decided
<1>4. Verdict' = Verdict
  BY <1>1, <1>2, <1>3, SameVerdict DEF IInv
<1> QED
  BY <1>4, CreateApproveGate

\* The verdict is written, and waits with its handler: nothing is settled yet.
LEMMA WriteApproveAtomic ==
  ASSUME SerialInv, IInv', NEW h \in Handlers, WriteApprove(h)
  PROVE  Shown' = Shown /\ Verdict' = Verdict
<1> USE DEF SerialInv
<1>1. PICK a \in Requests : a = task[h].request
  BY DEF IInv, WriteApprove, DecidersAreCurrent, Deciding
<1>2. /\ task[h].step = "writeApprove" /\ approves[a].status = "PENDING"
      /\ task'[h].step = "writeCategory" /\ task'[h].request = a
      /\ \A g \in Handlers : g # h => task'[g] = task[g]
      /\ \A b \in Requests : b # a => approves'[b] = approves[b]
  <2>1. task[h] \in Task /\ task' = [task EXCEPT ![h] = [task[h] EXCEPT !.step = "writeCategory"]]
    BY DEF IInv, TypeOK, WriteApprove
  <2>2. /\ [task[h] EXCEPT !.step = "writeCategory"].step = "writeCategory"
        /\ [task[h] EXCEPT !.step = "writeCategory"].request = task[h].request
    BY <2>1 DEF Task
  <2> QED
    BY <1>1, <2>1, <2>2 DEF IInv, TypeOK, WriteApprove, DecisionIsExclusive
<1>3. ~Settled(a) /\ ~Settled(a)'
  BY <1>2 DEF Settled, Decided
<1>4. \A b \in Requests, c \in Categories : b # a =>
        /\ IsFor(b, c)' <=> IsFor(b, c)
        /\ Settled(b)' <=> Settled(b)
  BY <1>2 DEF IsFor, Requested, Settled, Decided
<1>5. Verdict' = Verdict
  BY <1>2, <1>3, <1>4, SameVerdict DEF IInv
<1>6. categories' = categories /\ minted' = minted
  BY DEF WriteApprove
<1> QED
  BY <1>5, <1>6, QuietCategories

\* The one step that decides: the verdict is settled when the category is written,
\* or found to be gone.
LEMMA WriteCategoryAtomic ==
  ASSUME SoleDecider, SerialInv, IInv', NEW h \in Handlers, WriteCategory(h)
  PROVE  \E c \in Categories, v \in Verdicts : Atomic!Decide(c, v)
<1> USE DEF SerialInv
<1>1. PICK c \in Categories : c = task[h].newData.id
  BY DEF IInv, TypeOK, WriteCategory, DecidersAreCurrent, Deciding, Requested,
         ApproveDocument, NewData
<1>2. PICK v \in Verdicts : v = task[h].verdict
  BY DEF IInv, WriteCategory, DecidersAreCurrent, Deciding
<1>3. PICK a \in Requests : a = task[h].request
  BY DEF IInv, WriteCategory, DecidersAreCurrent, Deciding
<1>4. /\ minted' = minted /\ approves' = approves
      /\ task[h].step = "writeCategory" /\ task'[h].step = "idle"
      /\ \A g \in Handlers : g # h => task'[g] = task[g]
  BY IdleTask DEF WriteCategory, Finish, IInv, TypeOK
<1>5. IsFor(a, c) /\ approves[a].status = v /\ Decided(a)
  BY <1>1, <1>2, <1>3, <1>4
     DEF IInv, DecidersAreCurrent, Deciding, DecisionIsExclusive, IsFor, Decided, Verdicts
<1>6. \A g \in Handlers : task[g].step = "writeCategory" => g = h
  BY <1>4 DEF OnlyDecidersDecide, Deciding, SoleDecider
<1>7. \A b \in Requests : IsFor(b, c) => b = a
  BY <1>5 DEF IInv, RequestsAreDistinct, IsFor
<1>8. \A b \in Requests :
        /\ Settled(b) <=> Decided(b) /\ b # a
        /\ Settled(b)' <=> Decided(b)
  BY <1>3, <1>4, <1>6 DEF Settled, Decided, Requested
<1>9. /\ \A b \in Requests, d \in Categories : IsFor(b, d)' <=> IsFor(b, d)
      /\ \A b \in Requests, d \in Categories : d # c /\ IsFor(b, d) => b # a
  BY <1>4, <1>5 DEF IsFor, Requested
<1>10. Verdict' = [Verdict EXCEPT ![c] = v] /\ Verdict[c] = None
  <2>1. RequestsAreDistinct /\ RequestsAreDistinct'
    BY DEF IInv
  <2>2. Verdict[c] = None
    BY <1>7, <1>8, <2>1, VerdictAt
  <2>3. Verdict'[c] = v
    BY <1>4, <1>5, <1>8, <1>9, <2>1, VerdictNext
  <2>4. \A d \in Categories : d # c => Verdict'[d] = Verdict[d]
    BY <1>4, <1>8, <1>9, <2>1, VerdictAt, VerdictNext
  <2>5. /\ Verdict = [d \in Categories |-> Verdict[d]]
        /\ Verdict' = [d \in Categories |-> Verdict'[d]]
    BY DEF Verdict
  <2> QED
    BY <2>2, <2>3, <2>4, <2>5
<1>11. c \in minted
  BY <1>5 DEF IInv, RequestsAreDistinct, IsFor
<1>12. \A d \in Categories : d # c => categories'[d] = categories[d]
  BY <1>1 DEF WriteCategory, IInv, TypeOK
<1>13. Shown[c] # "NONE" /\ Shown'[c] = IF Atomic!Visible(c) THEN Atomic!Opens(v) ELSE Shown[c]
  <2>1. CASE categories[c] = None
    <3>1. categories'[c] = None
      BY <1>1, <2>1 DEF WriteCategory, IInv, TypeOK
    <3> QED
      BY <1>4, <1>11, <2>1, <3>1, ShownAt DEF Stored, Atomic!Visible
  <2>2. CASE categories[c] # None
    <3>1. categories[c] \in Category /\ task[h].newData \in NewData
      BY <2>2 DEF IInv, TypeOK, WriteCategory, DecidersAreCurrent, Deciding, Requested,
                  ApproveDocument
    <3>2. categories'[c] = IF v = "APPROVED"
                           THEN ApprovalCategoryCreate(categories[c], task[h].newData)
                           ELSE RejectedCategoryCreate(categories[c], task[h].newData)
      BY <1>1, <1>2, <2>2 DEF IInv, TypeOK, WriteCategory
    <3>3. categories'[c] # None
      <4>1. categories'[c] \in Category
        BY <3>1, <3>2, WrittenCategory
      <4> QED
        BY <4>1
    <3>4. categories'[c].status = Atomic!Opens(v)
      BY <3>1, <3>2 DEF Category, ApprovalCategoryCreate, RejectedCategoryCreate, Atomic!Opens
    <3>5. Shown[c] \in CategoryStatus
      BY <1>11, <2>2, <3>1, ShownAt DEF Stored, Category
    <3>6. Shown'[c] = Atomic!Opens(v)
      BY <1>4, <1>11, <3>3, <3>4, ShownAt
    <3> QED
      BY <3>5, <3>6 DEF CategoryStatus, Atomic!Visible
  <2> QED
    BY <2>1, <2>2
<1>14. Shown' = [Shown EXCEPT ![c] = IF Atomic!Visible(c) THEN Atomic!Opens(v) ELSE @]
  BY <1>4, <1>12, <1>13, OneCategory
<1> QED
  BY <1>10, <1>13, <1>14 DEF Atomic!Decide

\* Reading a request starts a handler that writes it first.
LEMMA FindApproveAtomic ==
  ASSUME IInv, IInv', NEW h \in Handlers, NEW a \in Requests, NEW v \in Verdicts,
         NEW u \in Users, FindApprovePendingForAction(h, a, v, u)
  PROVE  Shown' = Shown /\ Verdict' = Verdict
<1>1. /\ task[h].step = "idle" /\ task'[h].step = "writeApprove"
      /\ \A g \in Handlers : g # h => task'[g] = task[g]
      /\ UNCHANGED <<categories, minted, approves>>
  BY DEF FindApprovePendingForAction, IInv, TypeOK
<1> QED
  BY <1>1, QuietVerdicts, QuietCategories

\* A slot that fails held no decision.
LEMMA FailAtomic ==
  ASSUME SerialInv, IInv', Deciders \intersect Faulty = {}, NEW h \in Handlers, Fail(h)
  PROVE  Shown' = Shown /\ Verdict' = Verdict
<1>1. task[h].step # "writeCategory"
  BY DEF Fail, SerialInv, OnlyDecidersDecide, Deciding
<1>2. /\ task'[h].step = "idle"
      /\ \A g \in Handlers : g # h => task'[g] = task[g]
      /\ UNCHANGED <<categories, minted, approves>>
  BY IdleTask DEF Fail, Finish, SerialInv, IInv, TypeOK
<1> QED
  BY <1>1, <1>2, QuietVerdicts, QuietCategories DEF SerialInv

LEMMA EditAtomic ==
  ASSUME IInv, IInv', NEW c \in Categories
  PROVE  /\ DeleteCategory(c) => Atomic!Withdraw(c)
         /\ \A n \in Names : UpdateCategory(c, n) => Atomic!Close(c)
<1>1. ASSUME DeleteCategory(c) \/ \E n \in Names : UpdateCategory(c, n)
      PROVE  Verdict' = Verdict
  <2>1. approves' = approves /\ task' = task
    BY <1>1 DEF DeleteCategory, UpdateCategory
  <2> QED
    BY <2>1, QuietVerdicts
<1> QED
  BY <1>1, EditGate
     DEF Gate!Withdraw, Gate!Close, Gate!Visible, Atomic!Withdraw, Atomic!Close, Atomic!Visible

LEMMA NextAtomic ==
  ASSUME SoleDecider, Deciders \intersect Faulty = {}
  PROVE  SerialInv /\ IInv' /\ [Next]_vars => [Atomic!Next]_Atomic!vars
<1> SUFFICES ASSUME SerialInv, IInv', [Next]_vars PROVE [Atomic!Next]_Atomic!vars
  OBVIOUS
<1>1. IInv
  BY DEF SerialInv
<1>2. ASSUME NEW h \in Handlers, NEW c \in Categories, NEW n \in Names, NEW u \in Users,
             CreateCategory(h, c, n, u)
      PROVE  Atomic!Next
  BY <1>1, <1>2, CreateCategoryAtomic DEF Atomic!Next
<1>3. ASSUME NEW h \in Handlers, WriteCategory(h)
      PROVE  Atomic!Next
  BY <1>3, WriteCategoryAtomic DEF Atomic!Next, Verdicts
<1>4. ASSUME NEW c \in Categories, DeleteCategory(c) \/ \E n \in Names : UpdateCategory(c, n)
      PROVE  Atomic!Next
  BY <1>1, <1>4, EditAtomic DEF Atomic!Next
<1>5. ASSUME NEW h \in Handlers, WriteApprove(h) \/ Fail(h) \/ \E a \in Requests : CreateApprove(h, a)
      PROVE  Shown' = Shown /\ Verdict' = Verdict
  BY <1>1, <1>5, WriteApproveAtomic, FailAtomic, CreateApproveAtomic
<1>6. ASSUME NEW h \in Handlers, NEW a \in Requests, NEW v \in Verdicts, NEW u \in Users,
             FindApprovePendingForAction(h, a, v, u)
      PROVE  Shown' = Shown /\ Verdict' = Verdict
  BY <1>1, <1>6, FindApproveAtomic
<1>7. ASSUME UNCHANGED vars
      PROVE  Shown' = Shown /\ Verdict' = Verdict
  BY <1>1, <1>7, QuietVerdicts, QuietCategories DEF vars
<1> QED
  BY <1>2, <1>3, <1>4, <1>5, <1>6, <1>7
     DEF Next, Proceed, Approved, Rejected, Verdicts, Atomic!vars

(* With one slot of /approve at work, which does not fail, approval is what *)
(* a user of the API expects: a category is decided at most once, and the   *)
(* decision and the status that readers see change together, whatever the   *)
(* handlers of create, PUT and DELETE do, and wherever those fail.  The     *)
(* second condition is needed: a decision that fails between its two writes *)
(* leaves a decided request and a category that is PENDING for ever.        *)
THEOREM AtomicRefinement ==
  ASSUME SoleDecider, Deciders \intersect Faulty = {}
  PROVE  Spec => AtomicSpec
<1>1. Init => SerialInv /\ Atomic!Init
  BY InitSerialInv, InitAtomic
<1>2. SerialInv /\ [Next]_vars => SerialInv'
  BY NextSerialInv
<1>3. SerialInv' => IInv'
  BY DEF SerialInv
<1>4. SerialInv /\ IInv' /\ [Next]_vars => [Atomic!Next]_Atomic!vars
  BY NextAtomic
<1> QED
  BY <1>1, <1>2, <1>3, <1>4, PTL DEF Spec, AtomicSpec, Atomic!Spec
=============================================================================
