--------------------------- MODULE AvatarFilesProofs ---------------------------
(***************************************************************************)
(* An avatar never dangles, for any number of users, files and handlers,   *)
(* with or without failures; and only a handler that fails half way makes  *)
(* the bucket and the collection part.                                     *)
(***************************************************************************)
EXTENDS AvatarFiles, TLAPS

USE NoneAssumption

-----------------------------------------------------------------------------
\* What a step does to the tasks, for a handler that ends and one that goes on.
LEMMA IdleTask == Idle \in Task /\ Idle.step = "idle"
BY DEF Idle, Task

LEMMA FinishTask ==
  ASSUME TypeOK, NEW h \in Handlers, Finish(h)
  PROVE  /\ task' \in [Handlers -> Task]
         /\ task'[h].step = "idle"
         /\ \A g \in Handlers : g # h => task'[g] = task[g]
BY IdleTask DEF TypeOK, Finish

LEMMA GoToTask ==
  ASSUME TypeOK, NEW h \in Handlers, NEW s \in UploadSteps \union DeleteSteps, GoTo(h, s)
  PROVE  /\ task' \in [Handlers -> Task]
         /\ task'[h].step = s
         /\ task'[h].file = task[h].file
         /\ task'[h].user = task[h].user
         /\ \A g \in Handlers : g # h => task'[g] = task[g]
BY DEF TypeOK, GoTo, Task

\* The steps of the two kinds are different.
LEMMA Steps ==
  /\ "idle" \notin UploadSteps \union DeleteSteps
  /\ \A s \in UploadSteps : s \notin DeleteSteps
BY DEF UploadSteps, DeleteSteps

LEMMA InitIInv == Init => IInv
<1> SUFFICES ASSUME Init PROVE IInv
  OBVIOUS
<1> USE DEF Init
<1>1. TypeOK
  BY IdleTask DEF TypeOK
<1>2. StoredIsDrawn /\ AvatarsAreDistinct /\ AvatarNeverDangles
  BY DEF StoredIsDrawn, AvatarsAreDistinct, AvatarNeverDangles
<1>3. UploadsArePrivate /\ DeletionsAreUnlinked
  BY IdleTask, Steps DEF UploadsArePrivate, DeletionsAreUnlinked
<1> QED
  BY <1>1, <1>2, <1>3 DEF IInv

-----------------------------------------------------------------------------
(* One lemma per action: it keeps the inductive invariant.                 *)

LEMMA UploadIInv ==
  ASSUME IInv, NEW h \in Handlers, NEW u \in Users, NEW f \in Files,
         NEW s \in {"saveFile", "saveAvatar", "saveLocal"}, Upload(h, u, f, s)
  PROVE  IInv'
<1> DEFINE t == [step |-> s, user |-> u, file |-> f]
<1>1. /\ f \notin drawn /\ drawn' = drawn \union {f} /\ bucket' = bucket \union {f}
      /\ task' = [task EXCEPT ![h] = t]
      /\ accounts' = accounts /\ avatar' = avatar /\ files' = files
  BY DEF Upload
<1>2. t \in Task /\ t.step = s /\ t.user = u /\ t.file = f
  BY DEF Task, UploadSteps
<1> HIDE DEF t
<1>3. /\ task' \in [Handlers -> Task] /\ task'[h] = t
      /\ \A g \in Handlers : g # h => task'[g] = task[g]
  BY <1>1, <1>2 DEF IInv, TypeOK
<1>4. TypeOK' /\ StoredIsDrawn' /\ AvatarsAreDistinct' /\ AvatarNeverDangles'
  BY <1>1, <1>3 DEF IInv, TypeOK, StoredIsDrawn, AvatarsAreDistinct, AvatarNeverDangles
<1>5. /\ \A g \in Handlers : g # h /\ task[g].step # "idle" => task[g].file # f
      /\ \A v \in Users : avatar[v] # f
  <2>1. \A g \in Handlers : task[g].step # "idle" =>
          task[g].step \in UploadSteps \union DeleteSteps
    BY DEF IInv, TypeOK, Task
  <2> QED
    BY <1>1, <2>1 DEF IInv, UploadsArePrivate, DeletionsAreUnlinked, AvatarNeverDangles,
                      StoredIsDrawn
<1>6. UploadsArePrivate'
  BY <1>1, <1>2, <1>3, <1>5, Steps DEF IInv, UploadsArePrivate
<1>7. DeletionsAreUnlinked'
  BY <1>1, <1>2, <1>3, Steps DEF IInv, DeletionsAreUnlinked, UploadSteps
<1> QED
  BY <1>4, <1>6, <1>7 DEF IInv

LEMMA SaveFileIInv ==
  ASSUME IInv, NEW h \in Handlers, SaveFile(h) \/ AddFileLocal(h)
  PROVE  IInv'
<1>1. /\ task[h].step \in UploadSteps /\ task[h].file \in drawn /\ task[h].file \in Files
      /\ files' = files \union {task[h].file}
      /\ accounts' = accounts /\ avatar' = avatar /\ drawn' = drawn /\ bucket' = bucket
  BY DEF SaveFile, AddFileLocal, SaveLocalFileData, IInv, TypeOK, UploadsArePrivate, UploadSteps
<1>2. /\ task' \in [Handlers -> Task]
      /\ \A g \in Handlers : g # h => task'[g] = task[g]
      /\ \/ task'[h].step = "idle"
         \/ /\ task'[h].step = "setAvatar"
            /\ task'[h].file = task[h].file /\ task'[h].user = task[h].user
  BY FinishTask, GoToTask DEF SaveFile, AddFileLocal, SaveLocalFileData, IInv, UploadSteps
<1>3. TypeOK' /\ StoredIsDrawn' /\ AvatarsAreDistinct' /\ AvatarNeverDangles'
  BY <1>1, <1>2 DEF IInv, TypeOK, StoredIsDrawn, AvatarsAreDistinct, AvatarNeverDangles
<1>4. UploadsArePrivate'
  BY <1>1, <1>2, Steps DEF IInv, UploadsArePrivate
<1>5. DeletionsAreUnlinked'
  BY <1>1, <1>2 DEF IInv, DeletionsAreUnlinked, DeleteSteps
<1> QED
  BY <1>3, <1>4, <1>5 DEF IInv

LEMMA SetAvatarIInv ==
  ASSUME IInv, NEW h \in Handlers, SetAvatar(h)
  PROVE  IInv'
<1> DEFINE f == task[h].file
           u == task[h].user
<1>1. /\ u \in Users /\ f \in Files /\ f \in bucket /\ f \in files
      /\ \A v \in Users : avatar[v] # f
      /\ \A g \in Handlers : g # h /\ task[g].step # "idle" => task[g].file # f
      /\ accounts' = accounts /\ drawn' = drawn /\ bucket' = bucket /\ files' = files
  BY DEF SetAvatar, IInv, TypeOK, UploadsArePrivate, UploadSteps
<1>2. /\ avatar' \in [Users -> Files \union {None}]
      /\ \A v \in Users : v # u => avatar'[v] = avatar[v]
      /\ avatar'[u] = IF u \in accounts THEN f ELSE avatar[u]
  BY <1>1 DEF SetAvatar, IInv, TypeOK
<1> HIDE DEF f, u
<1>3. /\ task' \in [Handlers -> Task] /\ task'[h].step = "idle"
      /\ \A g \in Handlers : g # h => task'[g] = task[g]
  BY FinishTask DEF SetAvatar, IInv
<1>4. TypeOK' /\ StoredIsDrawn' /\ AvatarsAreDistinct' /\ AvatarNeverDangles'
  BY <1>1, <1>2, <1>3 DEF IInv, TypeOK, StoredIsDrawn, AvatarsAreDistinct, AvatarNeverDangles
<1>5. UploadsArePrivate'
  BY <1>1, <1>2, <1>3, Steps DEF IInv, UploadsArePrivate
<1>6. DeletionsAreUnlinked'
  BY <1>1, <1>2, <1>3, Steps DEF IInv, DeletionsAreUnlinked
<1> QED
  BY <1>4, <1>5, <1>6 DEF IInv

LEMMA ReadAvatarIInv ==
  ASSUME IInv, NEW h \in Handlers, NEW u \in Users, ReadAvatar(h, u)
  PROVE  IInv'
<1> DEFINE t == [step |-> "clearAvatar", user |-> u, file |-> avatar[u]]
<1>1. /\ avatar[u] # None /\ avatar[u] \in Files /\ avatar[u] \in drawn
      /\ task' = [task EXCEPT ![h] = t]
      /\ accounts' = accounts /\ avatar' = avatar /\ drawn' = drawn
      /\ bucket' = bucket /\ files' = files
  BY DEF ReadAvatar, IInv, TypeOK, AvatarNeverDangles, StoredIsDrawn
<1>2. t \in Task /\ t.step = "clearAvatar" /\ t.user = u /\ t.file = avatar[u]
  BY <1>1 DEF Task, DeleteSteps
<1> HIDE DEF t
<1>3. /\ task' \in [Handlers -> Task] /\ task'[h] = t
      /\ \A g \in Handlers : g # h => task'[g] = task[g]
  BY <1>1, <1>2 DEF IInv, TypeOK
<1>4. TypeOK' /\ StoredIsDrawn' /\ AvatarsAreDistinct' /\ AvatarNeverDangles'
  BY <1>1, <1>3 DEF IInv, TypeOK, StoredIsDrawn, AvatarsAreDistinct, AvatarNeverDangles
<1>5. UploadsArePrivate'
  BY <1>1, <1>2, <1>3 DEF IInv, UploadsArePrivate, UploadSteps
<1>6. DeletionsAreUnlinked'
  BY <1>1, <1>2, <1>3 DEF IInv, DeletionsAreUnlinked, AvatarsAreDistinct
<1> QED
  BY <1>4, <1>5, <1>6 DEF IInv

LEMMA ClearAvatarIInv ==
  ASSUME IInv, NEW h \in Handlers, ClearAvatar(h)
  PROVE  IInv'
<1>1. /\ task[h].user \in Users /\ task[h].step = "clearAvatar"
      /\ \A v \in Users : avatar[v] = task[h].file => v = task[h].user
      /\ task[h].file \in Files /\ task[h].file \in drawn
      /\ accounts' = accounts /\ drawn' = drawn /\ bucket' = bucket /\ files' = files
  BY DEF ClearAvatar, IInv, TypeOK, DeletionsAreUnlinked, DeleteSteps
<1>2. /\ avatar' \in [Users -> Files \union {None}]
      /\ \A v \in Users : avatar'[v] = avatar[v] \/ avatar'[v] = None
      /\ avatar'[task[h].user] = None
  BY <1>1 DEF ClearAvatar, IInv, TypeOK
<1>3. /\ task' \in [Handlers -> Task] /\ task'[h].step = "findFile"
      /\ task'[h].file = task[h].file /\ task'[h].user = task[h].user
      /\ \A g \in Handlers : g # h => task'[g] = task[g]
  BY GoToTask DEF ClearAvatar, IInv, DeleteSteps
<1>4. TypeOK' /\ StoredIsDrawn' /\ AvatarsAreDistinct' /\ AvatarNeverDangles'
  BY <1>1, <1>2, <1>3 DEF IInv, TypeOK, StoredIsDrawn, AvatarsAreDistinct, AvatarNeverDangles
<1>5. UploadsArePrivate'
  <2>1. \A g \in Handlers : task'[g].step \in UploadSteps => g # h
    BY <1>3 DEF UploadSteps
  <2> QED
    BY <1>1, <1>2, <1>3, <2>1 DEF IInv, TypeOK, UploadsArePrivate
<1>6. DeletionsAreUnlinked'
  <2>1. \A g \in Handlers : g # h => task'[g] = task[g]
    BY <1>3
  <2>2. \A v \in Users : avatar'[v] # task[h].file
    BY <1>1, <1>2
  <2>3. \A g \in Handlers, v \in Users : task[g].step \in DeleteSteps /\ avatar'[v] = task[g].file =>
          task[g].step = "clearAvatar" /\ v = task[g].user
    BY <1>2, Steps DEF IInv, TypeOK, DeletionsAreUnlinked, StoredIsDrawn
  <2> QED
    BY <1>1, <1>3, <2>2, <2>3 DEF IInv, DeletionsAreUnlinked
<1> QED
  BY <1>4, <1>5, <1>6 DEF IInv

LEMMA FindFileIInv ==
  ASSUME IInv, NEW h \in Handlers, FindFile(h)
  PROVE  IInv'
<1>1. /\ task[h].step = "findFile"
      /\ accounts' = accounts /\ avatar' = avatar /\ drawn' = drawn
      /\ bucket' = bucket /\ files' = files
  BY DEF FindFile
<1>2. /\ task' \in [Handlers -> Task]
      /\ \A g \in Handlers : g # h => task'[g] = task[g]
      /\ \/ task'[h].step = "idle"
         \/ /\ task'[h].step = "deleteObject"
            /\ task'[h].file = task[h].file /\ task'[h].user = task[h].user
  BY FinishTask, GoToTask DEF FindFile, IInv, DeleteSteps
<1>3. TypeOK' /\ StoredIsDrawn' /\ AvatarsAreDistinct' /\ AvatarNeverDangles'
  BY <1>1, <1>2 DEF IInv, TypeOK, StoredIsDrawn, AvatarsAreDistinct, AvatarNeverDangles
<1>4. UploadsArePrivate'
  BY <1>1, <1>2 DEF IInv, UploadsArePrivate, UploadSteps
<1>5. DeletionsAreUnlinked'
  BY <1>1, <1>2 DEF IInv, DeletionsAreUnlinked, DeleteSteps
<1> QED
  BY <1>3, <1>4, <1>5 DEF IInv

\* The file a handler removes from S3 or from the collection is nobody's avatar
\* and nobody's upload.
LEMMA RemovedIsUnlinked ==
  ASSUME IInv, NEW h \in Handlers, task[h].step \in DeleteSteps \ {"clearAvatar"}
  PROVE  /\ \A u \in Users : avatar[u] # task[h].file
         /\ \A g \in Handlers : task[g].step \in UploadSteps => task[g].file # task[h].file
BY Steps DEF IInv, DeletionsAreUnlinked, UploadsArePrivate

LEMMA DeleteObjectIInv ==
  ASSUME IInv, NEW h \in Handlers, DeleteObject(h)
  PROVE  IInv'
<1>1. /\ task[h].step = "deleteObject"
      /\ bucket' = bucket \ {task[h].file}
      /\ accounts' = accounts /\ avatar' = avatar /\ drawn' = drawn /\ files' = files
  BY DEF DeleteObject
<1>2. /\ task' \in [Handlers -> Task] /\ task'[h].step = "deleteFile"
      /\ task'[h].file = task[h].file /\ task'[h].user = task[h].user
      /\ \A g \in Handlers : g # h => task'[g] = task[g]
  BY GoToTask DEF DeleteObject, IInv, DeleteSteps
<1>3. /\ \A u \in Users : avatar[u] # task[h].file
      /\ \A g \in Handlers : task[g].step \in UploadSteps => task[g].file # task[h].file
  BY <1>1, RemovedIsUnlinked DEF DeleteSteps
<1>4. TypeOK' /\ StoredIsDrawn' /\ AvatarsAreDistinct' /\ AvatarNeverDangles'
  BY <1>1, <1>2, <1>3 DEF IInv, TypeOK, StoredIsDrawn, AvatarsAreDistinct, AvatarNeverDangles
<1>5. UploadsArePrivate'
  <2>1. \A g \in Handlers : task'[g].step \in UploadSteps => g # h
    BY <1>2 DEF UploadSteps
  <2> QED
    BY <1>1, <1>2, <1>3, <2>1 DEF IInv, UploadsArePrivate
<1>6. DeletionsAreUnlinked'
  BY <1>1, <1>2, <1>3 DEF IInv, DeletionsAreUnlinked, DeleteSteps
<1> QED
  BY <1>4, <1>5, <1>6 DEF IInv

LEMMA DeleteFileIInv ==
  ASSUME IInv, NEW h \in Handlers, DeleteFile(h)
  PROVE  IInv'
<1>1. /\ task[h].step = "deleteFile"
      /\ files' = files \ {task[h].file}
      /\ accounts' = accounts /\ avatar' = avatar /\ drawn' = drawn /\ bucket' = bucket
  BY DEF DeleteFile
<1>2. /\ task' \in [Handlers -> Task] /\ task'[h].step = "idle"
      /\ \A g \in Handlers : g # h => task'[g] = task[g]
  BY FinishTask DEF DeleteFile, IInv
<1>3. /\ \A u \in Users : avatar[u] # task[h].file
      /\ \A g \in Handlers : task[g].step \in UploadSteps => task[g].file # task[h].file
  BY <1>1, RemovedIsUnlinked DEF DeleteSteps
<1>4. TypeOK' /\ StoredIsDrawn' /\ AvatarsAreDistinct' /\ AvatarNeverDangles'
  BY <1>1, <1>2, <1>3 DEF IInv, TypeOK, StoredIsDrawn, AvatarsAreDistinct, AvatarNeverDangles
<1>5. UploadsArePrivate'
  BY <1>1, <1>2, <1>3, Steps DEF IInv, UploadsArePrivate
<1>6. DeletionsAreUnlinked'
  BY <1>1, <1>2, Steps DEF IInv, DeletionsAreUnlinked
<1> QED
  BY <1>4, <1>5, <1>6 DEF IInv

LEMMA DeleteUserIInv ==
  ASSUME IInv, NEW u \in Users, DeleteUser(u)
  PROVE  IInv'
<1>1. /\ accounts' = accounts \ {u}
      /\ drawn' = drawn /\ bucket' = bucket /\ files' = files /\ task' = task
  BY DEF DeleteUser
<1>2. /\ avatar' \in [Users -> Files \union {None}]
      /\ \A v \in Users : avatar'[v] = IF v = u THEN None ELSE avatar[v]
  BY DEF DeleteUser, IInv, TypeOK
<1>3. TypeOK' /\ StoredIsDrawn' /\ AvatarsAreDistinct' /\ AvatarNeverDangles'
  BY <1>1, <1>2 DEF IInv, TypeOK, StoredIsDrawn, AvatarsAreDistinct, AvatarNeverDangles
<1>4. \A h \in Handlers : task[h].step \in UploadSteps \union DeleteSteps => task[h].file # None
  BY DEF IInv, TypeOK, UploadsArePrivate, DeletionsAreUnlinked
<1>5. UploadsArePrivate' /\ DeletionsAreUnlinked'
  BY <1>1, <1>2, <1>4 DEF IInv, UploadsArePrivate, DeletionsAreUnlinked
<1> QED
  BY <1>3, <1>5 DEF IInv

LEMMA FailIInv ==
  ASSUME IInv, NEW h \in Handlers, Fail(h)
  PROVE  IInv'
<1>1. /\ accounts' = accounts /\ avatar' = avatar /\ drawn' = drawn
      /\ bucket' = bucket /\ files' = files
  BY DEF Fail
<1>2. /\ task' \in [Handlers -> Task] /\ task'[h].step = "idle"
      /\ \A g \in Handlers : g # h => task'[g] = task[g]
  BY FinishTask DEF Fail, IInv
<1>3. TypeOK' /\ StoredIsDrawn' /\ AvatarsAreDistinct' /\ AvatarNeverDangles'
  BY <1>1, <1>2 DEF IInv, TypeOK, StoredIsDrawn, AvatarsAreDistinct, AvatarNeverDangles
<1>4. UploadsArePrivate' /\ DeletionsAreUnlinked'
  BY <1>1, <1>2, Steps DEF IInv, UploadsArePrivate, DeletionsAreUnlinked
<1> QED
  BY <1>3, <1>4 DEF IInv

LEMMA NextIInv == IInv /\ [Next]_vars => IInv'
<1> SUFFICES ASSUME IInv, [Next]_vars PROVE IInv'
  OBVIOUS
<1>1. ASSUME NEW h \in Handlers, NEW u \in Users, NEW f \in Files,
             \/ AddFile(h, u, f) \/ AddPrivateFile(h, u, f) \/ AddAvatar(h, u, f)
             \/ LocalFilesInterceptor(h, u, f)
      PROVE  IInv'
  BY <1>1, UploadIInv DEF AddFile, AddPrivateFile, AddAvatar, LocalFilesInterceptor
<1>2. ASSUME NEW h \in Handlers, NEW u \in Users, ReadAvatar(h, u)
      PROVE  IInv'
  BY <1>2, ReadAvatarIInv
<1>3. ASSUME NEW h \in Handlers, Proceed(h)
      PROVE  IInv'
  BY <1>3, SaveFileIInv, SetAvatarIInv, ClearAvatarIInv, FindFileIInv, DeleteObjectIInv,
     DeleteFileIInv DEF Proceed
<1>4. ASSUME NEW h \in Handlers, Fail(h)
      PROVE  IInv'
  BY <1>4, FailIInv
<1>5. ASSUME NEW u \in Users, DeleteUser(u)
      PROVE  IInv'
  BY <1>5, DeleteUserIInv
<1>6. CASE UNCHANGED vars
  BY <1>6 DEF vars, IInv, TypeOK, StoredIsDrawn, AvatarsAreDistinct, AvatarNeverDangles,
              UploadsArePrivate, DeletionsAreUnlinked
<1> QED
  BY <1>1, <1>2, <1>3, <1>4, <1>5, <1>6 DEF Next

-----------------------------------------------------------------------------
(* The inductive invariant holds in every reachable state.                 *)
THEOREM Invariance == Spec => []IInv
<1>1. Init => IInv
  BY InitIInv
<1>2. IInv /\ [Next]_vars => IInv'
  BY NextIInv
<1> QED
  BY <1>1, <1>2, PTL DEF Spec

(* The avatar that a user shows is in the bucket and in the collection,    *)
(* whatever uploads and deletions race and wherever a handler fails.       *)
THEOREM AvatarsAreWhole == Spec => []AvatarNeverDangles
<1>1. IInv => AvatarNeverDangles
  BY DEF IInv
<1> QED
  BY <1>1, Invariance, PTL
-----------------------------------------------------------------------------
(***************************************************************************)
(* The bucket and the collection part by failures only.  What is needed    *)
(* beside IInv is that an object that was deleted does not come back.      *)
(***************************************************************************)
\* Only an upload adds an object, and it draws a key nobody has had.
LEMMA PurgedStayGone ==
  ASSUME IInv, PurgedAreGone, [Next]_vars
  PROVE  PurgedAreGone'
<1>1. \A g \in Handlers : task[g].step = "deleteFile" => task[g].file \in drawn
  BY DEF IInv, DeletionsAreUnlinked, DeleteSteps
<1>2. ASSUME NEW h \in Handlers, NEW u \in Users, NEW f \in Files,
             NEW s \in {"saveFile", "saveAvatar", "saveLocal"}, Upload(h, u, f, s)
      PROVE  PurgedAreGone'
  <2>1. /\ f \notin drawn /\ bucket' = bucket \union {f}
        /\ task' = [task EXCEPT ![h] = [step |-> s, user |-> u, file |-> f]]
    BY <1>2 DEF Upload
  <2>2. /\ task'[h].step # "deleteFile"
        /\ \A g \in Handlers : g # h => task'[g] = task[g]
    BY <2>1 DEF IInv, TypeOK
  <2> QED
    BY <1>1, <2>1, <2>2 DEF PurgedAreGone, Purging
<1>3. ASSUME NEW h \in Handlers, DeleteObject(h) PROVE PurgedAreGone'
  <2>1. bucket' = bucket \ {task[h].file} /\ GoTo(h, "deleteFile")
    BY <1>3 DEF DeleteObject
  <2>2. /\ task'[h].file = task[h].file
        /\ \A g \in Handlers : g # h => task'[g] = task[g]
    BY <2>1, GoToTask DEF IInv, DeleteSteps
  <2> QED
    BY <2>1, <2>2 DEF PurgedAreGone, Purging
<1>4. ASSUME NEW h \in Handlers, bucket' = bucket,
             \/ Finish(h)
             \/ GoTo(h, "setAvatar") \/ GoTo(h, "findFile") \/ GoTo(h, "deleteObject")
      PROVE  PurgedAreGone'
  <2>1. /\ task'[h].step # "deleteFile"
        /\ \A g \in Handlers : g # h => task'[g] = task[g]
    BY <1>4, FinishTask, GoToTask DEF IInv, UploadSteps, DeleteSteps
  <2> QED
    BY <1>4, <2>1 DEF PurgedAreGone, Purging
<1>5. ASSUME NEW h \in Handlers,
             \/ SaveFile(h) \/ AddFileLocal(h) \/ SetAvatar(h) \/ ClearAvatar(h)
             \/ FindFile(h) \/ DeleteFile(h) \/ Fail(h)
      PROVE  PurgedAreGone'
  <2>1. /\ bucket' = bucket
        /\ \/ Finish(h)
           \/ GoTo(h, "setAvatar") \/ GoTo(h, "findFile") \/ GoTo(h, "deleteObject")
    BY <1>5 DEF SaveFile, AddFileLocal, SetAvatar, ClearAvatar, FindFile, DeleteFile, Fail
  <2> QED
    BY <1>4, <2>1
<1>6. ASSUME NEW h \in Handlers, NEW u \in Users, ReadAvatar(h, u) PROVE PurgedAreGone'
  <2>1. /\ bucket' = bucket
        /\ task' = [task EXCEPT ![h] =
                      [step |-> "clearAvatar", user |-> u, file |-> avatar[u]]]
    BY <1>6 DEF ReadAvatar
  <2>2. /\ task'[h].step # "deleteFile"
        /\ \A g \in Handlers : g # h => task'[g] = task[g]
    BY <2>1 DEF IInv, TypeOK
  <2> QED
    BY <2>1, <2>2 DEF PurgedAreGone, Purging
<1>7. ASSUME UNCHANGED vars \/ \E u \in Users : DeleteUser(u) PROVE PurgedAreGone'
  BY <1>7 DEF DeleteUser, vars, PurgedAreGone, Purging
<1> QED
  BY <1>2, <1>3, <1>5, <1>6, <1>7
     DEF Next, Proceed, AddFile, AddPrivateFile, AddAvatar, LocalFilesInterceptor

\* A file stays tended by a handler that does not move, if the stores keep it.
LEMMA TendedByOthers ==
  ASSUME NEW f \in Files, Tended(f), NEW h \in Handlers, ~Saving(h, f), ~Purging(h, f),
         \A g \in Handlers : g # h => task'[g] = task[g],
         f \in bucket' <=> f \in bucket, f \in files' <=> f \in files
  PROVE  Tended(f)'
BY DEF Tended, Saving, Purging

LEMMA UploadTended ==
  ASSUME IInv, NEW f \in Files, Tended(f), NEW h \in Handlers, NEW u \in Users,
         NEW x \in Files, NEW s \in {"saveFile", "saveAvatar", "saveLocal"}, Upload(h, u, x, s)
  PROVE  Tended(f)'
<1>1. /\ task[h].step = "idle" /\ x \notin drawn /\ bucket' = bucket \union {x} /\ files' = files
      /\ task' = [task EXCEPT ![h] = [step |-> s, user |-> u, file |-> x]]
  BY DEF Upload
<1>2. /\ task'[h].step = s /\ task'[h].file = x
      /\ \A g \in Handlers : g # h => task'[g] = task[g]
  BY <1>1 DEF IInv, TypeOK
<1>3. CASE f = x
  <2>1. f \notin files'
    BY <1>1, <1>3 DEF IInv, StoredIsDrawn
  <2>2. Saving(h, f)'
    BY <1>2, <1>3 DEF Saving
  <2> QED
    BY <2>1, <2>2 DEF Tended
<1>4. CASE f # x
  BY <1>1, <1>2, <1>4, TendedByOthers DEF Saving, Purging
<1> QED
  BY <1>3, <1>4

LEMMA SaveTended ==
  ASSUME IInv, NEW f \in Files, Tended(f), NEW h \in Handlers, SaveFile(h) \/ AddFileLocal(h)
  PROVE  Tended(f)'
<1>1. /\ task[h].step \in UploadSteps
      /\ files' = files \union {task[h].file} /\ bucket' = bucket
  BY DEF SaveFile, AddFileLocal, SaveLocalFileData, UploadSteps
<1>2. \A g \in Handlers : g # h => task'[g] = task[g]
  BY FinishTask, GoToTask DEF SaveFile, AddFileLocal, IInv, UploadSteps
<1>3. CASE f = task[h].file
  <2>1. f \in bucket' /\ f \in files'
    BY <1>1, <1>3 DEF IInv, UploadsArePrivate
  <2> QED
    BY <2>1 DEF Tended
<1>4. CASE f # task[h].file
  BY <1>1, <1>2, <1>4, TendedByOthers DEF Saving, Purging
<1> QED
  BY <1>3, <1>4

LEMMA DeleteTended ==
  ASSUME IInv, PurgedAreGone, NEW f \in Files, Tended(f), NEW h \in Handlers,
         DeleteObject(h) \/ DeleteFile(h)
  PROVE  Tended(f)'
<1>1. CASE DeleteObject(h)
  <2>1. /\ task[h].step = "deleteObject" /\ GoTo(h, "deleteFile")
        /\ bucket' = bucket \ {task[h].file} /\ files' = files
    BY <1>1 DEF DeleteObject
  <2>2. /\ task'[h].step = "deleteFile" /\ task'[h].file = task[h].file
        /\ \A g \in Handlers : g # h => task'[g] = task[g]
    BY <2>1, GoToTask DEF IInv, DeleteSteps
  <2>3. CASE f = task[h].file
    <3>1. Purging(h, f)' /\ f \notin bucket'
      BY <2>1, <2>2, <2>3 DEF Purging
    <3> QED
      BY <3>1 DEF Tended
  <2>4. CASE f # task[h].file
    BY <2>1, <2>2, <2>4, TendedByOthers DEF Saving, Purging
  <2> QED
    BY <2>3, <2>4
<1>2. CASE DeleteFile(h)
  <2>1. /\ task[h].step = "deleteFile" /\ Finish(h)
        /\ files' = files \ {task[h].file} /\ bucket' = bucket
    BY <1>2 DEF DeleteFile
  <2>2. \A g \in Handlers : g # h => task'[g] = task[g]
    BY <2>1, FinishTask DEF IInv
  <2>3. CASE f = task[h].file
    <3>1. f \notin bucket' /\ f \notin files'
      BY <2>1, <2>3 DEF PurgedAreGone, Purging
    <3> QED
      BY <3>1 DEF Tended
  <2>4. CASE f # task[h].file
    BY <2>1, <2>2, <2>4, TendedByOthers DEF Saving, Purging
  <2> QED
    BY <2>3, <2>4
<1> QED
  BY <1>1, <1>2

\* The steps between the writes of the stores.
LEMMA BetweenTended ==
  ASSUME IInv, NEW f \in Files, Tended(f), NEW h \in Handlers,
         \/ SetAvatar(h) \/ ClearAvatar(h) \/ FindFile(h) \/ \E u \in Users : ReadAvatar(h, u)
  PROVE  Tended(f)'
<1>1. /\ bucket' = bucket /\ files' = files
      /\ task[h].step \in {"idle", "setAvatar", "clearAvatar", "findFile"}
  BY DEF SetAvatar, ClearAvatar, FindFile, ReadAvatar
<1>2. \A g \in Handlers : g # h => task'[g] = task[g]
  <2>1. CASE SetAvatar(h) \/ ClearAvatar(h) \/ FindFile(h)
    BY <2>1, FinishTask, GoToTask DEF SetAvatar, ClearAvatar, FindFile, IInv, DeleteSteps
  <2>2. CASE \E u \in Users : ReadAvatar(h, u)
    BY <2>2 DEF ReadAvatar, IInv, TypeOK
  <2> QED
    BY <2>1, <2>2
<1> QED
  BY <1>1, <1>2, TendedByOthers DEF Saving, Purging

LEMMA NextTended ==
  ASSUME IInv, PurgedAreGone, Next, NEW f \in Files, Tended(f), ~Tended(f)'
  PROVE  \E h \in Faulty : Fail(h) /\ task[h].file = f
<1>1. ASSUME NEW u \in Users, DeleteUser(u) PROVE Tended(f)'
  BY <1>1 DEF DeleteUser, Tended, Saving, Purging
<1>2. PICK h \in Handlers : Fail(h)
  BY <1>1, UploadTended, SaveTended, DeleteTended, BetweenTended
     DEF Next, Proceed, AddFile, AddPrivateFile, AddAvatar, LocalFilesInterceptor
<1>3. bucket' = bucket /\ files' = files /\ h \in Faulty
  BY <1>2 DEF Fail
<1>4. \A g \in Handlers : g # h => task'[g] = task[g]
  BY <1>2, FinishTask DEF Fail, IInv
<1>5. task[h].file = f
  BY <1>3, <1>4, TendedByOthers DEF Saving, Purging
<1> QED
  BY <1>2, <1>3, <1>5

LEMMA PurgedInvariance == Spec => []PurgedAreGone
<1>1. Init => PurgedAreGone
  BY IdleTask DEF Init, PurgedAreGone, Purging
<1>2. IInv /\ PurgedAreGone /\ [Next]_vars => PurgedAreGone'
  BY PurgedStayGone
<1> QED
  BY <1>1, <1>2, Invariance, PTL DEF Spec

(* S3 and MongoDB are written one after the other (addAvatar, deleteAvatar, *)
(* saveLocalFileData).  They disagree about a file for longer than a        *)
(* handler takes only if that handler fails between its two writes,         *)
(* whichever uploads and deletions race.                                    *)
THEOREM StoresPart == Spec => StoresPartByFailure
<1>1. IInv /\ PurgedAreGone /\ [Next]_vars =>
        [\A f \in Files : Tended(f) /\ ~Tended(f)' =>
           \E h \in Faulty : Fail(h) /\ task[h].file = f]_vars
  BY NextTended
<1> QED
  BY <1>1, Invariance, PurgedInvariance, PTL DEF Spec, StoresPartByFailure

(* As long as nothing fails, an object without its document, or a document *)
(* without its object, has a handler that is about to put that right.      *)
THEOREM StoresAgreeUnlessFailed ==
  ASSUME Faulty = {}
  PROVE  Spec => [](\A f \in Files : Tended(f))
<1> DEFINE AllTended == \A f \in Files : Tended(f)
           Parts == \A f \in Files : Tended(f) /\ ~Tended(f)' =>
                      \E h \in Faulty : Fail(h) /\ task[h].file = f
<1>1. Init => AllTended
  BY DEF Init, Tended
<1>2. AllTended /\ [Parts]_vars => AllTended'
  <2>1. CASE UNCHANGED vars
    BY <2>1 DEF vars, Tended, Saving, Purging
  <2> QED
    BY <2>1
<1>3. Spec => [][Parts]_vars
  BY StoresPart DEF StoresPartByFailure
<1> HIDE DEF AllTended, Parts
<1>4. Spec => []AllTended
  BY <1>1, <1>2, <1>3, PTL DEF Spec
<1> QED
  BY <1>4 DEF AllTended
=============================================================================
