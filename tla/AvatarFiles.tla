------------------------------ MODULE AvatarFiles ------------------------------
(***************************************************************************)
(* Uploaded files: an object in the S3 bucket, or a file on the disk, a    *)
(* document that records it, and the avatar that a user's document embeds  *)
(* (users/users.service.ts with files/files.service.ts and local-files/).  *)
(*                                                                         *)
(* An upload puts the object, saves its document and then, for an avatar,  *)
(* writes the copy in the user.  A deletion reads the user, clears the     *)
(* avatar, looks the document up, deletes the object and then the          *)
(* document.  Each await is an action; handlers of the same user run       *)
(* concurrently, as nothing serialises the requests of a user.             *)
(***************************************************************************)
CONSTANTS
  Users,     \* the accounts at the start
  Files,     \* keys the uploads can draw; the document of a key goes by the same name
  Handlers,  \* the slots that serve requests
  Faulty,    \* the slots whose calls to S3 or MongoDB may reject, or whose process may die
  None       \* no file, no user

ASSUME FaultyAssumption == Faulty \subseteq Handlers
ASSUME NoneAssumption == None \notin Files /\ None \notin Users

VARIABLES
  accounts,  \* the users whose document exists
  avatar,    \* user -> the file its document embeds, or None
  drawn,     \* the keys drawn so far: uuid() never repeats
  bucket,    \* the objects in S3 and the files on the disk
  files,     \* the documents in the collections of files
  task       \* handler -> what it is doing

vars == <<accounts, avatar, drawn, bucket, files, task>>

UploadSteps == {"saveFile", "saveAvatar", "saveLocal", "setAvatar"}
DeleteSteps == {"clearAvatar", "findFile", "deleteObject", "deleteFile"}

Task ==
  [step : {"idle"} \union UploadSteps \union DeleteSteps,
   user : Users \union {None}, file : Files \union {None}]

Idle == [step |-> "idle", user |-> None, file |-> None]

Finish(h) == task' = [task EXCEPT ![h] = Idle]
GoTo(h, step) == task' = [task EXCEPT ![h].step = step]

-----------------------------------------------------------------------------
Init ==
  /\ accounts = Users
  /\ avatar = [u \in Users |-> None]
  /\ drawn = {}
  /\ bucket = {}
  /\ files = {}
  /\ task = [h \in Handlers |-> Idle]

(***************************************************************************)
(* Uploads.  The handler of POST /users/avatar goes on to set the avatar;  *)
(* those of POST /resource/upload/*, /users/files and /users/file-local    *)
(* stop at the document.                                                   *)
(* The guard's reading of the user and the upload are one step: the key is *)
(* nobody else's, so that nothing in between depends on it.  The public    *)
(* and the private bucket are handled alike and are one here.              *)
(***************************************************************************)
Upload(h, u, f, next) ==
  /\ task[h].step = "idle"
  /\ u \in accounts
  /\ f \notin drawn
  /\ drawn' = drawn \union {f}
  /\ bucket' = bucket \union {f}
  /\ task' = [task EXCEPT ![h] = [step |-> next, user |-> u, file |-> f]]
  /\ UNCHANGED <<accounts, avatar, files>>

AddFile(h, u, f) == Upload(h, u, f, "saveFile")

AddPrivateFile(h, u, f) == Upload(h, u, f, "saveFile")

AddAvatar(h, u, f) == Upload(h, u, f, "saveAvatar")

\* Multer has the file on the disk, by a random name, before the handler runs.
LocalFilesInterceptor(h, u, f) == Upload(h, u, f, "saveLocal")

SaveLocalFileData(f) == files' = files \union {f}

\* POST /users/file-local, from its handler on.
AddFileLocal(h) ==
  /\ task[h].step = "saveLocal"
  /\ SaveLocalFileData(task[h].file)
  /\ Finish(h)
  /\ UNCHANGED <<accounts, avatar, drawn, bucket>>

\* Mutant: the document is saved after the response.
SaveFileLater(h) ==
  /\ task[h].step \in {"saveFile", "saveAvatar"}
  /\ IF task[h].step = "saveFile" THEN Finish(h) ELSE GoTo(h, "setAvatar")
  /\ UNCHANGED <<accounts, avatar, drawn, bucket, files>>

SaveFile(h) ==
  /\ task[h].step \in {"saveFile", "saveAvatar"}
  /\ files' = files \union {task[h].file}
  /\ IF task[h].step = "saveFile" THEN Finish(h) ELSE GoTo(h, "setAvatar")
  /\ UNCHANGED <<accounts, avatar, drawn, bucket>>

\* findByIdAndUpdate of a user that was deleted in the meantime does nothing.
SetAvatar(h) ==
  /\ task[h].step = "setAvatar"
  /\ avatar' = [avatar EXCEPT ![task[h].user] =
       IF task[h].user \in accounts THEN task[h].file ELSE @]
  /\ Finish(h)
  /\ UNCHANGED <<accounts, drawn, bucket, files>>

(***************************************************************************)
(* DELETE /users/avatar.  A user without an avatar answers at once.        *)
(***************************************************************************)
ReadAvatar(h, u) ==
  /\ task[h].step = "idle"
  /\ u \in accounts
  /\ avatar[u] # None
  /\ task' = [task EXCEPT ![h] = [step |-> "clearAvatar", user |-> u, file |-> avatar[u]]]
  /\ UNCHANGED <<accounts, avatar, drawn, bucket, files>>

\* Mutant: the file goes and the user keeps pointing at it.
KeepAvatar(h) ==
  /\ task[h].step = "clearAvatar"
  /\ GoTo(h, "findFile")
  /\ UNCHANGED <<accounts, avatar, drawn, bucket, files>>

\* Whatever avatar the user has by now is cleared, not only the one read.
ClearAvatar(h) ==
  /\ task[h].step = "clearAvatar"
  /\ avatar' = [avatar EXCEPT ![task[h].user] = None]
  /\ GoTo(h, "findFile")
  /\ UNCHANGED <<accounts, drawn, bucket, files>>

\* A document that another deletion removed first makes file.key throw: the
\* request ends with an error before it reaches S3.
FindFile(h) ==
  /\ task[h].step = "findFile"
  /\ IF task[h].file \in files THEN GoTo(h, "deleteObject") ELSE Finish(h)
  /\ UNCHANGED <<accounts, avatar, drawn, bucket, files>>

\* Mutant: the handler ends after S3 answered.
DeleteObjectOnly(h) ==
  /\ task[h].step = "deleteObject"
  /\ bucket' = bucket \ {task[h].file}
  /\ Finish(h)
  /\ UNCHANGED <<accounts, avatar, drawn, files>>

\* deleteObject of a key that is gone succeeds.
DeleteObject(h) ==
  /\ task[h].step = "deleteObject"
  /\ bucket' = bucket \ {task[h].file}
  /\ GoTo(h, "deleteFile")
  /\ UNCHANGED <<accounts, avatar, drawn, files>>

DeleteFile(h) ==
  /\ task[h].step = "deleteFile"
  /\ files' = files \ {task[h].file}
  /\ Finish(h)
  /\ UNCHANGED <<accounts, avatar, drawn, bucket>>

\* DELETE /authentication/:id removes the user's document and the avatar in it;
\* the object and its document stay.
DeleteUser(u) ==
  /\ u \in accounts
  /\ accounts' = accounts \ {u}
  /\ avatar' = [avatar EXCEPT ![u] = None]
  /\ UNCHANGED <<drawn, bucket, files, task>>

Fail(h) ==
  /\ h \in Faulty
  /\ task[h].step # "idle"
  /\ Finish(h)
  /\ UNCHANGED <<accounts, avatar, drawn, bucket, files>>

-----------------------------------------------------------------------------
Proceed(h) ==
  \/ SaveFile(h)
  \/ AddFileLocal(h)
  \/ SetAvatar(h)
  \/ ClearAvatar(h)
  \/ FindFile(h)
  \/ DeleteObject(h)
  \/ DeleteFile(h)

Next ==
  \/ \E h \in Handlers :
       \/ \E u \in Users, f \in Files :
            \/ AddFile(h, u, f) \/ AddPrivateFile(h, u, f) \/ AddAvatar(h, u, f)
            \/ LocalFilesInterceptor(h, u, f)
       \/ \E u \in Users : ReadAvatar(h, u)
       \/ Proceed(h)
       \/ Fail(h)
  \/ \E u \in Users : DeleteUser(u)

Spec == Init /\ [][Next]_vars

\* S3 and MongoDB answer every call, with a result or an error.
FairSpec == Spec /\ \A h \in Handlers : WF_vars(Proceed(h))

-----------------------------------------------------------------------------
Uploading(h, f) == task[h].step \in UploadSteps /\ task[h].file = f
Deleting(h, f) == task[h].step \in DeleteSteps /\ task[h].file = f

(* Type invariant.                                                         *)
TypeOK ==
  /\ accounts \subseteq Users
  /\ avatar \in [Users -> Files \union {None}]
  /\ drawn \subseteq Files
  /\ bucket \subseteq Files
  /\ files \subseteq Files
  /\ task \in [Handlers -> Task]

(* The avatar a user shows can be fetched: its object is in the bucket and *)
(* its document in the collection, whatever uploads and deletions of the   *)
(* same user interleave (a deletion clears any avatar, and another         *)
(* deletion may hold the same file) and wherever a handler fails.          *)
AvatarNeverDangles ==
  \A u \in Users : avatar[u] # None => avatar[u] \in bucket /\ avatar[u] \in files

(* A deletion whose own calls succeed reaches both stores, although other  *)
(* handlers that hold the same file fail half way or make it end with an   *)
(* error.                                                                  *)
DeletionCompletes ==
  \A f \in Files :
    (\E h \in Handlers \ Faulty : Deleting(h, f)) ~> (f \notin bucket /\ f \notin files)

(* An object that was uploaded gets its document, while the calls of the   *)
(* upload itself succeed.                                                  *)
UploadIsRecorded ==
  \A f \in Files :
    (\E h \in Handlers \ Faulty : Uploading(h, f)) ~> (f \in files \/ f \notin bucket)

-----------------------------------------------------------------------------
(* The inductive invariant behind AvatarNeverDangles.                      *)

\* Everything stored goes by a key that was drawn, and a user without a
\* document has no avatar.
StoredIsDrawn ==
  /\ bucket \subseteq drawn
  /\ files \subseteq drawn
  /\ \A u \in Users : u \notin accounts => avatar[u] = None

\* A file is the avatar of one user at most.
AvatarsAreDistinct ==
  \A u, v \in Users : avatar[u] # None /\ avatar[u] = avatar[v] => u = v

\* A file being uploaded belongs to its handler alone: it is in the bucket, it
\* is nobody's avatar yet and nobody deletes it.
UploadsArePrivate ==
  \A h \in Handlers : task[h].step \in UploadSteps =>
    /\ task[h].user \in Users
    /\ task[h].file \in drawn
    /\ task[h].file \in bucket
    /\ task[h].step = "setAvatar" => task[h].file \in files
    /\ \A u \in Users : avatar[u] # task[h].file
    /\ \A g \in Handlers : g # h /\ task[g].step # "idle" => task[g].file # task[h].file

\* A file being deleted was the avatar of the handler's user, and once the
\* avatar is cleared it is nobody's.
DeletionsAreUnlinked ==
  \A h \in Handlers : task[h].step \in DeleteSteps =>
    /\ task[h].user \in Users
    /\ task[h].file \in drawn
    /\ \A u \in Users :
         avatar[u] = task[h].file => task[h].step = "clearAvatar" /\ u = task[h].user

(* What every step of the code keeps.                                      *)
IInv ==
  /\ TypeOK
  /\ StoredIsDrawn
  /\ AvatarsAreDistinct
  /\ UploadsArePrivate
  /\ DeletionsAreUnlinked
  /\ AvatarNeverDangles

-----------------------------------------------------------------------------
(* The two stores against each other.                                      *)

Saving(h, f) == task[h].step \in {"saveFile", "saveAvatar", "saveLocal"} /\ task[h].file = f
Purging(h, f) == task[h].step = "deleteFile" /\ task[h].file = f

\* The stores agree about a file, or a handler is about to make them agree: one
\* that saves the document of the object, or one that removes it.
Tended(f) ==
  /\ f \in bucket \ files => \E h \in Handlers : Saving(h, f)
  /\ f \in files \ bucket => \E h \in Handlers : Purging(h, f)

\* An object that a handler has deleted does not come back.
PurgedAreGone == \A h \in Handlers, f \in Files : Purging(h, f) => f \notin bucket

(* S3 and the collection are written one after the other and never in one  *)
(* transaction: that they end up different is always the failure of a      *)
(* handler between its two writes, and of no interleaving of the others.   *)
StoresPartByFailure ==
  [][\A f \in Files : Tended(f) /\ ~Tended(f)' =>
       \E h \in Faulty : Fail(h) /\ task[h].file = f]_vars
=============================================================================
