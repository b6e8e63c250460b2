--------------------------- MODULE CategoryApproval ---------------------------
(***************************************************************************)
(* Categories that need approval, and the requests that approve them:      *)
(* categories/categories.service.ts with service-approve/*.                *)
(*                                                                         *)
(* A POST /categories writes two documents, one after the other: the       *)
(* category (status PENDING) and the request to approve it.  A POST        *)
(* /approve/:id/approved or /rejected reads the pending request, writes    *)
(* the verdict on it and then writes the category.  Each of these awaits   *)
(* is one action: between two of them every other request handler, in this *)
(* process or in another one of the cluster, may take its own steps.       *)
(* PUT and DELETE /categories/:id are one MongoDB operation each.          *)
(*                                                                         *)
(* A handler is a slot that serves one request at a time.  An early return *)
(* that changes nothing (a request or a category that is not found) is the *)
(* absence of a step; one that ends a handler half way is a step.          *)
(***************************************************************************)
CONSTANTS
  Categories,  \* the ObjectIds the driver can draw for categories
  Requests,    \* the ObjectIds the driver can draw for approval requests
  Users,       \* the authenticated users
  Names,       \* the names a CategoryDto may carry
  Handlers,    \* the slots that serve requests
  Deciders,    \* the slots that serve /approve
  Faulty,      \* the slots whose calls may reject, or whose process may die, at an await
  None         \* an absent document or field

Verdicts == {"APPROVED", "REJECTED"}
CategoryStatus == {"PENDING", "ACTIVE", "INACTIVE"}
ApproveStatus == {"PENDING"} \union Verdicts

Category ==
  [name : Names, status : CategoryStatus,
   author : Users \union {None}, modifiedBy : Users \union {None}]

\* What the request remembers of the category it is about (newData).
NewData == [id : Categories, name : Names, modifiedBy : Users]

ApproveDocument ==
  [status : ApproveStatus, createdBy : Users,
   acceptedBy : Users \union {None}, newData : NewData]

\* Where a handler stands: the await it is suspended at, and its locals.
Task ==
  [step : {"idle", "createApprove", "writeApprove", "writeCategory"},
   by : Users \union {None}, verdict : Verdicts \union {None},
   request : Requests \union {None}, newData : NewData \union {None}]

ASSUME DecidersAssumption == Deciders \subseteq Handlers
ASSUME FaultyAssumption == Faulty \subseteq Handlers
ASSUME NoneAssumption ==
  /\ None \notin Category
  /\ None \notin ApproveDocument
  /\ None \notin NewData
  /\ None \notin Requests
  /\ None \notin Users
  /\ None \notin Verdicts

VARIABLES
  categories,  \* the collection "categories": id -> document, or None
  minted,      \* the category ids drawn so far; an ObjectId is never reused
  approves,    \* the collection "approves": id -> document, or None
  verdicts,    \* history: every verdict written on a request (MongoDB keeps the last)
  task         \* handler -> what it is doing

vars == <<categories, minted, approves, verdicts, task>>

-----------------------------------------------------------------------------
(* The documents as the schemas build them.                                *)

\* A new category document: the schema's default gives it the status PENDING.
NewCategory(name, author) ==
  [name |-> name, status |-> "PENDING", author |-> author, modifiedBy |-> None]

\* A new request: the schema's default gives it the status PENDING.
NewApprove(createdBy, newData) ==
  [status |-> "PENDING", createdBy |-> createdBy, acceptedBy |-> None,
   newData |-> newData]

\* Mutant: the status is set and newData is not.
ApprovalStatusOnly(doc, newData) == [doc EXCEPT !.status = "ACTIVE"]

\* $set of the status and of every field of newData but the id.
ApprovalCategoryCreate(doc, newData) ==
  [doc EXCEPT !.status = "ACTIVE",
              !.name = newData.name, !.modifiedBy = newData.modifiedBy]

\* Mutant: the approval copied, its status left as it was.
RejectedAsActive(doc, newData) == ApprovalCategoryCreate(doc, newData)

RejectedCategoryCreate(doc, newData) ==
  [doc EXCEPT !.status = "INACTIVE",
              !.name = newData.name, !.modifiedBy = newData.modifiedBy]

Idle ==
  [step |-> "idle", by |-> None, verdict |-> None,
   request |-> None, newData |-> None]

Finish(h) == task' = [task EXCEPT ![h] = Idle]

-----------------------------------------------------------------------------
Init ==
  /\ categories = [c \in Categories |-> None]
  /\ minted = {}
  /\ approves = [a \in Requests |-> None]
  /\ verdicts = [a \in Requests |-> {}]
  /\ task = [h \in Handlers |-> Idle]

\* Mutant: the category is created and the request for it is not.
CreateCategoryOnly(h, c, name, user) ==
  /\ task[h].step = "idle"
  /\ c \notin minted
  /\ minted' = minted \union {c}
  /\ categories' = [categories EXCEPT ![c] = NewCategory(name, user)]
  /\ UNCHANGED <<approves, verdicts, task>>

(***************************************************************************)
(* POST /categories.  The category is written first and is visible at      *)
(* once; its request is written by a second call.                          *)
(***************************************************************************)
CreateCategory(h, c, name, user) ==
  /\ task[h].step = "idle"
  /\ c \notin minted
  /\ minted' = minted \union {c}
  /\ categories' = [categories EXCEPT ![c] = NewCategory(name, user)]
  /\ task' = [task EXCEPT ![h] =
       [Idle EXCEPT !.step = "createApprove", !.by = user,
                    !.newData = [id |-> c, name |-> name, modifiedBy |-> user]]]
  /\ UNCHANGED <<approves, verdicts>>

\* Mutant: the request's own write is not awaited, and is lost.
CreateApproveUnsaved(h, a) ==
  /\ task[h].step = "createApprove"
  /\ approves[a] = None
  /\ Finish(h)
  /\ UNCHANGED <<categories, minted, approves, verdicts>>

CreateApprove(h, a) ==
  /\ task[h].step = "createApprove"
  /\ approves[a] = None
  /\ approves' = [approves EXCEPT ![a] = NewApprove(task[h].by, task[h].newData)]
  /\ Finish(h)
  /\ UNCHANGED <<categories, minted, verdicts>>

\* Mutant: the request is looked up by its id alone.
FindApproveOfAnyStatus(h, a, verdict, user) ==
  /\ h \in Deciders
  /\ task[h].step = "idle"
  /\ approves[a] # None
  /\ task' = [task EXCEPT ![h] =
       [step |-> "writeApprove", by |-> user, verdict |-> verdict,
        request |-> a, newData |-> approves[a].newData]]
  /\ UNCHANGED <<categories, minted, approves, verdicts>>

(***************************************************************************)
(* POST /approve/:id/approved and /rejected.  The event of the service is  *)
(* delivered to the listener, which reads the request only if it is        *)
(* pending, writes the verdict whatever the request has become since, and  *)
(* then writes the category from the newData it read.                      *)
(***************************************************************************)
FindApprovePendingForAction(h, a, verdict, user) ==
  /\ h \in Deciders
  /\ task[h].step = "idle"
  /\ approves[a] # None
  /\ approves[a].status = "PENDING"
  /\ task' = [task EXCEPT ![h] =
       [step |-> "writeApprove", by |-> user, verdict |-> verdict,
        request |-> a, newData |-> approves[a].newData]]
  /\ UNCHANGED <<categories, minted, approves, verdicts>>

Approved(h, a, user) == FindApprovePendingForAction(h, a, "APPROVED", user)

Rejected(h, a, user) == FindApprovePendingForAction(h, a, "REJECTED", user)

\* Mutant: both handlers write the status APPROVED.
WriteApproveAlways(h) ==
  /\ task[h].step = "writeApprove"
  /\ approves' = [approves EXCEPT ![task[h].request] =
       [@ EXCEPT !.status = "APPROVED", !.acceptedBy = task[h].by]]
  /\ verdicts' = [verdicts EXCEPT ![task[h].request] = @ \union {"APPROVED"}]
  /\ task' = [task EXCEPT ![h].step = "writeCategory"]
  /\ UNCHANGED <<categories, minted>>

WriteApprove(h) ==
  /\ task[h].step = "writeApprove"
  /\ approves' = [approves EXCEPT ![task[h].request] =
       [@ EXCEPT !.status = task[h].verdict, !.acceptedBy = task[h].by]]
  /\ verdicts' = [verdicts EXCEPT ![task[h].request] = @ \union {task[h].verdict}]
  /\ task' = [task EXCEPT ![h].step = "writeCategory"]
  /\ UNCHANGED <<categories, minted>>

\* Mutant: a deleted category is written again (upsert).
WriteCategoryUpsert(h) ==
  /\ task[h].step = "writeCategory"
  /\ categories' = [categories EXCEPT ![task[h].newData.id] =
       ApprovalCategoryCreate(IF @ = None THEN NewCategory(task[h].newData.name, None)
                              ELSE @, task[h].newData)]
  /\ Finish(h)
  /\ UNCHANGED <<minted, approves, verdicts>>

\* Mutant: a rejection does not reach the category.
WriteCategoryIfApproved(h) ==
  /\ task[h].step = "writeCategory"
  /\ categories' = [categories EXCEPT ![task[h].newData.id] =
       IF @ = None \/ task[h].verdict = "REJECTED" THEN @
       ELSE ApprovalCategoryCreate(@, task[h].newData)]
  /\ Finish(h)
  /\ UNCHANGED <<minted, approves, verdicts>>

\* A category deleted in the meantime answers 404: the verdict stays written.
WriteCategory(h) ==
  /\ task[h].step = "writeCategory"
  /\ categories' = [categories EXCEPT ![task[h].newData.id] =
       IF @ = None THEN None
       ELSE IF task[h].verdict = "APPROVED"
            THEN ApprovalCategoryCreate(@, task[h].newData)
            ELSE RejectedCategoryCreate(@, task[h].newData)]
  /\ Finish(h)
  /\ UNCHANGED <<minted, approves, verdicts>>

(***************************************************************************)
(* PUT and DELETE /categories/:id.  The update overwrites the document by  *)
(* one built from the name alone: the status a reader then sees is the     *)
(* default again, and the author and modifiedBy are gone.                  *)
(***************************************************************************)
UpdateCategory(c, name) ==
  /\ categories[c] # None
  /\ categories' = [categories EXCEPT ![c] = NewCategory(name, None)]
  /\ UNCHANGED <<minted, approves, verdicts, task>>

DeleteCategory(c) ==
  /\ categories[c] # None
  /\ categories' = [categories EXCEPT ![c] = None]
  /\ UNCHANGED <<minted, approves, verdicts, task>>

\* The awaited call rejects or the process dies: what is written stays written.
Fail(h) ==
  /\ h \in Faulty
  /\ task[h].step # "idle"
  /\ Finish(h)
  /\ UNCHANGED <<categories, minted, approves, verdicts>>

-----------------------------------------------------------------------------
\* The steps a handler takes once its request is accepted.
Proceed(h) ==
  \/ \E a \in Requests : CreateApprove(h, a)
  \/ WriteApprove(h)
  \/ WriteCategory(h)

Next ==
  \/ \E h \in Handlers :
       \/ \E c \in Categories, name \in Names, user \in Users :
            CreateCategory(h, c, name, user)
       \/ \E a \in Requests, user \in Users :
            Approved(h, a, user) \/ Rejected(h, a, user)
       \/ Proceed(h)
       \/ Fail(h)
  \/ \E c \in Categories :
       \/ \E name \in Names : UpdateCategory(c, name)
       \/ DeleteCategory(c)

Spec == Init /\ [][Next]_vars

\* MongoDB answers every call: a handler that was started runs to its end.
FairSpec == Spec /\ \A h \in Handlers : WF_vars(Proceed(h))

-----------------------------------------------------------------------------
(* Readings of the state that the properties share.                        *)

Stored(c) == categories[c] # None
Requested(a) == approves[a] # None
IsFor(a, c) == Requested(a) /\ approves[a].newData.id = c
Decided(a) == Requested(a) /\ approves[a].status # "PENDING"

\* The status that a verdict gives to its category.
StatusOf(verdict) == IF verdict = "APPROVED" THEN "ACTIVE" ELSE "INACTIVE"

Published(c) == Stored(c) /\ categories[c].status # "PENDING"

\* The category has been overwritten by PUT, which forgets its author.
Overwritten(c) == Stored(c) /\ categories[c].author = None

Deciding(h) == task[h].step \in {"writeApprove", "writeCategory"}
Creating(h, c) == task[h].step = "createApprove" /\ task[h].newData.id = c

\* A category that is PENDING and not overwritten has a request that is pending,
\* or a handler about to write the request or the verdict.
Attended(c) ==
  \/ ~Stored(c) \/ Published(c) \/ Overwritten(c)
  \/ \E a \in Requests : IsFor(a, c) /\ ~Decided(a)
  \/ \E h \in Handlers : Creating(h, c)
  \/ \E h \in Handlers : Deciding(h) /\ task[h].newData.id = c

-----------------------------------------------------------------------------
(* Type invariant: the collections hold documents of their schemas, and    *)
(* the handlers the locals of the code.                                    *)
TypeOK ==
  /\ categories \in [Categories -> Category \union {None}]
  /\ minted \subseteq Categories
  /\ approves \in [Requests -> ApproveDocument \union {None}]
  /\ verdicts \in [Requests -> SUBSET Verdicts]
  /\ task \in [Handlers -> Task]

(* A category leaves PENDING only by a verdict: one that is ACTIVE was     *)
(* approved by somebody and one that is INACTIVE was rejected by somebody, *)
(* however the handlers of create, approve, reject, PUT and DELETE         *)
(* interleave and wherever they crash.                                     *)
PublishedByVerdict ==
  \A c \in Categories : Published(c) =>
    \E a \in Requests : /\ IsFor(a, c)
                        /\ \E v \in verdicts[a] : categories[c].status = StatusOf(v)

(* What is published is what was submitted: a category that left PENDING   *)
(* carries the name and the author of the request that was decided, even   *)
(* when a PUT changed its name between the decision's read and write.      *)
PublishedAsRequested ==
  \A c \in Categories : Published(c) =>
    \E a \in Requests : /\ IsFor(a, c)
                        /\ Decided(a)
                        /\ categories[c].name = approves[a].newData.name
                        /\ categories[c].modifiedBy = approves[a].createdBy

(* The status shown is the status decided: a category that left PENDING    *)
(* agrees with the verdict its request carries now.  It takes at most one  *)
(* decision at a time; two concurrent ones can end with a REJECTED request *)
(* and an ACTIVE category.                                                 *)
VerdictAgrees ==
  \A c \in Categories : Published(c) =>
    \E a \in Requests : /\ IsFor(a, c)
                        /\ Decided(a)
                        /\ categories[c].status = StatusOf(approves[a].status)

(* Only a pending request is acted on (findApprovePendingForAction): once  *)
(* it is decided no later call changes it.                                 *)
DecisionFinal ==
  [][\A a \in Requests : Decided(a) => approves'[a] = approves[a]]_vars

(* No category is left hanging: a category is waiting for its verdict as   *)
(* long as it is PENDING, unless a PUT overwrote it.  Of all the steps of  *)
(* create, approve, reject, PUT and DELETE only a handler that fails half  *)
(* way can leave it with nobody to decide it and nothing to decide.        *)
NeverStranded ==
  [][\A c \in Categories : Attended(c) /\ ~Attended(c)' =>
       \E h \in Faulty : Fail(h) /\ task[h].newData.id = c]_vars

(* A decision reaches its category: a handler that does not fail and has   *)
(* read a pending request publishes the category, unless the category is   *)
(* deleted or overwritten, whatever the handlers that do fail leave behind. *)
DecidedIsApplied ==
  \A h \in Handlers \ Faulty, c \in Categories :
    (Deciding(h) /\ task[h].newData.id = c) ~>
      (~Stored(c) \/ Overwritten(c) \/ Published(c))

(* A category gets its request from a handler that does not fail.          *)
CreatedIsRequested ==
  \A h \in Handlers \ Faulty, c \in Categories :
    Creating(h, c) ~> \E a \in Requests : IsFor(a, c)

-----------------------------------------------------------------------------
(* The inductive invariant behind the safety properties, part by part.     *)

\* A category is stored under an id that was drawn for it.
StoredIsMinted == \A c \in Categories : Stored(c) => c \in minted

\* Every category has at most one request, about an id that was drawn, made
\* in the name of the author it remembers.
RequestsAreDistinct ==
  /\ \A a \in Requests : Requested(a) =>
       /\ approves[a].newData.id \in minted
       /\ approves[a].createdBy = approves[a].newData.modifiedBy
  /\ \A a, b \in Requests :
       Requested(a) /\ IsFor(b, approves[a].newData.id) => a = b

\* A handler between the two writes of create is alone with its category.
CreatorsAreAlone ==
  \A h \in Handlers : task[h].step = "createApprove" =>
    /\ task[h].newData \in NewData
    /\ task[h].by = task[h].newData.modifiedBy
    /\ task[h].newData.id \in minted
    /\ \A a \in Requests : ~IsFor(a, task[h].newData.id)
    /\ \A g \in Handlers : Creating(g, task[h].newData.id) => g = h

\* What a deciding handler read of its request is still what the request says.
DecidersAreCurrent ==
  \A h \in Handlers : Deciding(h) =>
    /\ task[h].request \in Requests
    /\ task[h].verdict \in Verdicts
    /\ task[h].by \in Users
    /\ Requested(task[h].request)
    /\ task[h].newData = approves[task[h].request].newData
    /\ task[h].step = "writeCategory" => task[h].verdict \in verdicts[task[h].request]

\* A request is pending exactly as long as no verdict was written on it.
VerdictsAreRecorded ==
  \A a \in Requests :
    /\ ~Requested(a) => verdicts[a] = {}
    /\ Requested(a) /\ approves[a].status = "PENDING" => verdicts[a] = {}
    /\ Decided(a) => approves[a].status \in verdicts[a]

(* Together with the two properties of published categories this is kept   *)
(* by every step of the code.                                              *)
IInv ==
  /\ TypeOK
  /\ StoredIsMinted
  /\ RequestsAreDistinct
  /\ CreatorsAreAlone
  /\ DecidersAreCurrent
  /\ VerdictsAreRecorded
  /\ PublishedByVerdict
  /\ PublishedAsRequested

\* Only the slots of /approve hold a decision.
OnlyDecidersDecide == \A h \in Handlers : Deciding(h) => h \in Deciders

\* With one decision at a time the request a handler acts on is pending until
\* the handler writes its verdict, and carries that verdict until it is applied.
DecisionIsExclusive ==
  \A h \in Handlers :
    /\ task[h].step = "writeApprove" => approves[task[h].request].status = "PENDING"
    /\ task[h].step = "writeCategory" =>
         approves[task[h].request].status = task[h].verdict

\* At most one slot serves /approve: decisions are made one after the other.
SoleDecider == \A g, h \in Deciders : g = h

(* The inductive invariant of a system in which one slot serves /approve.  *)
SerialInv ==
  /\ IInv
  /\ OnlyDecidersDecide
  /\ DecisionIsExclusive
  /\ VerdictAgrees

-----------------------------------------------------------------------------
(* What the component promises, as two abstract specifications.            *)

\* What a reader of the category sees.
Shown == [c \in Categories |->
  IF c \notin minted THEN "NONE"
  ELSE IF Stored(c) THEN categories[c].status ELSE "GONE"]

\* The verdicts cast on a category's request so far.
Cast == [c \in Categories |-> UNION {verdicts[a] : a \in {r \in Requests : IsFor(r, c)}}]

Gate == INSTANCE ApprovalGate WITH Items <- Categories, shown <- Shown, cast <- Cast

\* Nothing but a verdict opens the gate (see ApprovalGate).
GateSpec == Gate!Spec

\* The decision counts when the category is written: until then it is pending.
Verdict == [c \in Categories |->
  IF \E a \in Requests : IsFor(a, c) /\ Decided(a)
       /\ \A h \in Handlers : ~(task[h].step = "writeCategory" /\ task[h].request = a)
  THEN approves[CHOOSE a \in Requests : IsFor(a, c)].status
  ELSE None]

Atomic == INSTANCE ApprovalAtomic
            WITH Items <- Categories, Undecided <- None, shown <- Shown, verdict <- Verdict

\* One atomic, final decision per category (see ApprovalAtomic).
AtomicSpec == Atomic!Spec

=============================================================================
