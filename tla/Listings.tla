-------------------------------- MODULE Listings --------------------------------
(***************************************************************************)
(* Collections that are read page by page while they grow and shrink: the  *)
(* messages of the chat (chat/), posts, comments, categories and requests  *)
(* for approval, all of them through ClientQuery.findForQuery.             *)
(*                                                                         *)
(* A document gets its id when the code builds it and is stored after one  *)
(* or two awaits, so that documents do not appear in the order of their    *)
(* ids.  A message that is stored is then sent to the sockets of the       *)
(* process that stored it.  A list is read in two calls, the count and the *)
(* page, and its pages are cut out of an order that only the chat asks     *)
(* for, and a client that sends a sort of its own.  Ids are numbers here;  *)
(* an ObjectId drawn by another process in the same second may be smaller  *)
(* than one drawn before.                                                  *)
(***************************************************************************)
EXTENDS ClientQuery

CONSTANTS
  Ids,        \* the ObjectIds that can be drawn
  Owners,     \* the authors of the posts, the posts that comments are of; for
              \* categories and requests, the values of a field that is asked for
  Of,         \* id -> the owner its document is created with
  MaxEdits,   \* how many edits there are, at most
  Handlers,   \* the slots that serve the requests that store a document
  At,         \* handler -> its process
  Faulty,     \* the slots whose calls may reject, or whose process may die, at an await
  Processes,  \* the processes of the cluster
  Clients,    \* the clients: one reads a list or holds a socket, not both at once
  Known,      \* those whose token is of a user
  Queries,    \* the queries a client may send with the list of posts or comments
  Limits,     \* the values of the parameter limit
  None

ASSUME IdsAssumption == IsFiniteSet(Ids) /\ Ids \subseteq Nat
ASSUME OfAssumption == Of \in [Ids -> Owners]
ASSUME QueriesAssumption == \A query \in Queries : DOMAIN query = {"_id", "of"}
ASSUME MaxEditsAssumption == MaxEdits \in Nat
ASSUME AtAssumption == At \in [Handlers -> Processes]
ASSUME LimitsAssumption == Limits \subseteq Nat \union {Absent} /\ Absent \notin Nat
ASSUME NoneAssumption == None \notin Nat \union Handlers \union Processes

VARIABLES
  collection,  \* which collection this is
  stored,      \* id -> the handler that stored the document, or None
  owner,       \* id -> the owner of its document
  edits,       \* the number of edits so far, to bound them
  drawn,       \* the ids drawn so far
  task,        \* handler -> the await it is suspended at
  walk,        \* client -> the list it reads, page after page
  socket       \* client -> its connection to the chat, and what came over it

vars == <<collection, stored, owner, edits, drawn, task, walk, socket>>

Collections == {"messages", "posts", "comments", "categories", "requests"}

Fields == {"_id", "of"}

Record(id, o) == [f \in Fields |-> IF f = "_id" THEN id ELSE o]

Doc(id) == Record(id, owner[id])

Documents == {id \in Ids : stored[id] # None}

Task == [step : {"idle", "save", "emit"}, id : Ids \union {None}]
Idle == [step |-> "idle", id |-> None]

\* A walk: how it goes on (by the id the next page must stay below, or by the
\* number of documents to skip), what it asks for, and what it was answered.
\* start, came and went are history: the documents asked for that have been there
\* since it began, and how many came and went.
Fresh(step, by, query, own, sort, limit, start) ==
  [step |-> step, by |-> by, query |-> query, own |-> own, sort |-> sort, limit |-> limit,
   cursor |-> None, offset |-> 0, page |-> {}, seen |-> {}, again |-> 0,
   pages |-> 0, announced |-> None, start |-> start, came |-> 0, went |-> 0]
NoWalk == Fresh("idle", None, None, None, None, None, {})

Socket ==
  [process : Processes \union {None}, loading : BOOLEAN,
   loaded : (SUBSET Ids) \union {None}, live : SUBSET Ids]
NoSocket == [process |-> None, loading |-> FALSE, loaded |-> None, live |-> {}]

NoQuery == [f \in Fields |-> {}]

\* The conditions of the service's own: the posts of one author, the comments of
\* one post.
NoOwn == [f \in {} |-> {}]
Own(o) == [f \in {"of"} |-> {<<"eq", o>>}]

\* What a client may ask for: the newest first, or no sort at all.
Sorts == {"desc", None}

Walk ==
  [step : {"idle", "count", "find", "read"}, by : {"cursor", "offset", None},
   query : Queries \union {NoQuery, None}, own : {Own(o) : o \in Owners} \union {NoOwn, None},
   sort : Sorts, limit : Nat \union {None}, cursor : Ids \union {None}, offset : Nat,
   page : SUBSET Ids, seen : SUBSET Ids, again : Nat, pages : Nat,
   announced : Int \union {None}, start : SUBSET Ids, came : Nat, went : Nat]

\* The filter of a walk: a cursor is a condition on _id that the chat adds.
Filter(w) ==
  MongoFilter(w.query,
    IF w.by = "cursor" /\ w.cursor # None THEN [f \in {"_id"} |-> {<<"lt", w.cursor>>}]
    ELSE w.own)

Found(w) == {id \in Documents : Matches(Doc(id), Filter(w))}

\* Does the document meet what the service and the client asked for?
Wanted(w, id) == Matches(Doc(id), MongoFilter(w.query, w.own))

\* What a walk could be answered if it were to begin now.
Meant(w) == {id \in Documents : Wanted(w, id)}

-----------------------------------------------------------------------------
Init ==
  /\ collection \in Collections
  /\ stored = [id \in Ids |-> None]
  /\ owner = Of
  /\ edits = 0
  /\ drawn = {}
  /\ task = [h \in Handlers |-> Idle]
  /\ walk = [c \in Clients |-> NoWalk]
  /\ socket = [c \in Clients |-> NoSocket]

(***************************************************************************)
(* The documents.                                                          *)
(***************************************************************************)

\* new Model(...) draws the id; populate and save are still to come.
New(h, id) ==
  /\ task[h].step = "idle"
  /\ id \notin drawn
  /\ drawn' = drawn \union {id}
  /\ task' = [task EXCEPT ![h] = [step |-> "save", id |-> id]]
  /\ UNCHANGED <<collection, stored, owner, edits, walk, socket>>

\* send_message, POST /posts, POST /comment, POST /categories and the request for
\* approval that it makes.
SaveMessage(h, id) == collection = "messages" /\ New(h, id)
CreatePost(h, id) == collection = "posts" /\ New(h, id)
CreateComment(h, id) == collection = "comments" /\ New(h, id)
CreateCategory(h, id) == collection = "categories" /\ New(h, id)
CreateRequest(h, id) == collection = "requests" /\ New(h, id)

\* What the walks under way remember when docs is what there is of a document
\* from now on.
Noted(id, docs) ==
  [c \in Clients |->
     LET w == walk[c]
         was == id \in Documents /\ Wanted(w, id)
         is == \E doc \in docs : Matches(doc, MongoFilter(w.query, w.own))
     IN IF w.step = "idle" THEN w
        ELSE [w EXCEPT !.came = IF is /\ ~was THEN @ + 1 ELSE @,
                       !.went = IF was /\ ~is THEN @ + 1 ELSE @,
                       !.start = IF is THEN @ ELSE @ \ {id}]]

\* Mutant: the message is the answer to its sender and is sent to nobody else.
SaveOnly(h) ==
  /\ task[h].step = "save"
  /\ stored' = [stored EXCEPT ![task[h].id] = h]
  /\ task' = [task EXCEPT ![h] = Idle]
  /\ walk' = Noted(task[h].id, {Doc(task[h].id)})
  /\ UNCHANGED <<collection, owner, edits, drawn, socket>>

Save(h) ==
  /\ task[h].step = "save"
  /\ stored' = [stored EXCEPT ![task[h].id] = h]
  /\ task' = [task EXCEPT ![h] =
       IF collection = "messages" THEN [step |-> "emit", id |-> task[h].id] ELSE Idle]
  /\ walk' = Noted(task[h].id, {Doc(task[h].id)})
  /\ UNCHANGED <<collection, owner, edits, drawn, socket>>

\* The sockets of a process: server.local keeps the event in it.
Local(p) == {c \in Clients : socket[c].process = p}

\* Mutant: a socket is sent what comes after its history only.
EmitToLoaded(h) ==
  /\ task[h].step = "emit"
  /\ socket' = [c \in Clients |->
       IF c \in Local(At[h]) /\ socket[c].loaded # None
       THEN [socket[c] EXCEPT !.live = @ \union {task[h].id}]
       ELSE socket[c]]
  /\ task' = [task EXCEPT ![h] = Idle]
  /\ UNCHANGED <<collection, stored, owner, edits, drawn, walk>>

Emit(h) ==
  /\ task[h].step = "emit"
  /\ socket' = [c \in Clients |->
       IF c \in Local(At[h]) THEN [socket[c] EXCEPT !.live = @ \union {task[h].id}]
       ELSE socket[c]]
  /\ task' = [task EXCEPT ![h] = Idle]
  /\ UNCHANGED <<collection, stored, owner, edits, drawn, walk>>

Fail(h) ==
  /\ h \in Faulty
  /\ task[h].step # "idle"
  /\ task' = [task EXCEPT ![h] = Idle]
  /\ UNCHANGED <<collection, stored, owner, edits, drawn, walk, socket>>

\* DELETE /posts/:id and /categories/:id.  Messages and comments are never deleted.
Delete(id) ==
  /\ collection \in {"posts", "categories"}
  /\ id \in Documents
  /\ stored' = [stored EXCEPT ![id] = None]
  /\ walk' = Noted(id, {})
  /\ UNCHANGED <<collection, owner, edits, drawn, task, socket>>

\* PUT and PATCH /posts/:id write an author as well, PUT /categories/:id every
\* field, and a decision the fields of a request.  Messages and comments are never
\* edited.
Edit(id, o) ==
  /\ collection \in {"posts", "categories", "requests"}
  /\ id \in Documents
  /\ o # owner[id]
  /\ edits < MaxEdits
  /\ edits' = edits + 1
  /\ owner' = [owner EXCEPT ![id] = o]
  /\ walk' = Noted(id, {Record(id, o)})
  /\ UNCHANGED <<collection, stored, drawn, task, socket>>

(***************************************************************************)
(* The lists.                                                              *)
(***************************************************************************)

Begin(c, by, query, own, sort, limit) ==
  /\ walk[c].step = "idle"
  /\ socket[c].process = None
  /\ LET start == {id \in Documents : Matches(Doc(id), MongoFilter(query, own))}
     IN walk' = [walk EXCEPT ![c] = Fresh("count", by, query, own, sort, Limit(limit), start)]
  /\ UNCHANGED <<collection, stored, owner, edits, drawn, task, socket>>

\* The guards let a user in: every user has the role that is asked for.
JwtGuard(c) == c \in Known
RoleGuard(c) == JwtGuard(c)

\* GET /chat: the newest messages first; the client goes on by id_lt or by skip.
GetAllMessages(c, by, limit) ==
  collection = "messages" /\ RoleGuard(c) /\ Begin(c, by, NoQuery, NoOwn, "desc", limit)

\* GET /posts; the other lists go on by offset as well, and leave the sort to the
\* client.
GetAllPosts(c, query, sort, limit) ==
  collection = "posts" /\ RoleGuard(c) /\ Begin(c, "offset", query, NoOwn, sort, limit)

\* GET /posts/me.
GetAllPostsByUser(c, query, sort, limit, user) ==
  collection = "posts" /\ RoleGuard(c) /\ Begin(c, "offset", query, Own(user), sort, limit)

FindAllByPostId(c, query, sort, limit, postId) == Begin(c, "offset", query, Own(postId), sort, limit)

\* GET /comment/:id.
GetAllComments(c, query, sort, limit, postId) ==
  collection = "comments" /\ JwtGuard(c) /\ FindAllByPostId(c, query, sort, limit, postId)

\* GET /categories.
GetAllCategories(c, query, sort, limit) ==
  collection = "categories" /\ JwtGuard(c) /\ Begin(c, "offset", query, NoOwn, sort, limit)

\* GET /approve.
GetAllApprove(c, query, sort, limit) ==
  collection = "requests" /\ JwtGuard(c) /\ Begin(c, "offset", query, NoOwn, sort, limit)

\* The chat counts every message (isGetAllPagination), the other lists count what
\* their filter finds.
GetPagination(c) ==
  /\ walk[c].step = "count"
  /\ LET w == walk[c]
         totalRows == Cardinality(IF collection = "messages" THEN Documents ELSE Found(w))
     IN walk' = [walk EXCEPT ![c] =
          [w EXCEPT !.step = "find",
                    !.announced = IF @ = None THEN TotalPages(totalRows, w.limit) ELSE @]]
  /\ UNCHANGED <<collection, stored, owner, edits, drawn, task, socket>>

\* The page is read by a second call, and answered.
FindForQuery(c) ==
  /\ walk[c].step = "find"
  /\ LET w == walk[c] IN
       \E hits \in Pages(Found(w), w.offset, w.limit, w.sort) :
         walk' = [walk EXCEPT ![c] =
          [w EXCEPT !.step = "read", !.page = hits, !.seen = @ \union hits,
                    !.again = @ + Cardinality(hits \intersect w.seen), !.pages = @ + 1]]
  /\ UNCHANGED <<collection, stored, owner, edits, drawn, task, socket>>

Least(S) == CHOOSE x \in S : \A y \in S : x <= y

\* The client asks for the page after the one it has.
NextPage(c) ==
  /\ walk[c].step = "read"
  /\ walk[c].page # {}
  /\ LET w == walk[c] IN
       walk' = [walk EXCEPT ![c] =
         IF w.by = "cursor" THEN [w EXCEPT !.step = "count", !.cursor = Least(w.page)]
         ELSE [w EXCEPT !.step = "count", !.offset = @ + w.limit]]
  /\ UNCHANGED <<collection, stored, owner, edits, drawn, task, socket>>

\* The client has read enough, or a call of its list rejected.
Stop(c) ==
  /\ walk[c].step # "idle"
  /\ walk' = [walk EXCEPT ![c] = NoWalk]
  /\ UNCHANGED <<collection, stored, owner, edits, drawn, task, socket>>

(***************************************************************************)
(* The sockets.                                                            *)
(***************************************************************************)
GetUserFromSocket(c) == c \in Known

\* A socket whose token is nobody's is left open by the exception, and hears what
\* is sent.
HandleConnection(c, p) ==
  /\ collection = "messages"
  /\ socket[c].process = None
  /\ walk[c].step = "idle"
  /\ socket' = [socket EXCEPT ![c] = [@ EXCEPT !.process = p]]
  /\ UNCHANGED <<collection, stored, owner, edits, drawn, task, walk>>

\* The client leaves, or its process dies.
HandleDisconnect(c) ==
  /\ socket[c].process # None
  /\ socket' = [socket EXCEPT ![c] = NoSocket]
  /\ UNCHANGED <<collection, stored, owner, edits, drawn, task, walk>>

RequestAllMessages(c) ==
  /\ GetUserFromSocket(c)
  /\ socket[c].process # None
  /\ ~socket[c].loading
  /\ socket' = [socket EXCEPT ![c] = [@ EXCEPT !.loading = TRUE]]
  /\ UNCHANGED <<collection, stored, owner, edits, drawn, task, walk>>

\* The newest messages, as many as the default limit.
SendAllMessages(c) ==
  /\ socket[c].loading
  /\ LET history == Page(Documents, 0, Limit(Absent))
     IN socket' = [socket EXCEPT ![c] = [@ EXCEPT !.loading = FALSE, !.loaded = history]]
  /\ UNCHANGED <<collection, stored, owner, edits, drawn, task, walk>>

-----------------------------------------------------------------------------
Proceed(h) == Save(h) \/ Emit(h)

Next ==
  \/ \E h \in Handlers, id \in Ids :
       SaveMessage(h, id) \/ CreatePost(h, id) \/ CreateComment(h, id) \/ CreateCategory(h, id)
       \/ CreateRequest(h, id)
  \/ \E h \in Handlers : Proceed(h) \/ Fail(h)
  \/ \E id \in Ids : Delete(id) \/ \E o \in Owners : Edit(id, o)
  \/ \E c \in Clients :
       \/ \E limit \in Limits :
            \/ \E by \in {"cursor", "offset"} : GetAllMessages(c, by, limit)
            \/ \E query \in Queries, sort \in Sorts :
                 \/ GetAllPosts(c, query, sort, limit) \/ GetAllCategories(c, query, sort, limit)
                 \/ GetAllApprove(c, query, sort, limit)
                 \/ \E o \in Owners :
                      \/ GetAllPostsByUser(c, query, sort, limit, o)
                      \/ GetAllComments(c, query, sort, limit, o)
       \/ GetPagination(c) \/ FindForQuery(c) \/ NextPage(c) \/ Stop(c)
       \/ (\E p \in Processes : HandleConnection(c, p)) \/ HandleDisconnect(c)
       \/ RequestAllMessages(c) \/ SendAllMessages(c)

Spec == Init /\ [][Next]_vars

\* MongoDB answers every call: a message that is being stored is stored and sent.
FairSpec == Spec /\ \A h \in Handlers : WF_vars(Proceed(h))

-----------------------------------------------------------------------------
(* Readings of the state that the properties share.                        *)

Walking(c) == walk[c].step # "idle"

\* What the walk could have read from its beginning on, and has passed by.
Missed(w) ==
  {id \in w.start \ w.seen :
     IF w.by = "cursor" THEN w.cursor # None /\ id >= w.cursor
     ELSE Cardinality(Before(Found(w), id)) < w.offset}

\* Is the document one the service and the client asked for, field by field?
IsAskedFor(id, query, own) ==
  /\ \A f \in DOMAIN own : \A d \in own[f] : Meets(Doc(id)[f], d)
  /\ (\E f \in Fields : "or" \in Operators(query[f])) =>
        \E f \in Fields : \E d \in query[f] : d[1] = "or" /\ Doc(id)[f] = d[2]
  /\ \A f \in Fields \ DOMAIN own :
       Operators(query[f]) \intersect {"or", "contains"} = {} =>
         \A d \in query[f] : Meets(Doc(id)[f], d)

\* The page just read is the last one.
AtEnd(w) == w.step = "read" /\ Cardinality(w.page) < w.limit

-----------------------------------------------------------------------------
(* Type invariant.                                                         *)
TypeOK ==
  /\ collection \in Collections
  /\ stored \in [Ids -> Handlers \union {None}]
  /\ owner \in [Ids -> Owners]
  /\ edits \in Nat
  /\ drawn \subseteq Ids
  /\ task \in [Handlers -> Task]
  /\ walk \in [Clients -> Walk]
  /\ socket \in [Clients -> Socket]

(* Going on by id_lt, a client reads no message twice and passes none by   *)
(* that was there when it began, however many messages come in between,    *)
(* with ids above and below the ones it has read; a page that is not full  *)
(* is the last one, and then it has read them all.                         *)
CursorWalkIsExact ==
  \A c \in Clients : Walking(c) /\ walk[c].by = "cursor" =>
    /\ walk[c].again = 0
    /\ Missed(walk[c]) = {}
    /\ AtEnd(walk[c]) => walk[c].start \subseteq walk[c].seen

(* Going on by offset through a list sorted by _id, the newest first, a    *)
(* client reads twice at most as many documents as came to be asked for    *)
(* since it began, and passes by at most as many of those that were there  *)
(* all along as went: deleted, or edited to something not asked for.       *)
OffsetWalkDrifts ==
  \A c \in Clients : Walking(c) /\ walk[c].by = "offset" /\ walk[c].sort = "desc" =>
    /\ walk[c].again <= walk[c].came
    /\ Cardinality(Missed(walk[c])) <= walk[c].went

(* The pages announced with the first page of a sorted list are enough:    *)
(* who has read so many has read everything that was there all along, but  *)
(* for one document at most for each that came or went since (the count    *)
(* and the pages are calls of their own).                                  *)
AnnouncedPagesSuffice ==
  \A c \in Clients :
    LET w == walk[c] IN
    w.step = "read" /\ w.sort = "desc" /\ w.pages >= w.announced =>
      Cardinality(w.start \ w.seen) <= w.came + w.went

(* In every list, sorted or not, who has read the pages announced with the *)
(* first was answered as many hits as there are documents that were there  *)
(* all along, the repeated ones counted.  Without a sort the code can      *)
(* promise no more: which documents these are is left to MongoDB.          *)
AnnouncedHitsSuffice ==
  \A c \in Clients :
    LET w == walk[c] IN
    w.step = "read" /\ w.pages >= w.announced =>
      Cardinality(w.start) <= Cardinality(w.seen) + w.again

(* A hit is, when it is read, one of the service's own (the posts of the   *)
(* user, the comments of the post), whatever the client's query says of    *)
(* the same field; it meets one of the alternatives the client joined by   *)
(* or, if any, and all conditions on a field that has neither an or nor a  *)
(* contains.                                                               *)
HitsAreAskedFor ==
  [][\A c \in Clients : walk[c].step = "find" /\ walk'[c].step = "read" =>
       \A id \in walk'[c].page : IsAskedFor(id, walk[c].query, walk[c].own)]_vars

(* A client that asked for the history over its socket has every message   *)
(* that a handler of its process stored, or gets it next, unless it is     *)
(* older than the full page it was sent: none falls between the history    *)
(* and the messages that are sent as they come.                            *)
NoGap ==
  \A c \in Clients : socket[c].loaded # None =>
    \A id \in Documents :
      \/ At[stored[id]] # socket[c].process \/ stored[id] \in Faulty
      \/ id \in socket[c].loaded \/ id \in socket[c].live
      \/ \E h \in Handlers : task[h] = [step |-> "emit", id |-> id]
      \/ /\ Cardinality(socket[c].loaded) >= DefaultLimit
         /\ \A x \in socket[c].loaded : id < x

(* A message reaches every socket that is connected to its process from    *)
(* before the message is stored until it is sent.                          *)
SentIsDelivered ==
  \A h \in Handlers \ Faulty, c \in Clients, id \in Ids :
    (task[h] = [step |-> "save", id |-> id] /\ socket[c].process = At[h]
       /\ collection = "messages") ~>
      id \in socket[c].live \/ socket[c].process # At[h]

-----------------------------------------------------------------------------
(* The inductive invariant behind these properties.                        *)

\* An id is drawn once, and names one document in the making or stored.
IdsAreDrawn ==
  /\ \A id \in Documents : id \in drawn
  /\ \A h \in Handlers :
       /\ IF task[h].step = "idle" THEN task[h].id = None ELSE task[h].id \in drawn
       /\ task[h].step = "save" => stored[task[h].id] = None
       /\ task[h].step = "emit" => stored[task[h].id] = h /\ collection = "messages"
       /\ \A g \in Handlers : task[g].id = task[h].id /\ task[h].step # "idle" => g = h

\* A socket is sent what its own process stored.
SocketsAreServed ==
  \A c \in Clients :
    /\ socket[c].process = None => socket[c] = NoSocket
    /\ socket[c].process # None => collection = "messages"
    /\ \A id \in socket[c].live :
         stored[id] # None /\ At[stored[id]] = socket[c].process

\* A walk has what it was asked with; only the chat goes on by id.
Asked(w) ==
  /\ w.step = "idle" => w = NoWalk
  /\ w.step # "idle" =>
       /\ w.by \in {"cursor", "offset"}
       /\ w.limit \in Nat \ {0}
       /\ w.query \in Queries \union {NoQuery}
       /\ w.own \in {Own(o) : o \in Owners} \union {NoOwn}
  /\ w.step # "idle" /\ w.by = "cursor" =>
       /\ collection = "messages"
       /\ w.query = NoQuery /\ w.own = NoOwn /\ w.sort = "desc" /\ w.offset = 0

WalksAreAsked == \A c \in Clients : Asked(walk[c])

\* What a walk by cursor has behind it: all that was there from its cursor up,
\* and nothing twice.
Tight(w) ==
  w.step # "idle" /\ w.by = "cursor" =>
    /\ w.again = 0
    /\ w.start \subseteq Documents
    /\ \A id \in w.start : w.cursor # None /\ id >= w.cursor => id \in w.seen
    /\ w.step \in {"count", "find"} =>
         \A id \in w.seen : w.cursor # None /\ id >= w.cursor
    /\ w.step = "read" =>
         /\ w.page \subseteq w.seen
         /\ \A id \in w.seen : id \in w.page \/ (w.cursor # None /\ id >= w.cursor)
         /\ w.cursor # None => \A id \in w.page : id < w.cursor
         /\ \A id \in w.start, x \in w.page : id >= x => id \in w.seen
         /\ Cardinality(w.page) < w.limit => w.start \subseteq w.seen

CursorsAreTight == \A c \in Clients : Tight(walk[c])

(* What every step of the code keeps.                                      *)
IInv ==
  /\ TypeOK
  /\ IdsAreDrawn
  /\ SocketsAreServed
  /\ WalksAreAsked
  /\ CursorsAreTight
  /\ NoGap

\* What a walk remembers of the documents: those asked for now were there all
\* along, or came.
Remembers(w) ==
  w.step # "idle" =>
    /\ w.start \subseteq Meant(w)
    /\ Cardinality(Meant(w) \ w.start) <= w.came
    /\ w.by = "cursor" => w.seen \subseteq Documents

\* How many documents a walk by offset has behind it, and which those are now.
Behind(w) == IF w.step = "read" THEN w.offset + w.limit ELSE w.offset
Passed(w) == Page(Found(w), 0, Behind(w))

\* In a sorted list, a document that comes pushes at most one that was read back in
\* front of the walk; one that goes pulls at most one that was not read behind it.
Drifts(w) ==
  w.step # "idle" /\ w.by = "offset" /\ w.sort = "desc" =>
    /\ w.again + Cardinality((Found(w) \ Passed(w)) \intersect w.seen) <= w.came
    /\ Cardinality((Passed(w) \intersect w.start) \ w.seen) <= w.went

\* What is announced is what there was to read, and a page answers as many hits as
\* its limit, or is the last one.
Announces(w) ==
  w.step # "idle" =>
    /\ w.step \in {"find", "read"} => w.announced # None
    /\ w.announced # None =>
         /\ w.announced \in Nat
         /\ Cardinality(w.start) <= w.announced * w.limit
         /\ w.by = "offset" =>
              Cardinality(Found(w)) <= w.announced * w.limit + w.came
    /\ w.by = "offset" => Behind(w) = w.pages * w.limit
    /\ \/ Cardinality(w.start) <= Cardinality(w.seen) + w.again
       \/ w.pages * w.limit <= Cardinality(w.seen) + w.again

(* What every step keeps as well, given IInv: the documents of a walk      *)
(* counted against those that came and went.                               *)
WalksAreCounted ==
  \A c \in Clients : Remembers(walk[c]) /\ Drifts(walk[c]) /\ Announces(walk[c])
=============================================================================
