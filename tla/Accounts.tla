-------------------------------- MODULE Accounts --------------------------------
(***************************************************************************)
(* Accounts from registration to removal: POST /authentication/register    *)
(* and the first log-in with Google, which both create a user for an       *)
(* address; the links that confirm the address (email-confirmation/); and  *)
(* the profile that GET /authentication keeps in Redis for an hour         *)
(* (common/builder/cache.builder.ts).                                      *)
(*                                                                         *)
(* A handler suspended at an await is a task; the writes of other parts to *)
(* the user's document (avatar, refresh token, two-factor secret) are one  *)
(* action here, as only the copy of them in the cache matters.             *)
(***************************************************************************)
CONSTANTS
  Ids,       \* the ObjectIds the driver can draw for users
  Emails,    \* the addresses
  Profiles,  \* what the fields that getById selects can say
  Handlers,  \* the slots that serve requests
  Faulty,    \* the slots whose calls may reject, or whose process may die
  None

User == [email : Emails, google : BOOLEAN, confirmed : BOOLEAN, profile : Profiles]

\* What the guard leaves in request.user, and what the cache keeps.
Seen == [id : Ids, profile : Profiles]

Task ==
  [step : {"idle", "create", "sendLink", "setToken", "mark", "getCache", "setCache"},
   email : Emails \union {None}, google : BOOLEAN,
   id : Ids \union {None}, seen : Seen \union {None}]

ASSUME FaultyAssumption == Faulty \subseteq Handlers
ASSUME NoneAssumption ==
  None \notin Ids /\ None \notin Emails /\ None \notin User /\ None \notin Seen

VARIABLES
  users,   \* the collection "users": id -> document, or None
  minted,  \* the ids drawn so far
  linked,  \* the addresses that a confirmation link was asked for
  lost,    \* history: the addresses some handler failed to ask a link for
  cached,  \* Redis: address -> the profile kept for it, or None
  task     \* handler -> what it is doing

vars == <<users, minted, linked, lost, cached, task>>

Idle ==
  [step |-> "idle", email |-> None, google |-> FALSE, id |-> None, seen |-> None]

Finish(h) == task' = [task EXCEPT ![h] = Idle]

Start(h, t) == task[h].step = "idle" /\ task' = [task EXCEPT ![h] = t]

Holds(i, e) == users[i] # None /\ users[i].email = e
Taken(e) == \E i \in Ids : Holds(i, e)

-----------------------------------------------------------------------------
Init ==
  /\ users = [i \in Ids |-> None]
  /\ minted = {}
  /\ linked = {}
  /\ lost = {}
  /\ cached = [e \in Emails |-> None]
  /\ task = [h \in Handlers |-> Idle]

(***************************************************************************)
(* Creating an account.                                                    *)
(***************************************************************************)

\* The password is hashed before anything is looked up.
Register(h, e) ==
  /\ Start(h, [Idle EXCEPT !.step = "create", !.email = e])
  /\ UNCHANGED <<users, minted, linked, lost, cached>>

\* An address that getByEmail finds logs in; any other is created, and so is one
\* for which the look-up itself failed.
GoogleAuthenticate(h, e) ==
  /\ \/ \E i \in Ids :
          Holds(i, e) /\ Start(h, [Idle EXCEPT !.step = "setToken", !.id = i])
     \/ /\ Taken(e) => h \in Faulty
        /\ Start(h, [Idle EXCEPT !.step = "create", !.email = e, !.google = TRUE])
  /\ UNCHANGED <<users, minted, linked, lost, cached>>

\* Mutant: the schema's default is the wrong one.
NewUserConfirmed(e, google, v) ==
  [email |-> e, google |-> google, confirmed |-> TRUE, profile |-> v]

\* The fields a user is created with; the schema's default adds confirmed.
NewUser(e, google, v) ==
  [email |-> e, google |-> google, confirmed |-> FALSE, profile |-> v]

\* What follows the save: a log-in with Google, or the link of a registration.
AfterCreate(h, i) ==
  IF task[h].google
    THEN [Idle EXCEPT !.step = "setToken", !.id = i]
    ELSE [Idle EXCEPT !.step = "sendLink", !.email = task[h].email]

\* usersService.create: the document is built and saved.
CreateUser(i, e, google, v) == users' = [users EXCEPT ![i] = NewUser(e, google, v)]

\* Mutant: the schema without its unique index.
CreateNoIndex(h, i, v) ==
  /\ task[h].step = "create"
  /\ i \notin minted
  /\ minted' = minted \union {i}
  /\ users' = [users EXCEPT ![i] = NewUser(task[h].email, task[h].google, v)]
  /\ task' = [task EXCEPT ![h] = AfterCreate(h, i)]
  /\ UNCHANGED <<linked, lost, cached>>

\* Mutant: a registration answers when the user is stored.
CreateWithoutLink(h, i, v) ==
  /\ task[h].step = "create"
  /\ i \notin minted
  /\ minted' = minted \union {i}
  /\ users' = IF Taken(task[h].email) THEN users
              ELSE [users EXCEPT ![i] = NewUser(task[h].email, task[h].google, v)]
  /\ Finish(h)
  /\ UNCHANGED <<linked, lost, cached>>

\* The unique index on the address refuses a second user: the registration is
\* answered with "User with that email already exists", and the log-in with
\* Google, whose registerUser returns nothing, with an internal error.
Create(h, i, v) ==
  /\ task[h].step = "create"
  /\ i \notin minted
  /\ minted' = minted \union {i}
  /\ IF Taken(task[h].email)
       THEN Finish(h) /\ UNCHANGED users
       ELSE /\ CreateUser(i, task[h].email, task[h].google, v)
            /\ task' = [task EXCEPT ![h] = AfterCreate(h, i)]
  /\ UNCHANGED <<linked, lost, cached>>

\* Google's log-in ends with the refresh token; a user removed by now is not found.
SetCurrentRefreshToken(h, v) ==
  /\ task[h].step = "setToken"
  /\ users' = [users EXCEPT ![task[h].id] = IF @ = None THEN None ELSE [@ EXCEPT !.profile = v]]
  /\ Finish(h)
  /\ UNCHANGED <<minted, linked, lost, cached>>

(***************************************************************************)
(* Confirming the address.                                                 *)
(***************************************************************************)

\* The link names the address and not the account.  The mail itself is another
\* component's: here it is asked for.
SendVerificationLink(h) ==
  /\ task[h].step = "sendLink"
  /\ linked' = linked \union {task[h].email}
  /\ Finish(h)
  /\ UNCHANGED <<users, minted, lost, cached>>

\* getById does not select isEmailConfirmed, so that the check for a confirmed
\* address never refuses a resend.
ResendConfirmationLink(h, i) ==
  /\ users[i] # None
  /\ Start(h, [Idle EXCEPT !.step = "sendLink", !.email = users[i].email])
  /\ UNCHANGED <<users, minted, linked, lost, cached>>

\* Mutant: the address comes from the request and not from a link.
ConfirmAnyEmail(h, e) ==
  /\ \E i \in Ids : Holds(i, e) /\ ~users[i].confirmed
  /\ Start(h, [Idle EXCEPT !.step = "mark", !.email = e])
  /\ UNCHANGED <<users, minted, linked, lost, cached>>

\* A link is good until it expires, for any account that has its address.
ConfirmEmail(h, e) ==
  /\ e \in linked
  /\ \E i \in Ids : Holds(i, e) /\ ~users[i].confirmed
  /\ Start(h, [Idle EXCEPT !.step = "mark", !.email = e])
  /\ UNCHANGED <<users, minted, linked, lost, cached>>

\* findOneAndUpdate by the address: whoever has it by now is marked.
MarkEmailAsConfirmed(h) ==
  /\ task[h].step = "mark"
  /\ users' = [i \in Ids |-> IF Holds(i, task[h].email)
                               THEN [users[i] EXCEPT !.confirmed = TRUE] ELSE users[i]]
  /\ Finish(h)
  /\ UNCHANGED <<minted, linked, lost, cached>>

(***************************************************************************)
(* The profile of GET /authentication, through CacheBuilder.               *)
(***************************************************************************)
Authenticate(h, i) ==
  /\ users[i] # None
  /\ Start(h, [Idle EXCEPT !.step = "getCache", !.email = users[i].email,
                           !.seen = [id |-> i, profile |-> users[i].profile]])
  /\ UNCHANGED <<users, minted, linked, lost, cached>>

\* A hit is answered as it is; a miss is filled with what the guard has read.
GetCache(h) ==
  /\ task[h].step = "getCache"
  /\ IF cached[task[h].email] # None THEN Finish(h)
                                     ELSE task' = [task EXCEPT ![h].step = "setCache"]
  /\ UNCHANGED <<users, minted, linked, lost, cached>>

SetCache(h) ==
  /\ task[h].step = "setCache"
  /\ cached' = [cached EXCEPT ![task[h].email] = task[h].seen]
  /\ Finish(h)
  /\ UNCHANGED <<users, minted, linked, lost>>

\* Mutant: the entry is set without its ttl.
ExpireNever(e) == FALSE /\ UNCHANGED vars

\* The hour of the entry is over; answering from it does not prolong it.
ExpireProfile(e) ==
  /\ cached[e] # None
  /\ cached' = [cached EXCEPT ![e] = None]
  /\ UNCHANGED <<users, minted, linked, lost, task>>

(***************************************************************************)
(* What other parts do to the user's document, and what goes wrong.        *)
(***************************************************************************)
WriteProfile(i, v) ==
  /\ users[i] # None
  /\ users' = [users EXCEPT ![i].profile = v]
  /\ UNCHANGED <<minted, linked, lost, cached, task>>

RemoveUser(i) ==
  /\ users[i] # None
  /\ users' = [users EXCEPT ![i] = None]
  /\ UNCHANGED <<minted, linked, lost, cached, task>>

Fail(h) ==
  /\ h \in Faulty
  /\ task[h].step # "idle"
  /\ lost' = IF task[h].step = "sendLink" THEN lost \union {task[h].email} ELSE lost
  /\ Finish(h)
  /\ UNCHANGED <<users, minted, linked, cached>>

-----------------------------------------------------------------------------
Request(h) ==
  \/ \E e \in Emails : Register(h, e) \/ GoogleAuthenticate(h, e) \/ ConfirmEmail(h, e)
  \/ \E i \in Ids : ResendConfirmationLink(h, i) \/ Authenticate(h, i)

Proceed(h) ==
  \/ \E i \in Ids, v \in Profiles : Create(h, i, v)
  \/ \E v \in Profiles : SetCurrentRefreshToken(h, v)
  \/ SendVerificationLink(h)
  \/ MarkEmailAsConfirmed(h)
  \/ GetCache(h)
  \/ SetCache(h)

Next ==
  \/ \E h \in Handlers : Request(h) \/ Proceed(h) \/ Fail(h)
  \/ \E i \in Ids : RemoveUser(i) \/ \E v \in Profiles : WriteProfile(i, v)
  \/ \E e \in Emails : ExpireProfile(e)

Spec == Init /\ [][Next]_vars

\* MongoDB and Redis answer every call, and Redis drops what has expired.
FairSpec ==
  /\ Spec
  /\ \A h \in Handlers : WF_vars(Proceed(h))
  /\ \A e \in Emails : WF_vars(ExpireProfile(e))

-----------------------------------------------------------------------------
(* Type invariant.                                                         *)
TypeOK ==
  /\ users \in [Ids -> User \union {None}]
  /\ minted \subseteq Ids
  /\ linked \subseteq Emails
  /\ lost \subseteq Emails
  /\ cached \in [Emails -> Seen \union {None}]
  /\ task \in [Handlers -> Task]

(* No two accounts have one address, although registrations and log-ins    *)
(* with Google look for it, or hash a password, before they create one.    *)
EmailIsUnique ==
  \A i, j \in Ids : users[i] # None /\ users[j] # None /\ users[i].email = users[j].email
                      => i = j

(* Whoever is confirmed has an address that a link was asked for, also     *)
(* when the account that the link was for is gone.                         *)
ConfirmedByLink ==
  \A i \in Ids : users[i] # None /\ users[i].confirmed => users[i].email \in linked

(* A registration gets its link: an account with a password whose address  *)
(* has none was registered by a handler that is about to ask for it, or    *)
(* that failed right there.                                                *)
LinkIsUnderWay ==
  \A i \in Ids :
    users[i] # None /\ ~users[i].google =>
      \/ users[i].email \in linked \union lost
      \/ \E h \in Handlers : task[h].step = "sendLink" /\ task[h].email = users[i].email

\* The cache says nothing about an address, or what its account says.
Current(e) ==
  \/ cached[e] = None
  \/ LET i == cached[e].id IN Holds(i, e) /\ users[i].profile = cached[e].profile

(* Nothing invalidates a profile in the cache, and one that was read       *)
(* before a change can be put there after it; but once the accounts no     *)
(* longer change the cache ends up right for good.                         *)
ProfileSettles == []<><<users' # users>>_users \/ <>[](\A e \in Emails : Current(e))

-----------------------------------------------------------------------------
(* The inductive invariant.                                                *)

StoredIsMinted == \A i \in Ids : users[i] # None => i \in minted

\* What a handler holds at the step it stands at.
IsWhole(t) ==
  /\ t.step \in {"create", "sendLink", "mark", "getCache", "setCache"} => t.email \in Emails
  /\ t.step = "setToken" => t.id \in Ids
  /\ t.step = "mark" => t.email \in linked
  /\ t.step \in {"getCache", "setCache"} => t.seen \in Seen

TasksAreWhole == \A h \in Handlers : IsWhole(task[h])

(* What every step of the code keeps.                                      *)
IInv ==
  /\ TypeOK
  /\ StoredIsMinted
  /\ TasksAreWhole
  /\ EmailIsUnique
  /\ ConfirmedByLink
  /\ LinkIsUnderWay

-----------------------------------------------------------------------------
(* The accounts as holders of addresses.                                   *)
Holder == [e \in Emails |-> IF Taken(e) THEN CHOOSE i \in Ids : Holds(i, e) ELSE None]

Confirmed == {e \in Emails : \E i \in Ids : Holds(i, e) /\ users[i].confirmed}

Book == INSTANCE AddressBook
          WITH Addresses <- Emails, Holders <- Ids, Nobody <- None,
               holder <- Holder, invited <- linked, confirmed <- Confirmed

(* Whatever interleaves, an address is claimed, confirmed and released by  *)
(* one account at a time (see AddressBook).                                *)
BookSpec == Book!Spec
=============================================================================
