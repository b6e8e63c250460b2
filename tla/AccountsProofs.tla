----------------------------- MODULE AccountsProofs -----------------------------
(***************************************************************************)
(* Addresses are unique, confirmed by a link and sent one, for any number  *)
(* of ids, addresses and handlers; and the accounts implement AddressBook. *)
(***************************************************************************)
EXTENDS Accounts, TLAPS

USE NoneAssumption

-----------------------------------------------------------------------------
(* The tasks.                                                              *)

LEMMA IdleTask == Idle \in Task /\ Idle.step = "idle" /\ IsWhole(Idle)
BY DEF Idle, Task, IsWhole

LEMMA FinishTask ==
  ASSUME TypeOK, NEW h \in Handlers, Finish(h)
  PROVE  /\ task' \in [Handlers -> Task]
         /\ task'[h] = Idle
         /\ \A g \in Handlers : g # h => task'[g] = task[g]
BY IdleTask DEF TypeOK, Finish

\* A link that is under way stays so, or was asked for, or is lost.
LEMMA LinksStay ==
  ASSUME IInv, NEW h \in Handlers,
         linked \subseteq linked', lost \subseteq lost',
         task[h].step = "sendLink" => task[h].email \in linked' \union lost',
         \A g \in Handlers : g # h => task'[g] = task[g]
  PROVE  \A i \in Ids : users[i] # None /\ ~users[i].google =>
           \/ users[i].email \in linked' \union lost'
           \/ \E g \in Handlers : task'[g].step = "sendLink" /\ task'[g].email = users[i].email
<1> SUFFICES ASSUME NEW i \in Ids, users[i] # None, ~users[i].google,
                    users[i].email \notin linked' \union lost'
             PROVE  \E g \in Handlers :
                      task'[g].step = "sendLink" /\ task'[g].email = users[i].email
  OBVIOUS
<1>1. PICK g \in Handlers : task[g].step = "sendLink" /\ task[g].email = users[i].email
  BY DEF IInv, LinkIsUnderWay
<1>2. g # h
  BY <1>1
<1> QED
  BY <1>1, <1>2

\* A handler takes a step that leaves the users alone.
LEMMA StepIInv ==
  ASSUME IInv, NEW h \in Handlers, TypeOK', UNCHANGED <<users, minted>>,
         linked \subseteq linked', lost \subseteq lost',
         task[h].step = "sendLink" => task[h].email \in linked' \union lost',
         \A g \in Handlers : g # h => task'[g] = task[g],
         IsWhole(task[h])'
  PROVE  IInv'
<1>1. StoredIsMinted' /\ EmailIsUnique' /\ ConfirmedByLink'
  BY DEF IInv, StoredIsMinted, EmailIsUnique, ConfirmedByLink
<1>2. TasksAreWhole'
  BY DEF IInv, TasksAreWhole, IsWhole
<1>3. LinkIsUnderWay'
  BY LinksStay DEF LinkIsUnderWay
<1> QED
  BY <1>1, <1>2, <1>3 DEF IInv

LEMMA InitIInv == Init => IInv
<1> SUFFICES ASSUME Init PROVE IInv
  OBVIOUS
<1>1. TypeOK
  BY IdleTask DEF Init, TypeOK
<1>2. TasksAreWhole
  BY IdleTask DEF Init, TasksAreWhole
<1> QED
  BY <1>1, <1>2 DEF Init, IInv, StoredIsMinted, EmailIsUnique, ConfirmedByLink, LinkIsUnderWay

-----------------------------------------------------------------------------
(* One lemma per action, or per kind of action: it keeps the invariant.    *)

LEMMA StartIInv ==
  ASSUME IInv, NEW h \in Handlers, NEW t \in Task, IsWhole(t), Start(h, t),
         UNCHANGED <<users, minted, linked, lost, cached>>
  PROVE  IInv'
<1>1. /\ task[h].step = "idle" /\ task' \in [Handlers -> Task] /\ task'[h] = t
      /\ \A g \in Handlers : g # h => task'[g] = task[g]
  BY DEF Start, IInv, TypeOK
<1>2. TypeOK'
  BY <1>1 DEF IInv, TypeOK
<1>3. IsWhole(task[h])'
  BY <1>1 DEF IsWhole
<1> QED
  BY <1>1, <1>2, <1>3, StepIInv

LEMMA RequestIInv ==
  ASSUME IInv, NEW h \in Handlers, Request(h)
  PROVE  IInv'
<1>1. ASSUME NEW e \in Emails, Register(h, e)
      PROVE  IInv'
  <2> DEFINE t == [Idle EXCEPT !.step = "create", !.email = e]
  <2>1. t \in Task /\ IsWhole(t)
    BY DEF Idle, Task, IsWhole
  <2> QED
    BY <1>1, <2>1, StartIInv DEF Register
<1>2. ASSUME NEW e \in Emails, GoogleAuthenticate(h, e)
      PROVE  IInv'
  <2> DEFINE t == [Idle EXCEPT !.step = "create", !.email = e, !.google = TRUE]
             u(i) == [Idle EXCEPT !.step = "setToken", !.id = i]
  <2>1. t \in Task /\ IsWhole(t)
    BY DEF Idle, Task, IsWhole
  <2>2. \A i \in Ids : u(i) \in Task /\ IsWhole(u(i))
    BY DEF Idle, Task, IsWhole
  <2> QED
    BY <1>2, <2>1, <2>2, StartIInv DEF GoogleAuthenticate
<1>3. ASSUME NEW e \in Emails, ConfirmEmail(h, e)
      PROVE  IInv'
  <2> DEFINE t == [Idle EXCEPT !.step = "mark", !.email = e]
  <2>1. t \in Task /\ IsWhole(t)
    BY <1>3 DEF Idle, Task, IsWhole, ConfirmEmail
  <2> QED
    BY <1>3, <2>1, StartIInv DEF ConfirmEmail
<1>4. ASSUME NEW i \in Ids, ResendConfirmationLink(h, i)
      PROVE  IInv'
  <2> DEFINE t == [Idle EXCEPT !.step = "sendLink", !.email = users[i].email]
  <2>1. users[i].email \in Emails
    BY <1>4 DEF ResendConfirmationLink, IInv, TypeOK, User
  <2>2. t \in Task /\ IsWhole(t)
    BY <2>1 DEF Idle, Task, IsWhole
  <2> QED
    BY <1>4, <2>2, StartIInv DEF ResendConfirmationLink
<1>5. ASSUME NEW i \in Ids, Authenticate(h, i)
      PROVE  IInv'
  <2> DEFINE t == [Idle EXCEPT !.step = "getCache", !.email = users[i].email,
                               !.seen = [id |-> i, profile |-> users[i].profile]]
  <2>1. users[i].email \in Emails /\ users[i].profile \in Profiles
    BY <1>5 DEF Authenticate, IInv, TypeOK, User
  <2>2. t \in Task /\ IsWhole(t)
    BY <2>1 DEF Idle, Task, IsWhole, Seen
  <2> QED
    BY <1>5, <2>2, StartIInv DEF Authenticate
<1> QED
  BY <1>1, <1>2, <1>3, <1>4, <1>5 DEF Request

LEMMA CreateIInv ==
  ASSUME IInv, NEW h \in Handlers, NEW i \in Ids, NEW v \in Profiles, Create(h, i, v)
  PROVE  IInv'
<1> DEFINE e == task[h].email
           u == NewUser(e, task[h].google, v)
<1>1. /\ e \in Emails /\ task[h] \in Task /\ task[h].step = "create"
      /\ i \notin minted /\ minted' = minted \union {i}
      /\ linked' = linked /\ lost' = lost /\ cached' = cached
  BY DEF Create, CreateUser, IInv, TypeOK, TasksAreWhole, IsWhole
<1>2. CASE Taken(e)
  <2>1. users' = users /\ Finish(h)
    BY <1>2 DEF Create, CreateUser
  <2>2. /\ task' \in [Handlers -> Task] /\ task'[h] = Idle
        /\ \A g \in Handlers : g # h => task'[g] = task[g]
    BY <2>1, FinishTask DEF IInv
  <2>3. TypeOK' /\ StoredIsMinted' /\ EmailIsUnique' /\ ConfirmedByLink'
    BY <1>1, <2>1, <2>2 DEF IInv, TypeOK, StoredIsMinted, EmailIsUnique, ConfirmedByLink
  <2>4. TasksAreWhole'
    BY <1>1, <2>2, IdleTask DEF IInv, TasksAreWhole, IsWhole
  <2>5. LinkIsUnderWay'
    BY <1>1, <2>1, <2>2, LinksStay DEF LinkIsUnderWay
  <2> QED
    BY <2>3, <2>4, <2>5 DEF IInv
<1>3. CASE ~Taken(e)
  <2>1. /\ u \in User /\ u # None /\ u.email = e /\ u.google = task[h].google
        /\ ~u.confirmed
    <3>1. u.email = e /\ u.google = task[h].google /\ ~u.confirmed
      BY DEF NewUser
    <3>2. u \in User
      BY <1>1 DEF NewUser, User, Task
    <3> QED
      BY <3>1, <3>2
  <2> HIDE DEF u
  <2>2. users[i] = None /\ users' = [users EXCEPT ![i] = u]
    BY <1>1, <1>3 DEF Create, CreateUser, IInv, StoredIsMinted, u
  <2>3. /\ AfterCreate(h, i) \in Task /\ IsWhole(AfterCreate(h, i))
        /\ ~task[h].google => /\ AfterCreate(h, i).step = "sendLink"
                              /\ AfterCreate(h, i).email = e
    BY <1>1 DEF AfterCreate, Idle, Task, IsWhole
  <2>4. /\ task' \in [Handlers -> Task] /\ task'[h] = AfterCreate(h, i)
        /\ \A g \in Handlers : g # h => task'[g] = task[g]
    BY <1>3, <2>3 DEF Create, CreateUser, IInv, TypeOK
  <2>5. TypeOK'
    BY <1>1, <2>1, <2>2, <2>4 DEF IInv, TypeOK
  <2>6. users'[i] = u /\ \A j \in Ids : j # i => users'[j] = users[j]
    BY <2>2 DEF IInv, TypeOK
  <2>7. StoredIsMinted' /\ ConfirmedByLink'
    BY <1>1, <2>1, <2>6 DEF IInv, StoredIsMinted, ConfirmedByLink
  <2>8. EmailIsUnique'
    BY <1>3, <2>1, <2>6 DEF IInv, EmailIsUnique, Taken, Holds
  <2>9. TasksAreWhole'
    BY <1>1, <2>3, <2>4 DEF IInv, TasksAreWhole, IsWhole
  <2>10. LinkIsUnderWay'
    <3>1. \A j \in Ids : users[j] # None /\ ~users[j].google =>
            \/ users[j].email \in linked' \union lost'
            \/ \E g \in Handlers : task'[g].step = "sendLink" /\ task'[g].email = users[j].email
      BY <1>1, <2>4, LinksStay
    <3>2. ~u.google => task'[h].step = "sendLink" /\ task'[h].email = u.email
      BY <2>1, <2>3, <2>4
    <3> QED
      BY <2>6, <3>1, <3>2 DEF LinkIsUnderWay
  <2> QED
    BY <2>5, <2>7, <2>8, <2>9, <2>10 DEF IInv
<1> QED
  BY <1>2, <1>3

\* A write to users that are there, of fields other than the address.
LEMMA WriteUsersIInv ==
  ASSUME IInv, NEW h \in Handlers, TypeOK',
         UNCHANGED <<minted, linked, lost>>,
         \A i \in Ids : users'[i] # None =>
           /\ users[i] # None
           /\ users'[i].email = users[i].email
           /\ users'[i].google = users[i].google
           /\ users'[i].confirmed => users[i].confirmed \/ users[i].email \in linked,
         \A g \in Handlers : task'[g] = task[g] \/ task'[g] = Idle,
         \A g \in Handlers : task[g].step = "sendLink" => task'[g] = task[g]
  PROVE  IInv'
<1>1. StoredIsMinted' /\ EmailIsUnique' /\ ConfirmedByLink'
  BY DEF IInv, StoredIsMinted, EmailIsUnique, ConfirmedByLink
<1>2. TasksAreWhole'
  BY IdleTask DEF IInv, TasksAreWhole, IsWhole
<1>3. LinkIsUnderWay'
  BY DEF IInv, LinkIsUnderWay
<1> QED
  BY <1>1, <1>2, <1>3 DEF IInv

LEMMA SetCurrentRefreshTokenIInv ==
  ASSUME IInv, NEW h \in Handlers, NEW v \in Profiles, SetCurrentRefreshToken(h, v)
  PROVE  IInv'
<1>1. /\ task' \in [Handlers -> Task] /\ task'[h] = Idle
      /\ \A g \in Handlers : g # h => task'[g] = task[g]
      /\ task[h].step = "setToken" /\ task[h].id \in Ids
      /\ UNCHANGED <<minted, linked, lost, cached>>
  BY FinishTask DEF SetCurrentRefreshToken, IInv, TasksAreWhole, IsWhole
<1>2. \A i \in Ids : users'[i] =
        IF i = task[h].id /\ users[i] # None THEN [users[i] EXCEPT !.profile = v] ELSE users[i]
  BY <1>1 DEF SetCurrentRefreshToken, IInv, TypeOK
<1>3. \A i \in Ids : users[i] # None =>
        /\ users[i] \in User
        /\ [users[i] EXCEPT !.profile = v] \in User
        /\ [users[i] EXCEPT !.profile = v].email = users[i].email
        /\ [users[i] EXCEPT !.profile = v].google = users[i].google
        /\ [users[i] EXCEPT !.profile = v].confirmed = users[i].confirmed
  BY DEF IInv, TypeOK, User
<1>4. TypeOK'
  <2>1. users' \in [Ids -> User \union {None}]
    BY <1>1, <1>2, <1>3 DEF SetCurrentRefreshToken, IInv, TypeOK
  <2> QED
    BY <1>1, <2>1 DEF IInv, TypeOK
<1> QED
  BY <1>1, <1>2, <1>3, <1>4, WriteUsersIInv

LEMMA MarkEmailAsConfirmedIInv ==
  ASSUME IInv, NEW h \in Handlers, MarkEmailAsConfirmed(h)
  PROVE  IInv'
<1>1. /\ task' \in [Handlers -> Task] /\ task'[h] = Idle
      /\ \A g \in Handlers : g # h => task'[g] = task[g]
      /\ task[h].step = "mark" /\ task[h].email \in linked
      /\ UNCHANGED <<minted, linked, lost, cached>>
  BY FinishTask DEF MarkEmailAsConfirmed, IInv, TasksAreWhole, IsWhole
<1>2. \A i \in Ids : users[i] # None =>
        /\ users[i] \in User
        /\ [users[i] EXCEPT !.confirmed = TRUE] \in User
        /\ [users[i] EXCEPT !.confirmed = TRUE].email = users[i].email
        /\ [users[i] EXCEPT !.confirmed = TRUE].google = users[i].google
  BY DEF IInv, TypeOK, User
<1>3. users' = [i \in Ids |-> IF Holds(i, task[h].email)
                               THEN [users[i] EXCEPT !.confirmed = TRUE] ELSE users[i]]
  BY DEF MarkEmailAsConfirmed
<1>4. TypeOK'
  BY <1>1, <1>2, <1>3 DEF IInv, TypeOK, Holds
<1> QED
  BY <1>1, <1>2, <1>3, <1>4, WriteUsersIInv DEF Holds

LEMMA OtherStepsIInv ==
  ASSUME IInv, NEW h \in Handlers,
         SendVerificationLink(h) \/ GetCache(h) \/ SetCache(h) \/ Fail(h)
  PROVE  IInv'
<1>1. UNCHANGED <<users, minted>> /\ linked \subseteq linked' /\ lost \subseteq lost'
  BY DEF SendVerificationLink, GetCache, SetCache, Fail
<1>2. task[h].step = "sendLink" => task[h].email \in linked' \union lost'
  BY DEF SendVerificationLink, GetCache, SetCache, Fail
<1>3. /\ task' \in [Handlers -> Task]
      /\ \A g \in Handlers : g # h => task'[g] = task[g]
      /\ IsWhole(task[h])'
  <2>1. CASE Finish(h)
    BY <2>1, FinishTask, IdleTask DEF IInv, IsWhole, Idle
  <2>2. CASE GetCache(h) /\ task' = [task EXCEPT ![h].step = "setCache"]
    <3>1. task[h] \in Task /\ IsWhole(task[h]) /\ task[h].step = "getCache"
      BY <2>2 DEF GetCache, IInv, TypeOK, TasksAreWhole
    <3>2. [task[h] EXCEPT !.step = "setCache"] \in Task
      BY <3>1 DEF Task
    <3>3. task'[h] = [task[h] EXCEPT !.step = "setCache"]
      BY <2>2 DEF IInv, TypeOK
    <3>4. task' \in [Handlers -> Task] /\ \A g \in Handlers : g # h => task'[g] = task[g]
      BY <2>2, <3>2 DEF IInv, TypeOK
    <3>5. IsWhole(task[h])'
      BY <3>1, <3>3 DEF IsWhole, Task
    <3> QED
      BY <3>4, <3>5
  <2> QED
    BY <2>1, <2>2 DEF SendVerificationLink, GetCache, SetCache, Fail
<1>4. TypeOK'
  <2>1. linked' \subseteq Emails /\ lost' \subseteq Emails
    BY DEF SendVerificationLink, GetCache, SetCache, Fail, IInv, TypeOK, TasksAreWhole, IsWhole
  <2>2. cached' \in [Emails -> Seen \union {None}]
    BY DEF SendVerificationLink, GetCache, SetCache, Fail, IInv, TypeOK, TasksAreWhole, IsWhole
  <2> QED
    BY <1>1, <1>3, <2>1, <2>2 DEF IInv, TypeOK
<1> QED
  BY <1>1, <1>2, <1>3, <1>4, StepIInv

LEMMA EnvironmentIInv ==
  ASSUME IInv,
         \/ \E i \in Ids : RemoveUser(i) \/ \E v \in Profiles : WriteProfile(i, v)
         \/ \E e \in Emails : ExpireProfile(e)
         \/ UNCHANGED vars
  PROVE  IInv'
<1>1. UNCHANGED <<minted, linked, lost, task>>
  BY DEF RemoveUser, WriteProfile, ExpireProfile, vars
<1>2. \A i \in Ids, v \in Profiles : users[i] # None =>
        /\ users[i] \in User
        /\ [users[i] EXCEPT !.profile = v] \in User
        /\ [users[i] EXCEPT !.profile = v].email = users[i].email
        /\ [users[i] EXCEPT !.profile = v].google = users[i].google
        /\ [users[i] EXCEPT !.profile = v].confirmed = users[i].confirmed
  BY DEF IInv, TypeOK, User
<1>3. \A j \in Ids : users'[j] # None =>
        /\ users[j] # None
        /\ users'[j] = users[j] \/ \E v \in Profiles : users'[j] = [users[j] EXCEPT !.profile = v]
  BY DEF RemoveUser, WriteProfile, ExpireProfile, vars, IInv, TypeOK
<1>4. users' \in [Ids -> User \union {None}]
  BY <1>2 DEF RemoveUser, WriteProfile, ExpireProfile, vars, IInv, TypeOK
<1>5. cached' \in [Emails -> Seen \union {None}]
  BY DEF RemoveUser, WriteProfile, ExpireProfile, vars, IInv, TypeOK
<1>6. StoredIsMinted' /\ EmailIsUnique' /\ ConfirmedByLink' /\ LinkIsUnderWay'
  <2>1. \A j \in Ids : users'[j] # None =>
          /\ users[j] # None
          /\ users'[j].email = users[j].email
          /\ users'[j].google = users[j].google
          /\ users'[j].confirmed = users[j].confirmed
    <3> SUFFICES ASSUME NEW j \in Ids, users'[j] # None
                 PROVE  /\ users[j] # None
                        /\ users'[j].email = users[j].email
                        /\ users'[j].google = users[j].google
                        /\ users'[j].confirmed = users[j].confirmed
      OBVIOUS
    <3>1. CASE users'[j] = users[j]
      BY <3>1
    <3>2. ASSUME NEW v \in Profiles, users'[j] = [users[j] EXCEPT !.profile = v]
          PROVE  /\ users'[j].email = users[j].email
                 /\ users'[j].google = users[j].google
                 /\ users'[j].confirmed = users[j].confirmed
      <4>1. users[j] # None
        BY <1>3
      <4> QED
        BY <1>2, <3>2, <4>1
    <3> QED
      BY <1>3, <3>1, <3>2
  <2>2. StoredIsMinted' /\ EmailIsUnique' /\ ConfirmedByLink'
    BY <1>1, <2>1 DEF IInv, StoredIsMinted, EmailIsUnique, ConfirmedByLink
  <2>3. LinkIsUnderWay'
    BY <1>1, <2>1 DEF IInv, LinkIsUnderWay
  <2> QED
    BY <2>2, <2>3
<1>7. TypeOK' /\ TasksAreWhole'
  BY <1>1, <1>4, <1>5 DEF IInv, TypeOK, TasksAreWhole, IsWhole
<1> QED
  BY <1>6, <1>7 DEF IInv

LEMMA NextIInv == IInv /\ [Next]_vars => IInv'
<1> SUFFICES ASSUME IInv, [Next]_vars PROVE IInv'
  OBVIOUS
<1>1. ASSUME NEW h \in Handlers, Request(h)
      PROVE  IInv'
  BY <1>1, RequestIInv
<1>2. ASSUME NEW h \in Handlers, Proceed(h)
      PROVE  IInv'
  BY <1>2, CreateIInv, SetCurrentRefreshTokenIInv, MarkEmailAsConfirmedIInv, OtherStepsIInv
     DEF Proceed
<1>3. ASSUME NEW h \in Handlers, Fail(h)
      PROVE  IInv'
  BY <1>3, OtherStepsIInv
<1> QED
  BY <1>1, <1>2, <1>3, EnvironmentIInv DEF Next

-----------------------------------------------------------------------------
(* The inductive invariant holds in every reachable state.                 *)
THEOREM Invariance == Spec => []IInv
<1>1. Init => IInv
  BY InitIInv
<1>2. IInv /\ [Next]_vars => IInv'
  BY NextIInv
<1> QED
  BY <1>1, <1>2, PTL DEF Spec

(* No two accounts have one address, whatever registrations and log-ins    *)
(* with Google race for it.                                                *)
THEOREM AddressesAreUnique == Spec => []EmailIsUnique
<1>1. IInv => EmailIsUnique
  BY DEF IInv
<1> QED
  BY <1>1, Invariance, PTL

(* An account that is confirmed has an address that a link was asked for.  *)
THEOREM ConfirmationNeedsLink == Spec => []ConfirmedByLink
<1>1. IInv => ConfirmedByLink
  BY DEF IInv
<1> QED
  BY <1>1, Invariance, PTL

(* A registration gets its link: an account with a password has had a link *)
(* asked for its address, unless the handler that registered it is just    *)
(* about to ask, or failed there (register creates the account and calls   *)
(* sendVerificationLink after it).                                         *)
THEOREM RegistrationsGetLinks == Spec => []LinkIsUnderWay
<1>1. IInv => LinkIsUnderWay
  BY DEF IInv
<1> QED
  BY <1>1, Invariance, PTL

-----------------------------------------------------------------------------
(* The refinement of AddressBook.                                          *)

\* The one account that has an address is its holder.
LEMMA HolderAt ==
  /\ \A e \in Emails : ~Taken(e) => Holder[e] = None
  /\ EmailIsUnique => \A e \in Emails, i \in Ids : Holds(i, e) => Holder[e] = i
  /\ Holder = [e \in Emails |-> Holder[e]]
<1>1. \A e \in Emails : ~Taken(e) => Holder[e] = None
  BY DEF Holder
<1>2. ASSUME EmailIsUnique, NEW e \in Emails, NEW i \in Ids, Holds(i, e)
      PROVE  Holder[e] = i
  <2>1. \A j \in Ids : Holds(j, e) => j = i
    BY <1>2 DEF EmailIsUnique, Holds
  <2>2. Taken(e)
    BY <1>2 DEF Taken
  <2>3. Holder[e] = CHOOSE j \in Ids : Holds(j, e)
    BY <2>2 DEF Holder
  <2> QED
    BY <1>2, <2>1, <2>3
<1>3. Holder = [e \in Emails |-> Holder[e]]
  BY DEF Holder
<1> QED
  BY <1>1, <1>2, <1>3

\* The same of the next state.
LEMMA NextHolderAt ==
  ASSUME IInv'
  PROVE  /\ \A e \in Emails : ~Taken(e)' => Holder'[e] = None
         /\ \A e \in Emails, i \in Ids : Holds(i, e)' => Holder'[e] = i
         /\ Holder' = [e \in Emails |-> Holder'[e]]
<1>1. \A e \in Emails : ~Taken(e)' => Holder'[e] = None
  BY DEF Holder
<1>2. ASSUME NEW e \in Emails, NEW i \in Ids, Holds(i, e)'
      PROVE  Holder'[e] = i
  <2>1. \A j \in Ids : Holds(j, e)' => j = i
    BY <1>2 DEF IInv, EmailIsUnique, Holds
  <2>2. Taken(e)'
    BY <1>2 DEF Taken
  <2>3. Holder'[e] = CHOOSE j \in Ids : Holds(j, e)'
    BY <2>2 DEF Holder
  <2> QED
    BY <1>2, <2>1, <2>3
<1>3. Holder' = [e \in Emails |-> Holder'[e]]
  BY DEF Holder
<1> QED
  BY <1>1, <1>2, <1>3

\* Who holds an address and who is confirmed is all that the book reads.
LEMMA SameHolders ==
  ASSUME IInv, IInv',
         \A i \in Ids, e \in Emails : Holds(i, e)' <=> Holds(i, e)
  PROVE  Holder' = Holder
<1>1. \A e \in Emails : Holder'[e] = Holder[e]
  BY HolderAt, NextHolderAt DEF IInv, Taken
<1> QED
  BY <1>1, HolderAt, NextHolderAt

LEMMA CreateBook ==
  ASSUME IInv, IInv', NEW h \in Handlers, NEW i \in Ids, NEW v \in Profiles, Create(h, i, v)
  PROVE  [Book!Next]_Book!vars
<1> DEFINE e == task[h].email
           u == NewUser(e, task[h].google, v)
<1>1. e \in Emails /\ users[i] = None /\ linked' = linked
  BY DEF Create, CreateUser, IInv, TasksAreWhole, IsWhole, StoredIsMinted
<1>2. CASE Taken(e)
  <2>1. users' = users
    BY <1>2 DEF Create, CreateUser
  <2> QED
    BY <1>1, <2>1 DEF Book!vars, Holder, Confirmed, Taken, Holds
<1>3. CASE ~Taken(e)
  <2>1. users'[i] = u /\ \A j \in Ids : j # i => users'[j] = users[j]
    BY <1>3 DEF Create, CreateUser, IInv, TypeOK
  <2>2. u.email = e /\ ~u.confirmed
    BY DEF NewUser
  <2>3. u # None
    <3>1. u \in User
      BY <1>1 DEF NewUser, User, Create, IInv, TypeOK, Task
    <3> QED
      BY <3>1
  <2> HIDE DEF u
  <2>4. \A j \in Ids, d \in Emails : Holds(j, d)' <=> (Holds(j, d) \/ (j = i /\ d = e))
    BY <1>1, <2>1, <2>2, <2>3 DEF Holds
  <2>5. Holder[e] = None /\ Holder'[e] = i /\ \A d \in Emails : d # e => Holder'[d] = Holder[d]
    <3>1. Holder[e] = None /\ Holder'[e] = i
      BY <1>1, <1>3, <2>4, HolderAt, NextHolderAt
    <3>2. ASSUME NEW d \in Emails, d # e
          PROVE  Holder'[d] = Holder[d]
      <4>1. \A j \in Ids : Holds(j, d)' <=> Holds(j, d)
        BY <2>4, <3>2
      <4>2. CASE Taken(d)
        BY <4>1, <4>2, HolderAt, NextHolderAt DEF Taken, IInv
      <4>3. CASE ~Taken(d)
        BY <4>1, <4>3, HolderAt, NextHolderAt DEF Taken
      <4> QED
        BY <4>2, <4>3
    <3> QED
      BY <3>1, <3>2
  <2>6. Holder' = [Holder EXCEPT ![e] = i]
    BY <2>5, HolderAt, NextHolderAt
  <2>7. Confirmed' = Confirmed
    BY <1>1, <2>1, <2>2, <2>4 DEF Confirmed, Holds
  <2> QED
    BY <1>1, <2>5, <2>6, <2>7 DEF Book!Next, Book!Claim
<1> QED
  BY <1>2, <1>3

LEMMA MarkBook ==
  ASSUME IInv, IInv', NEW h \in Handlers, MarkEmailAsConfirmed(h)
  PROVE  [Book!Next]_Book!vars
<1> DEFINE e == task[h].email
<1>1. e \in Emails /\ e \in linked /\ linked' = linked
  BY DEF MarkEmailAsConfirmed, IInv, TasksAreWhole, IsWhole
<1>2. \A i \in Ids : users'[i] =
        IF Holds(i, e) THEN [users[i] EXCEPT !.confirmed = TRUE] ELSE users[i]
  BY DEF MarkEmailAsConfirmed
<1>3. \A i \in Ids : users[i] # None =>
        /\ [users[i] EXCEPT !.confirmed = TRUE].email = users[i].email
        /\ [users[i] EXCEPT !.confirmed = TRUE].confirmed
        /\ [users[i] EXCEPT !.confirmed = TRUE] # None
  <2>1. \A i \in Ids : users[i] # None => users[i] \in User
    BY DEF IInv, TypeOK
  <2>2. \A u \in User : /\ [u EXCEPT !.confirmed = TRUE] \in User
                       /\ [u EXCEPT !.confirmed = TRUE].email = u.email
                       /\ [u EXCEPT !.confirmed = TRUE].confirmed
    BY DEF User
  <2> QED
    BY <2>1, <2>2
<1>4. \A i \in Ids, d \in Emails : Holds(i, d)' <=> Holds(i, d)
  BY <1>2, <1>3 DEF Holds
<1>5. Holder' = Holder
  BY <1>4, SameHolders
<1>6. CASE Taken(e)
  <2>1. Holder[e] # None
    BY <1>1, <1>6, HolderAt DEF Taken, IInv
  <2>2. Confirmed' = Confirmed \union {e}
    <3>1. \A d \in Emails : d # e => \A i \in Ids : Holds(i, d) => users'[i] = users[i]
      BY <1>2 DEF Holds
    <3>2. \A i \in Ids : Holds(i, e) => users'[i].confirmed
      BY <1>2, <1>3 DEF Holds
    <3> QED
      BY <1>1, <1>4, <1>6, <3>1, <3>2 DEF Confirmed, Taken
  <2> QED
    BY <1>1, <1>5, <2>1, <2>2 DEF Book!Next, Book!Confirm
<1>7. CASE ~Taken(e)
  <2>1. \A i \in Ids : users'[i] = users[i]
    BY <1>2, <1>7 DEF Taken
  <2>2. Confirmed' = Confirmed
    BY <2>1 DEF Confirmed, Holds
  <2> QED
    BY <1>1, <1>5, <2>2 DEF Book!vars
<1> QED
  BY <1>6, <1>7

LEMMA RemoveBook ==
  ASSUME IInv, IInv', NEW i \in Ids, RemoveUser(i)
  PROVE  [Book!Next]_Book!vars
<1> DEFINE e == users[i].email
<1>1. /\ users[i] # None /\ e \in Emails /\ linked' = linked
      /\ users'[i] = None /\ \A j \in Ids : j # i => users'[j] = users[j]
  BY DEF RemoveUser, IInv, TypeOK, User
<1>2. \A j \in Ids : Holds(j, e) => j = i
  BY <1>1 DEF IInv, EmailIsUnique, Holds
<1>3. \A j \in Ids, d \in Emails : Holds(j, d)' <=> (Holds(j, d) /\ d # e)
  BY <1>1, <1>2 DEF Holds
<1>4. Holder[e] # None /\ Holder'[e] = None
  BY <1>1, <1>3, HolderAt, NextHolderAt DEF IInv, Taken, Holds
<1>5. ASSUME NEW d \in Emails, d # e
      PROVE  Holder'[d] = Holder[d]
  <2>1. \A j \in Ids : Holds(j, d)' <=> Holds(j, d)
    BY <1>3, <1>5
  <2>2. CASE Taken(d)
    BY <2>1, <2>2, HolderAt, NextHolderAt DEF Taken, IInv
  <2>3. CASE ~Taken(d)
    BY <2>1, <2>3, HolderAt, NextHolderAt DEF Taken
  <2> QED
    BY <2>2, <2>3
<1>6. Holder' = [Holder EXCEPT ![e] = None]
  BY <1>4, <1>5, HolderAt, NextHolderAt
<1>7. Confirmed' = Confirmed \ {e}
  BY <1>1, <1>3 DEF Confirmed, Holds
<1> QED
  BY <1>1, <1>4, <1>6, <1>7 DEF Book!Next, Book!Release

\* A write to a profile changes neither the address nor the confirmation.
LEMMA ProfileBook ==
  ASSUME IInv, IInv', linked' = linked,
         \A j \in Ids : users'[j] = users[j] \/
           (users[j] # None /\ \E v \in Profiles : users'[j] = [users[j] EXCEPT !.profile = v])
  PROVE  UNCHANGED Book!vars
<1>1. \A j \in Ids : users[j] # None => users[j] \in User
  BY DEF IInv, TypeOK
<1>2. \A u \in User, v \in Profiles :
        /\ [u EXCEPT !.profile = v] \in User
        /\ [u EXCEPT !.profile = v].email = u.email
        /\ [u EXCEPT !.profile = v].confirmed <=> u.confirmed
  BY DEF User
<1>3. \A j \in Ids :
        /\ users'[j] = None <=> users[j] = None
        /\ users[j] # None => /\ users'[j].email = users[j].email
                              /\ users'[j].confirmed <=> users[j].confirmed
  <2> SUFFICES ASSUME NEW j \in Ids
               PROVE  /\ users'[j] = None <=> users[j] = None
                      /\ users[j] # None => /\ users'[j].email = users[j].email
                                            /\ users'[j].confirmed <=> users[j].confirmed
    OBVIOUS
  <2>1. CASE users'[j] = users[j]
    BY <2>1
  <2>2. ASSUME users[j] # None, NEW v \in Profiles, users'[j] = [users[j] EXCEPT !.profile = v]
        PROVE  /\ users'[j] # None
               /\ users'[j].email = users[j].email
               /\ users'[j].confirmed <=> users[j].confirmed
    <3>1. users[j] \in User
      BY <1>1, <2>2
    <3>2. users'[j] \in User /\ users'[j].email = users[j].email
      BY <1>2, <2>2, <3>1
    <3>3. users'[j].confirmed <=> users[j].confirmed
      BY <1>2, <2>2, <3>1
    <3> QED
      BY <3>2, <3>3, NoneAssumption
  <2> QED
    BY <2>1, <2>2
<1>4. \A j \in Ids, e \in Emails : Holds(j, e)' <=> Holds(j, e)
  BY <1>3 DEF Holds
<1>5. Holder' = Holder
  BY <1>4, SameHolders
<1>6. Confirmed' = Confirmed
  BY <1>3 DEF Confirmed, Holds
<1> QED
  BY <1>5, <1>6 DEF Book!vars

LEMMA InitBook == Init => Book!Init
BY DEF Init, Book!Init, Holder, Confirmed, Taken, Holds

LEMMA NextBook == IInv /\ IInv' /\ [Next]_vars => [Book!Next]_Book!vars
<1> SUFFICES ASSUME IInv, IInv', [Next]_vars PROVE [Book!Next]_Book!vars
  OBVIOUS
<1>1. ASSUME UNCHANGED <<users, linked>>
      PROVE  UNCHANGED Book!vars
  BY <1>1, ProfileBook
<1>2. ASSUME NEW h \in Handlers, Request(h) \/ GetCache(h) \/ SetCache(h) \/ Fail(h)
      PROVE  UNCHANGED <<users, linked>>
  BY <1>2 DEF Request, Register, GoogleAuthenticate, ConfirmEmail, ResendConfirmationLink,
              Authenticate, GetCache, SetCache, Fail
<1>3. ASSUME NEW h \in Handlers, SendVerificationLink(h)
      PROVE  [Book!Next]_Book!vars
  <2>1. users' = users /\ linked' = linked \union {task[h].email} /\ task[h].email \in Emails
    BY <1>3 DEF SendVerificationLink, IInv, TasksAreWhole, IsWhole
  <2>2. Holder' = Holder /\ Confirmed' = Confirmed
    BY <2>1 DEF Holder, Confirmed, Taken, Holds
  <2> QED
    BY <2>1, <2>2 DEF Book!Next, Book!Invite
<1>4. ASSUME NEW h \in Handlers, NEW v \in Profiles, SetCurrentRefreshToken(h, v)
      PROVE  UNCHANGED Book!vars
  BY <1>4, ProfileBook DEF SetCurrentRefreshToken, IInv, TypeOK
<1>5. ASSUME NEW i \in Ids, NEW v \in Profiles, WriteProfile(i, v)
      PROVE  UNCHANGED Book!vars
  BY <1>5, ProfileBook DEF WriteProfile, IInv, TypeOK
<1>6. ASSUME (\E e \in Emails : ExpireProfile(e)) \/ UNCHANGED vars
      PROVE  UNCHANGED <<users, linked>>
  BY <1>6 DEF ExpireProfile, vars
<1> QED
  BY <1>1, <1>2, <1>3, <1>4, <1>5, <1>6, CreateBook, MarkBook, RemoveBook DEF Next, Proceed

(* The accounts implement the address book: an address has one holder at a *)
(* time, who is confirmed only after a link for the address.               *)
THEOREM BookRefinement == Spec => BookSpec
<1>1. Init => Book!Init
  BY InitBook
<1>2. IInv /\ IInv' /\ [Next]_vars => [Book!Next]_Book!vars
  BY NextBook
<1> QED
  BY <1>1, <1>2, Invariance, PTL DEF Spec, BookSpec, Book!Spec
=============================================================================
