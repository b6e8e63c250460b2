----------------------------- MODULE SessionsProofs -----------------------------
(***************************************************************************)
(* The second factor and the refresh tokens, for any number of accounts,   *)
(* secrets and handlers.                                                   *)
(***************************************************************************)
EXTENDS Sessions, TLAPS

USE NoneAssumption

-----------------------------------------------------------------------------
(* The tasks and the tokens.                                               *)

LEMMA IdleTask == Idle \in Task /\ IsWhole(Idle)
BY DEF Idle, Task, IsWhole

LEMMA StartTask ==
  ASSUME TypeOK, NEW h \in Handlers, NEW t \in Task, Start(h, t)
  PROVE  /\ task' \in [Handlers -> Task]
         /\ task'[h] = t
         /\ \A g \in Handlers : g # h => task'[g] = task[g]
BY DEF TypeOK, Start

LEMMA FinishTask ==
  ASSUME TypeOK, NEW h \in Handlers, Finish(h)
  PROVE  /\ task' \in [Handlers -> Task]
         /\ task'[h] = Idle
         /\ \A g \in Handlers : g # h => task'[g] = task[g]
BY IdleTask DEF TypeOK, Finish

LEMMA CookiesAreTokens ==
  ASSUME NEW u \in Users, NEW second \in BOOLEAN
  PROVE  /\ Cookies(u, second) \in SUBSET Token
         /\ \A t \in Cookies(u, second) : t.user = u /\ (t.second <=> second)
<1>1. \A k \in {"access", "refresh"} :
        /\ [kind |-> k, user |-> u, second |-> second] \in Token
        /\ [kind |-> k, user |-> u, second |-> second].user = u
        /\ [kind |-> k, user |-> u, second |-> second].second <=> second
  BY DEF Token
<1> QED
  BY <1>1 DEF Cookies

\* What a step does to the documents never takes a secret away, nor the hash of
\* a session that its user has not ended.
Grows ==
  /\ users' \in [Users -> User \union {None}]
  /\ proved \subseteq proved'
  /\ proved' \subseteq Users \X Secrets
  /\ entered \subseteq entered'
  /\ entered' \subseteq Users
  /\ \A u \in Users :
       /\ users'[u] # None => users[u] # None
       /\ users'[u] # None /\ users[u].twoFactorAuthenticationSecret # None =>
            users'[u].twoFactorAuthenticationSecret # None
  /\ \A t \in Token : Honoured(t) => Honoured(t)'

\* A handler that does not step stays whole when the documents grow.
LEMMA TaskStays ==
  ASSUME IInv, Grows, NEW g \in Handlers, task'[g] = task[g]
  PROVE  IsWhole(task[g])'
<1>1. entered \subseteq entered' /\ proved \subseteq proved'
  BY DEF Grows
<1>2. task[g].tokens \subseteq Token
  BY DEF IInv, TypeOK, Task
<1>3. IsWhole(task[g])
  BY DEF IInv, TasksAreWhole
<1>4. task[g].step # "idle" => task[g].user \in Users
  BY <1>3 DEF IsWhole
<1>5. task[g].step \in {"setToken", "answer"} =>
        \A k \in task[g].tokens : k.user = task[g].user /\ (k.second => k.user \in entered')
  BY <1>1, <1>3, <1>4 DEF IsWhole
<1>6. task[g].step = "answer" => \A k \in task[g].tokens : k.kind = "refresh" => Honoured(k)'
  BY <1>2, <1>3 DEF IsWhole, Grows
<1>7. task[g].step = "setSecret" => task[g].secret # None
  BY <1>3 DEF IsWhole
<1>8. task[g].step = "turnOn" =>
        /\ task[g].secret \in Secrets /\ <<task[g].user, task[g].secret>> \in proved'
        /\ users'[task[g].user] # None =>
             users'[task[g].user].twoFactorAuthenticationSecret # None
  BY <1>1, <1>3, <1>4 DEF IsWhole, Grows
<1> QED
  BY <1>4, <1>5, <1>6, <1>7, <1>8 DEF IsWhole

\* Handlers that are whole, good tokens and usable factors make the invariant.
LEMMA GrowsIInv ==
  ASSUME IInv, Grows,
         tokens' \subseteq Token, drawn' \subseteq Secrets, out' \subseteq Users,
         task' \in [Handlers -> Task],
         \A g \in Handlers : IsWhole(task[g])',
         \A t \in tokens' : /\ t.second => t.user \in entered'
                            /\ t.kind = "refresh" => Honoured(t)',
         SecondFactorHasSecret'
  PROVE  IInv'
<1>1. TypeOK'
  BY DEF IInv, TypeOK, Grows
<1>2. TasksAreWhole'
  BY DEF TasksAreWhole
<1>3. SecondFactorByCode' /\ SessionsAreHonoured'
  BY DEF SecondFactorByCode, SessionsAreHonoured
<1> QED
  BY <1>1, <1>2, <1>3 DEF IInv

\* A handler takes a step under which the documents grow.
LEMMA StepIInv ==
  ASSUME IInv, Grows, NEW h \in Handlers,
         tokens' \subseteq Token, drawn' \subseteq Secrets, out' \subseteq Users,
         task' \in [Handlers -> Task],
         \A g \in Handlers : g # h => task'[g] = task[g],
         IsWhole(task[h])',
         \A t \in tokens' : /\ t.second => t.user \in entered'
                            /\ t.kind = "refresh" => Honoured(t)',
         SecondFactorHasSecret'
  PROVE  IInv'
<1>1. ASSUME NEW g \in Handlers
      PROVE  IsWhole(task[g])'
  <2>1. CASE g = h
    BY <2>1
  <2>2. CASE g # h
    BY <2>2, TaskStays
  <2> QED
    BY <2>1, <2>2
<1> QED
  BY <1>1, GrowsIInv

\* The documents stay as they are.
LEMMA SameUsersGrow ==
  ASSUME IInv, UNCHANGED users, proved \subseteq proved', proved' \subseteq Users \X Secrets,
         entered \subseteq entered', entered' \subseteq Users, out \subseteq out'
  PROVE  Grows /\ SecondFactorHasSecret'
<1>1. \A t \in Token : Honoured(t) => Honoured(t)'
  BY DEF Honoured
<1>2. SecondFactorHasSecret'
  BY DEF IInv, SecondFactorHasSecret, TwoFactorOn
<1> QED
  BY <1>1, <1>2 DEF Grows, IInv, TypeOK

\* The tokens that clients hold stay good when the documents grow.
LEMMA TokensStayGood ==
  ASSUME IInv, Grows
  PROVE  \A t \in tokens : /\ t.second => t.user \in entered'
                           /\ t.kind = "refresh" => Honoured(t)'
BY DEF IInv, TypeOK, SecondFactorByCode, SessionsAreHonoured, Grows

LEMMA InitIInv == Init => IInv
<1> SUFFICES ASSUME Init PROVE IInv
  OBVIOUS
<1>1. NewUser \in User /\ ~NewUser.isTwoFactorAuthenticationEnabled
  BY DEF NewUser, User
<1>2. TypeOK
  BY <1>1, IdleTask DEF Init, TypeOK
<1>3. TasksAreWhole
  BY IdleTask DEF Init, TasksAreWhole
<1>4. SecondFactorHasSecret
  BY <1>1 DEF Init, SecondFactorHasSecret, TwoFactorOn
<1> QED
  BY <1>2, <1>3, <1>4 DEF Init, IInv, SecondFactorByCode, SessionsAreHonoured

-----------------------------------------------------------------------------
(* One lemma per action, or per kind of action: it keeps the invariant.    *)

LEMMA StartIInv ==
  ASSUME IInv, NEW h \in Handlers, NEW t \in Task, Start(h, t), IsWhole(t)',
         UNCHANGED <<users, tokens, out>>, drawn' \subseteq Secrets,
         proved \subseteq proved', proved' \subseteq Users \X Secrets,
         entered \subseteq entered', entered' \subseteq Users
  PROVE  IInv'
<1>1. /\ task' \in [Handlers -> Task] /\ task'[h] = t
      /\ \A g \in Handlers : g # h => task'[g] = task[g]
  BY StartTask DEF IInv
<1>2. IsWhole(task[h])'
  BY <1>1 DEF IsWhole
<1>3. Grows /\ SecondFactorHasSecret'
  BY SameUsersGrow
<1>4. tokens' \subseteq Token /\ out' \subseteq Users
  BY DEF IInv, TypeOK
<1> QED
  BY <1>1, <1>2, <1>3, <1>4, StepIInv, TokensStayGood

\* A session begins: its tokens are of its user, and only a right code gives a
\* session of both factors.
LEMMA SessionIInv ==
  ASSUME IInv, NEW h \in Handlers, NEW u \in Users, NEW second \in BOOLEAN,
         Start(h, [Idle EXCEPT !.step = "setToken", !.user = u, !.tokens = Cookies(u, second)]),
         UNCHANGED <<users, tokens, drawn, out>>,
         proved \subseteq proved', proved' \subseteq Users \X Secrets,
         entered \subseteq entered', entered' \subseteq Users,
         second => u \in entered'
  PROVE  IInv'
<1> DEFINE t == [Idle EXCEPT !.step = "setToken", !.user = u, !.tokens = Cookies(u, second)]
<1>1. /\ Cookies(u, second) \in SUBSET Token
      /\ \A k \in Cookies(u, second) : k.user = u /\ (k.second <=> second)
  BY CookiesAreTokens
<1>2. t \in Task /\ t.step = "setToken" /\ t.user = u /\ t.tokens = Cookies(u, second)
  BY <1>1 DEF Idle, Task
<1> HIDE DEF t
<1>3. IsWhole(t)'
  <2>1. \A k \in t.tokens : k.user = t.user /\ (k.second => k.user \in entered')
    BY <1>1, <1>2
  <2> QED
    BY <1>2, <2>1 DEF IsWhole
<1> QED
  BY <1>2, <1>3, StartIInv DEF IInv, TypeOK, t

LEMMA RefreshIInv ==
  ASSUME IInv, NEW h \in Handlers, NEW k \in tokens, Refresh(h, k)
  PROVE  IInv'
<1> DEFINE a == [kind |-> "access", user |-> k.user, second |-> FALSE]
           t == [Idle EXCEPT !.step = "answer", !.user = k.user, !.tokens = {a}]
<1>1. k.user \in Users
  BY DEF IInv, TypeOK, Token
<1>2. a \in Token /\ a.user = k.user /\ a.kind = "access" /\ ~a.second
  BY <1>1 DEF Token
<1> HIDE DEF a
<1>3. t \in Task /\ t.step = "answer" /\ t.user = k.user /\ t.tokens = {a}
  BY <1>1, <1>2 DEF Idle, Task
<1>4. Start(h, t) /\ UNCHANGED <<users, tokens, drawn, proved, entered, out>>
  BY DEF Refresh, a
<1> HIDE DEF t
<1>5. IsWhole(t)'
  BY <1>1, <1>2, <1>3 DEF IsWhole
<1> QED
  BY <1>3, <1>4, <1>5, StartIInv DEF IInv, TypeOK

LEMMA TurnOnIInv ==
  ASSUME IInv, NEW h \in Handlers, NEW k \in tokens, NEW s \in Secrets, TurnOn(h, k, s)
  PROVE  IInv'
<1> DEFINE t == [Idle EXCEPT !.step = "turnOn", !.user = k.user, !.secret = s]
<1>1. k.user \in Users
  BY DEF IInv, TypeOK, Token
<1>2. t \in Task /\ t.step = "turnOn" /\ t.user = k.user /\ t.secret = s
  BY <1>1 DEF Idle, Task
<1>3. /\ Start(h, t) /\ UNCHANGED <<users, tokens, drawn, entered, out>>
      /\ proved' = proved \union {<<k.user, s>>}
      /\ users[k.user].twoFactorAuthenticationSecret # None
  BY DEF TurnOn, CodeValid
<1> HIDE DEF t
<1>4. /\ proved \subseteq proved' /\ proved' \subseteq Users \X Secrets /\ drawn' \subseteq Secrets
      /\ entered \subseteq entered' /\ entered' \subseteq Users
  BY <1>1, <1>3 DEF IInv, TypeOK
<1>5. IsWhole(t)'
  BY <1>1, <1>2, <1>3 DEF IsWhole
<1> QED
  BY <1>2, <1>3, <1>4, <1>5, StartIInv

LEMMA RequestIInv ==
  ASSUME IInv, NEW h \in Handlers, Request(h)
  PROVE  IInv'
<1>1. \A k \in tokens : k.user \in Users
  BY DEF IInv, TypeOK, Token
<1>2. proved \subseteq Users \X Secrets /\ drawn \subseteq Secrets /\ entered \subseteq Users
  BY DEF IInv, TypeOK
<1>3. ASSUME NEW u \in Users, LogIn(h, u)
      PROVE  IInv'
  BY <1>2, <1>3, SessionIInv DEF LogIn
<1>4. ASSUME NEW k \in tokens, NEW s \in Secrets, Authenticate(h, k, s)
      PROVE  IInv'
  <2>1. proved' = proved \union {<<k.user, s>>} /\ entered' = entered \union {k.user}
    BY <1>4 DEF Authenticate
  <2>2. /\ proved \subseteq proved' /\ proved' \subseteq Users \X Secrets
        /\ entered \subseteq entered' /\ entered' \subseteq Users /\ k.user \in entered'
    BY <1>1, <1>2, <2>1
  <2>3. /\ UNCHANGED <<users, tokens, drawn, out>>
        /\ Start(h, [Idle EXCEPT !.step = "setToken", !.user = k.user,
                                 !.tokens = Cookies(k.user, TRUE)])
    BY <1>4 DEF Authenticate
  <2>4. ASSUME NEW u \in Users, u = k.user
        PROVE  IInv'
    <3>1. u \in entered'
      BY <2>2, <2>4
    <3> QED
      BY <2>2, <2>3, <2>4, <3>1, SessionIInv
  <2> QED
    BY <1>1, <2>4
<1>5. ASSUME NEW k \in tokens, LogOut(h, k)
      PROVE  IInv'
  <2> DEFINE t == [Idle EXCEPT !.step = "removeToken", !.user = k.user]
  <2>1. t \in Task /\ t.step = "removeToken" /\ t.user \in Users
    BY <1>1 DEF Idle, Task
  <2>2. Start(h, t) /\ UNCHANGED <<users, tokens, drawn, proved, entered, out>>
    BY <1>5 DEF LogOut
  <2> HIDE DEF t
  <2>3. IsWhole(t)'
    BY <2>1 DEF IsWhole
  <2> QED
    BY <1>2, <2>1, <2>2, <2>3, StartIInv
<1>6. ASSUME NEW k \in tokens, NEW s \in Secrets, GenerateAuthenticationSecret(h, k, s)
      PROVE  IInv'
  <2> DEFINE t == [Idle EXCEPT !.step = "setSecret", !.user = k.user, !.secret = s]
  <2>1. t \in Task /\ t.step = "setSecret" /\ t.user \in Users /\ t.secret = s
    BY <1>1 DEF Idle, Task
  <2>2. /\ Start(h, t) /\ UNCHANGED <<users, tokens, proved, entered, out>>
        /\ drawn' = drawn \union {s}
    BY <1>6 DEF GenerateAuthenticationSecret
  <2> HIDE DEF t
  <2>3. IsWhole(t)'
    BY <2>1 DEF IsWhole
  <2> QED
    BY <1>2, <2>1, <2>2, <2>3, StartIInv
<1> QED
  BY <1>3, <1>4, <1>5, <1>6, RefreshIInv, TurnOnIInv DEF Request

\* A handler finishes with a write to the document of its user, or finds none.
LEMMA WriteIInv ==
  ASSUME IInv, NEW h \in Handlers, NEW u \in Users, NEW d \in User,
         users' = [users EXCEPT ![u] = IF users[u] = None THEN None ELSE d],
         UNCHANGED <<tokens, drawn, proved, entered>>, out \subseteq out', out' \subseteq Users,
         users[u] # None =>
           /\ users[u].twoFactorAuthenticationSecret # None =>
                d.twoFactorAuthenticationSecret # None
           /\ \/ u \in out'
              \/ d.currentHashedRefreshToken \in {u, users[u].currentHashedRefreshToken}
           /\ d.isTwoFactorAuthenticationEnabled =>
                d.twoFactorAuthenticationSecret # None,
         task' \in [Handlers -> Task],
         \A g \in Handlers : g # h => task'[g] = task[g],
         IsWhole(task[h])'
  PROVE  IInv'
<1>1. /\ users' \in [Users -> User \union {None}]
      /\ users'[u] = (IF users[u] = None THEN None ELSE d)
      /\ \A v \in Users : v # u => users'[v] = users[v]
  BY DEF IInv, TypeOK
<1>2. Grows
  <2>1. \A v \in Users :
          /\ users'[v] # None => users[v] # None
          /\ users'[v] # None /\ users[v].twoFactorAuthenticationSecret # None =>
               users'[v].twoFactorAuthenticationSecret # None
    BY <1>1
  <2>2. ASSUME NEW t \in Token, Honoured(t)
        PROVE  Honoured(t)'
    <3>1. t.user \in Users
      BY DEF Token
    <3> QED
      BY <1>1, <2>2, <3>1 DEF Honoured, Bcrypt
  <2>3. /\ proved \subseteq proved' /\ proved' \subseteq Users \X Secrets
        /\ entered \subseteq entered' /\ entered' \subseteq Users
    BY DEF IInv, TypeOK
  <2> QED
    BY <1>1, <2>1, <2>2, <2>3 DEF Grows
<1>3. SecondFactorHasSecret'
  <2> SUFFICES ASSUME NEW v \in Users, users'[v] # None,
                      users'[v].isTwoFactorAuthenticationEnabled
               PROVE  users'[v].twoFactorAuthenticationSecret # None
    BY DEF SecondFactorHasSecret, TwoFactorOn
  <2>1. CASE v = u
    BY <1>1, <2>1
  <2>2. CASE v # u
    BY <1>1, <2>2 DEF IInv, SecondFactorHasSecret, TwoFactorOn
  <2> QED
    BY <2>1, <2>2
<1>4. tokens' \subseteq Token /\ drawn' \subseteq Secrets
  BY DEF IInv, TypeOK
<1> QED
  BY <1>2, <1>3, <1>4, StepIInv, TokensStayGood

\* What a document keeps when one of its fields is written.
LEMMA HashWritten ==
  ASSUME NEW d \in User, NEW x \in Users \union {None},
         NEW c, c = [d EXCEPT !.currentHashedRefreshToken = x]
  PROVE  /\ c \in User
         /\ c.currentHashedRefreshToken = x
         /\ c.twoFactorAuthenticationSecret = d.twoFactorAuthenticationSecret
         /\ c.isTwoFactorAuthenticationEnabled <=> d.isTwoFactorAuthenticationEnabled
BY DEF User

LEMMA SecretWritten ==
  ASSUME NEW d \in User, NEW x \in Secrets,
         NEW c, c = [d EXCEPT !.twoFactorAuthenticationSecret = x]
  PROVE  /\ c \in User
         /\ c.currentHashedRefreshToken = d.currentHashedRefreshToken
         /\ c.twoFactorAuthenticationSecret = x
         /\ c.isTwoFactorAuthenticationEnabled <=> d.isTwoFactorAuthenticationEnabled
BY DEF User

LEMMA FlagWritten ==
  ASSUME NEW d \in User,
         NEW c, c = [d EXCEPT !.isTwoFactorAuthenticationEnabled = TRUE]
  PROVE  /\ c \in User
         /\ c.currentHashedRefreshToken = d.currentHashedRefreshToken
         /\ c.twoFactorAuthenticationSecret = d.twoFactorAuthenticationSecret
BY DEF User

\* A handler stops, and all else stays.
LEMMA FinishIInv ==
  ASSUME IInv, NEW h \in Handlers, Finish(h), UNCHANGED <<users, drawn, proved, entered>>,
         out \subseteq out', out' \subseteq Users, tokens' \subseteq Token,
         \A t \in tokens' : /\ t.second => t.user \in entered
                            /\ t.kind = "refresh" => Honoured(t)
  PROVE  IInv'
<1>1. /\ task' \in [Handlers -> Task] /\ task'[h] = Idle
      /\ \A g \in Handlers : g # h => task'[g] = task[g]
  BY FinishTask DEF IInv
<1>2. IsWhole(task[h])'
  BY <1>1 DEF Idle, IsWhole
<1>3. Grows /\ SecondFactorHasSecret'
  BY SameUsersGrow DEF IInv, TypeOK
<1>4. \A t \in tokens' : /\ t.second => t.user \in entered'
                         /\ t.kind = "refresh" => Honoured(t)'
  BY DEF Honoured
<1>5. drawn' \subseteq Secrets
  BY DEF IInv, TypeOK
<1> QED
  BY <1>1, <1>2, <1>3, <1>4, <1>5, StepIInv

LEMMA SetCurrentRefreshTokenIInv ==
  ASSUME IInv, NEW h \in Handlers, SetCurrentRefreshToken(h)
  PROVE  IInv'
<1> DEFINE u == task[h].user
           d == [users[u] EXCEPT !.currentHashedRefreshToken = u]
           t == [task[h] EXCEPT !.step = "answer"]
<1>1. /\ u \in Users /\ task[h] \in Task /\ task[h].step = "setToken"
      /\ \A k \in task[h].tokens : k.user = u /\ (k.second => u \in entered)
  BY DEF SetCurrentRefreshToken, IInv, TypeOK, TasksAreWhole, IsWhole
<1>2. UNCHANGED <<tokens, drawn, proved, entered, out>>
  BY DEF SetCurrentRefreshToken
<1>3. CASE users[u] = None
  <2>1. Finish(h) /\ UNCHANGED users
    BY <1>3 DEF SetCurrentRefreshToken
  <2> QED
    BY <1>2, <2>1, FinishIInv DEF IInv, TypeOK, SecondFactorByCode, SessionsAreHonoured
<1>4. CASE users[u] # None
  <2>1. /\ users' = [users EXCEPT ![u].currentHashedRefreshToken = u]
        /\ task' = [task EXCEPT ![h] = t]
    BY <1>1, <1>4 DEF SetCurrentRefreshToken, Bcrypt, IInv, TypeOK
  <2>2. users[u] \in User
    BY <1>1, <1>4 DEF IInv, TypeOK
  <2>3. users' = [users EXCEPT ![u] = d]
    BY <2>1
  <2>4. /\ d \in User /\ d.currentHashedRefreshToken = u
        /\ d.twoFactorAuthenticationSecret = users[u].twoFactorAuthenticationSecret
        /\ d.isTwoFactorAuthenticationEnabled <=> users[u].isTwoFactorAuthenticationEnabled
    BY <1>1, <2>2, HashWritten
  <2> HIDE DEF d
  <2>5. t \in Task /\ t.step = "answer" /\ t.user = u /\ t.tokens = task[h].tokens
    BY <1>1 DEF Task
  <2> HIDE DEF t
  <2>6. /\ task' \in [Handlers -> Task] /\ task'[h] = t
        /\ \A g \in Handlers : g # h => task'[g] = task[g]
    BY <2>1, <2>5 DEF IInv, TypeOK
  <2>7. \A k \in t.tokens : k.user = u /\ (k.second => k.user \in entered') /\ Honoured(k)'
    <3>1. users'[u] = d
      BY <1>1, <2>3 DEF IInv, TypeOK
    <3>2. \A k \in t.tokens : k.user = u /\ (k.second => u \in entered)
      BY <1>1, <2>5
    <3>3. \A k \in t.tokens : Honoured(k)'
      BY <2>4, <3>1, <3>2 DEF Honoured, Bcrypt
    <3> QED
      BY <1>2, <3>2, <3>3
  <2>8. IsWhole(task[h])'
    BY <1>1, <2>5, <2>6, <2>7 DEF IsWhole
  <2>9. users[u].isTwoFactorAuthenticationEnabled =>
          users[u].twoFactorAuthenticationSecret # None
    BY <1>1, <1>4 DEF IInv, SecondFactorHasSecret, TwoFactorOn
  <2>10. out \subseteq out' /\ out' \subseteq Users
    BY <1>2 DEF IInv, TypeOK
  <2>11. users' = [users EXCEPT ![u] = IF users[u] = None THEN None ELSE d]
    BY <1>4, <2>3
  <2> QED
    BY <1>1, <1>2, <2>4, <2>6, <2>8, <2>9, <2>10, <2>11, WriteIInv
<1> QED
  BY <1>3, <1>4

\* The writes that end a handler's work: each finds the document of its user or
\* does nothing.
LEMMA FinishWithWrite ==
  ASSUME IInv, NEW h \in Handlers, Finish(h), NEW u \in Users, NEW d \in User,
         users' = [users EXCEPT ![u] = IF users[u] = None THEN None ELSE d],
         UNCHANGED <<tokens, drawn, proved, entered>>, out \subseteq out', out' \subseteq Users,
         users[u] # None =>
           /\ users[u].twoFactorAuthenticationSecret # None =>
                d.twoFactorAuthenticationSecret # None
           /\ \/ u \in out'
              \/ d.currentHashedRefreshToken \in {u, users[u].currentHashedRefreshToken}
           /\ d.isTwoFactorAuthenticationEnabled =>
                d.twoFactorAuthenticationSecret # None
  PROVE  IInv'
<1>1. /\ task' \in [Handlers -> Task] /\ task'[h] = Idle
      /\ \A g \in Handlers : g # h => task'[g] = task[g]
  BY FinishTask DEF IInv
<1>2. IsWhole(task[h])'
  BY <1>1 DEF Idle, IsWhole
<1> QED
  BY <1>1, <1>2, WriteIInv

\* A user who is gone stays gone.
LEMMA FinishWithoutUser ==
  ASSUME IInv, NEW h \in Handlers, Finish(h), NEW u \in Users, users[u] = None,
         users' = [users EXCEPT ![u] = None],
         UNCHANGED <<tokens, drawn, proved, entered>>, out \subseteq out', out' \subseteq Users
  PROVE  IInv'
<1>1. UNCHANGED users
  BY DEF IInv, TypeOK
<1> QED
  BY <1>1, FinishIInv DEF IInv, TypeOK, SecondFactorByCode, SessionsAreHonoured

LEMMA RemoveRefreshTokenIInv ==
  ASSUME IInv, NEW h \in Handlers, RemoveRefreshToken(h)
  PROVE  IInv'
<1> DEFINE u == task[h].user
           d == [users[u] EXCEPT !.currentHashedRefreshToken = None]
<1>1. /\ u \in Users /\ Finish(h) /\ UNCHANGED <<tokens, drawn, proved, entered>>
      /\ out' = out \union {u}
      /\ users' = [users EXCEPT ![u] = IF users[u] = None THEN None ELSE d]
  BY DEF RemoveRefreshToken, IInv, TypeOK, TasksAreWhole, IsWhole
<1>2. u \in out' /\ out \subseteq out' /\ out' \subseteq Users
  BY <1>1 DEF IInv, TypeOK
<1>3. CASE users[u] = None
  BY <1>1, <1>2, <1>3, FinishWithoutUser
<1>4. CASE users[u] # None
  <2>1. users[u] \in User
    BY <1>1, <1>4 DEF IInv, TypeOK
  <2>2. /\ d \in User
        /\ d.twoFactorAuthenticationSecret = users[u].twoFactorAuthenticationSecret
        /\ d.isTwoFactorAuthenticationEnabled <=> users[u].isTwoFactorAuthenticationEnabled
    BY <2>1, HashWritten
  <2> HIDE DEF d
  <2>3. users[u].isTwoFactorAuthenticationEnabled =>
          users[u].twoFactorAuthenticationSecret # None
    BY <1>1, <1>4 DEF IInv, SecondFactorHasSecret, TwoFactorOn
  <2> QED
    BY <1>1, <1>2, <2>2, <2>3, FinishWithWrite
<1> QED
  BY <1>3, <1>4

LEMMA SetSecretIInv ==
  ASSUME IInv, NEW h \in Handlers, SetTwoFactorAuthenticationSecret(h)
  PROVE  IInv'
<1> DEFINE u == task[h].user
           s == task[h].secret
           d == [users[u] EXCEPT !.twoFactorAuthenticationSecret = s]
<1>1. /\ u \in Users /\ s \in Secrets /\ Finish(h)
      /\ UNCHANGED <<tokens, drawn, proved, entered, out>>
      /\ users' = [users EXCEPT ![u] = IF users[u] = None THEN None ELSE d]
  BY DEF SetTwoFactorAuthenticationSecret, WithSecret, IInv, TypeOK, Task, TasksAreWhole, IsWhole
<1>2. out \subseteq out' /\ out' \subseteq Users
  BY <1>1 DEF IInv, TypeOK
<1>3. CASE users[u] = None
  BY <1>1, <1>2, <1>3, FinishWithoutUser
<1>4. CASE users[u] # None
  <2>1. users[u] \in User
    BY <1>1, <1>4 DEF IInv, TypeOK
  <2>2. /\ d \in User /\ d.twoFactorAuthenticationSecret = s
        /\ d.currentHashedRefreshToken = users[u].currentHashedRefreshToken
        /\ d.isTwoFactorAuthenticationEnabled <=> users[u].isTwoFactorAuthenticationEnabled
    BY <1>1, <2>1, SecretWritten
  <2> HIDE DEF d
  <2>3. s # None
    BY <1>1
  <2> QED
    BY <1>1, <1>2, <2>2, <2>3, FinishWithWrite
<1> QED
  BY <1>3, <1>4

LEMMA TurnOnWriteIInv ==
  ASSUME IInv, NEW h \in Handlers, TurnOnTwoFactorAuthentication(h)
  PROVE  IInv'
<1> DEFINE u == task[h].user
           d == [users[u] EXCEPT !.isTwoFactorAuthenticationEnabled = TRUE]
<1>1. /\ u \in Users /\ Finish(h)
      /\ users[u] # None => users[u].twoFactorAuthenticationSecret # None
      /\ UNCHANGED <<tokens, drawn, proved, entered, out>>
      /\ users' = [users EXCEPT ![u] = IF users[u] = None THEN None ELSE d]
  BY DEF TurnOnTwoFactorAuthentication, IInv, TypeOK, TasksAreWhole, IsWhole
<1>2. out \subseteq out' /\ out' \subseteq Users
  BY <1>1 DEF IInv, TypeOK
<1>3. CASE users[u] = None
  BY <1>1, <1>2, <1>3, FinishWithoutUser
<1>4. CASE users[u] # None
  <2>1. users[u] \in User
    BY <1>1, <1>4 DEF IInv, TypeOK
  <2>2. /\ d \in User
        /\ d.currentHashedRefreshToken = users[u].currentHashedRefreshToken
        /\ d.twoFactorAuthenticationSecret = users[u].twoFactorAuthenticationSecret
    BY <2>1, FlagWritten
  <2> HIDE DEF d
  <2> QED
    BY <1>1, <1>2, <1>4, <2>2, FinishWithWrite
<1> QED
  BY <1>3, <1>4

LEMMA AnswerIInv ==
  ASSUME IInv, NEW h \in Handlers, Answer(h)
  PROVE  IInv'
<1>1. /\ Finish(h) /\ tokens' = tokens \union task[h].tokens
      /\ UNCHANGED <<users, drawn, proved, entered, out>> /\ task[h].step = "answer"
  BY DEF Answer
<1>2. /\ task[h].tokens \subseteq Token
      /\ \A t \in task[h].tokens : t.second => t.user \in entered
      /\ \A t \in task[h].tokens : t.kind = "refresh" => Honoured(t)
  BY <1>1 DEF IInv, TypeOK, Task, TasksAreWhole, IsWhole
<1>3. tokens' \subseteq Token /\ out' \subseteq Users
  BY <1>1, <1>2 DEF IInv, TypeOK
<1>4. \A t \in tokens' : /\ t.second => t.user \in entered
                         /\ t.kind = "refresh" => Honoured(t)
  BY <1>1, <1>2 DEF IInv, SecondFactorByCode, SessionsAreHonoured
<1> QED
  BY <1>1, <1>3, <1>4, FinishIInv

\* Time passes, or an account is removed: no handler steps.
LEMMA EnvironmentIInv ==
  ASSUME IInv, (\E t \in tokens : Expire(t)) \/ (\E u \in Users : RemoveUser(u))
  PROVE  IInv'
<1>1. /\ UNCHANGED <<drawn, proved, entered, out, task>> /\ tokens' \subseteq tokens
      /\ \A u \in Users : users'[u] # None => users'[u] = users[u]
      /\ users' \in [Users -> User \union {None}]
  BY DEF Expire, RemoveUser, IInv, TypeOK
<1>2. Grows
  <2>1. \A t \in Token : Honoured(t) => Honoured(t)'
    BY <1>1 DEF Honoured, Token
  <2> QED
    BY <1>1, <2>1 DEF Grows, IInv, TypeOK
<1>3. SecondFactorHasSecret'
  BY <1>1 DEF IInv, SecondFactorHasSecret, TwoFactorOn
<1>4. \A g \in Handlers : IsWhole(task[g])'
  BY <1>1, <1>2, TaskStays
<1>5. \A t \in tokens' : /\ t.second => t.user \in entered'
                         /\ t.kind = "refresh" => Honoured(t)'
  BY <1>1, <1>2, TokensStayGood
<1>6. /\ tokens' \subseteq Token /\ drawn' \subseteq Secrets /\ out' \subseteq Users
      /\ task' \in [Handlers -> Task]
  BY <1>1 DEF IInv, TypeOK
<1> QED
  BY <1>2, <1>3, <1>4, <1>5, <1>6, GrowsIInv

LEMMA FailIInv ==
  ASSUME IInv, NEW h \in Handlers, Fail(h)
  PROVE  IInv'
BY FinishIInv DEF Fail, IInv, TypeOK, SecondFactorByCode, SessionsAreHonoured

LEMMA NextIInv == IInv /\ [Next]_vars => IInv'
<1> SUFFICES ASSUME IInv, [Next]_vars PROVE IInv'
  OBVIOUS
<1>1. ASSUME NEW h \in Handlers, Request(h) \/ Proceed(h) \/ Fail(h)
      PROVE  IInv'
  BY <1>1, RequestIInv, SetCurrentRefreshTokenIInv, AnswerIInv, RemoveRefreshTokenIInv,
     SetSecretIInv, TurnOnWriteIInv, FailIInv DEF Proceed
<1>2. ASSUME UNCHANGED vars
      PROVE  IInv'
  BY <1>2 DEF vars, IInv, TypeOK, TasksAreWhole, IsWhole, SecondFactorByCode, SessionsAreHonoured,
              SecondFactorHasSecret, TwoFactorOn, Honoured
<1> QED
  BY <1>1, <1>2, EnvironmentIInv DEF Next

-----------------------------------------------------------------------------
(* What locks a user out.                                                  *)

\* A step that leaves the second factor of a user alone does not.
LEMMA SameFactor ==
  ASSUME NEW u \in Users, proved \subseteq proved', Unproved(u)',
         users'[u] # None =>
           /\ users[u] # None
           /\ users'[u].twoFactorAuthenticationSecret = users[u].twoFactorAuthenticationSecret
           /\ users'[u].isTwoFactorAuthenticationEnabled =>
                users[u].isTwoFactorAuthenticationEnabled
  PROVE  Unproved(u)
BY DEF Unproved, TwoFactorOn

LEMMA HashWritesKeepFactors ==
  ASSUME IInv, NEW h \in Handlers, SetCurrentRefreshToken(h) \/ RemoveRefreshToken(h),
         NEW u \in Users, Unproved(u)'
  PROVE  Unproved(u)
<1> DEFINE v == task[h].user
<1>1. users \in [Users -> User \union {None}] /\ v \in Users /\ proved' = proved
  BY DEF IInv, TypeOK, TasksAreWhole, IsWhole, SetCurrentRefreshToken, RemoveRefreshToken
<1>2. CASE UNCHANGED users
  BY <1>1, <1>2, SameFactor
<1>3. ASSUME NEW x \in Users \union {None}, users[v] # None,
             users' = [users EXCEPT ![v] = [users[v] EXCEPT !.currentHashedRefreshToken = x]]
      PROVE  Unproved(u)
  <2> DEFINE d == [users[v] EXCEPT !.currentHashedRefreshToken = x]
  <2>1. users[v] \in User
    BY <1>1, <1>3
  <2>2. /\ d # None
        /\ d.twoFactorAuthenticationSecret = users[v].twoFactorAuthenticationSecret
        /\ d.isTwoFactorAuthenticationEnabled <=> users[v].isTwoFactorAuthenticationEnabled
    BY <2>1, HashWritten
  <2>3. users'[u] = IF u = v THEN d ELSE users[u]
    BY <1>1, <1>3
  <2> HIDE DEF d
  <2> QED
    BY <1>1, <1>3, <2>2, <2>3, SameFactor
<1>4. CASE SetCurrentRefreshToken(h)
  <2>1. CASE users[v] = None
    BY <1>2, <1>4, <2>1 DEF SetCurrentRefreshToken
  <2>2. CASE users[v] # None
    <3>1. users' = [users EXCEPT ![v].currentHashedRefreshToken = v]
      BY <1>4, <2>2 DEF SetCurrentRefreshToken, Bcrypt, IInv, TypeOK, TasksAreWhole, IsWhole
    <3> QED
      BY <1>1, <1>3, <2>2, <3>1
  <2> QED
    BY <2>1, <2>2
<1>5. CASE RemoveRefreshToken(h)
  <2>1. users' = [users EXCEPT ![v] = IF users[v] = None THEN None
                    ELSE [users[v] EXCEPT !.currentHashedRefreshToken = None]]
    BY <1>5 DEF RemoveRefreshToken
  <2>2. CASE users[v] = None
    BY <1>1, <1>2, <2>1, <2>2
  <2>3. CASE users[v] # None
    BY <1>1, <1>3, <2>1, <2>3
  <2> QED
    BY <2>2, <2>3
<1> QED
  BY <1>4, <1>5

\* Turning the second factor on does when the secret was replaced by then.
LEMMA TurnOnLocksOut ==
  ASSUME IInv, NEW h \in Handlers, TurnOnTwoFactorAuthentication(h),
         NEW u \in Users, ~Unproved(u), Unproved(u)'
  PROVE  /\ task[h].user = u
         /\ users[u].twoFactorAuthenticationSecret \in Secrets \ {task[h].secret}
<1> DEFINE v == task[h].user
           d == [users[v] EXCEPT !.isTwoFactorAuthenticationEnabled = TRUE]
<1>1. /\ users \in [Users -> User \union {None}] /\ v \in Users /\ proved' = proved
      /\ <<v, task[h].secret>> \in proved
      /\ users[v] # None => users[v].twoFactorAuthenticationSecret # None
      /\ users' = [users EXCEPT ![v] = IF users[v] = None THEN None ELSE d]
  BY DEF IInv, TypeOK, TasksAreWhole, IsWhole, TurnOnTwoFactorAuthentication
<1>2. CASE u # v \/ users[v] = None
  BY <1>1, <1>2, SameFactor
<1>3. CASE u = v /\ users[v] # None
  <2>1. users[v] \in User
    BY <1>1, <1>3
  <2>2. d.twoFactorAuthenticationSecret = users[v].twoFactorAuthenticationSecret
    BY <2>1, FlagWritten
  <2>3. users'[v] = d
    BY <1>1, <1>3
  <2> HIDE DEF d
  <2>4. <<v, users[v].twoFactorAuthenticationSecret>> \notin proved
    BY <1>1, <1>3, <2>2, <2>3 DEF Unproved
  <2>5. users[v].twoFactorAuthenticationSecret \in Secrets
    BY <1>1, <1>3, <2>1 DEF User
  <2> QED
    BY <1>1, <1>3, <2>4, <2>5
<1> QED
  BY <1>2, <1>3

LEMMA SecretLocksOut ==
  ASSUME IInv, NEW h \in Handlers, SetTwoFactorAuthenticationSecret(h),
         NEW u \in Users, ~Unproved(u), Unproved(u)'
  PROVE  task[h].user = u
<1>1. /\ users \in [Users -> User \union {None}] /\ proved' = proved
      /\ users' = [users EXCEPT ![task[h].user] =
                     WithSecret(users[task[h].user], task[h].secret)]
  BY DEF IInv, TypeOK, SetTwoFactorAuthenticationSecret
<1>2. CASE task[h].user # u
  BY <1>1, <1>2, SameFactor
<1> QED
  BY <1>2

LEMMA OthersKeepFactors ==
  ASSUME IInv, proved \subseteq proved', UNCHANGED users \/ (\E v \in Users : RemoveUser(v)),
         NEW u \in Users, Unproved(u)'
  PROVE  Unproved(u)
<1>1. users'[u] # None => users'[u] = users[u]
  BY DEF RemoveUser, IInv, TypeOK
<1> QED
  BY <1>1, SameFactor

-----------------------------------------------------------------------------
(* The theorems.                                                           *)

(* The inductive invariant holds in every state of every behaviour.        *)
THEOREM Invariance == Spec => []IInv
<1> QED
  BY InitIInv, NextIInv, PTL DEF Spec

(* A session of both factors belongs to a user who entered a right code at *)
(* /2fa/authenticate, however log-ins, refreshes and codes interleave.     *)
THEOREM SecondFactorNeedsCode == Spec => []SecondFactorByCode
<1>1. IInv => SecondFactorByCode
  BY DEF IInv
<1> QED
  BY <1>1, Invariance, PTL

(* Whatever handlers do to each other, an account comes to ask for codes   *)
(* of a secret nobody has entered a code of only by a new secret, written  *)
(* while the second factor is on or is being turned on.                    *)
THEOREM LockedOutByNewSecret == Spec => OnlyNewSecretLocksOut
<1> DEFINE A ==
      \A u \in Users : ~Unproved(u) /\ Unproved(u)' =>
        \E h \in Handlers :
          /\ task[h].user = u
          /\ \/ SetTwoFactorAuthenticationSecret(h)
             \/ /\ TurnOnTwoFactorAuthentication(h)
                /\ users[u].twoFactorAuthenticationSecret \in Secrets \ {task[h].secret}
<1>1. IInv /\ [Next]_vars => A
  <2> SUFFICES ASSUME IInv, [Next]_vars, NEW u \in Users, ~Unproved(u), Unproved(u)'
               PROVE  \E h \in Handlers :
                        /\ task[h].user = u
                        /\ \/ SetTwoFactorAuthenticationSecret(h)
                           \/ /\ TurnOnTwoFactorAuthentication(h)
                              /\ users[u].twoFactorAuthenticationSecret
                                   \in Secrets \ {task[h].secret}
    OBVIOUS
  <2>1. ASSUME NEW h \in Handlers, Request(h) \/ Answer(h) \/ Fail(h)
        PROVE  proved \subseteq proved' /\ UNCHANGED users
    BY <2>1 DEF Request, LogIn, Refresh, LogOut, Authenticate, GenerateAuthenticationSecret,
                TurnOn, Answer, Fail
  <2>2. ASSUME (\E t \in tokens : Expire(t)) \/ (\E v \in Users : RemoveUser(v)) \/ UNCHANGED vars
        PROVE  /\ proved \subseteq proved'
               /\ UNCHANGED users \/ (\E v \in Users : RemoveUser(v))
    BY <2>2 DEF Expire, RemoveUser, vars
  <2> QED
    BY <2>1, <2>2, OthersKeepFactors, HashWritesKeepFactors, TurnOnLocksOut, SecretLocksOut
    DEF Next, Proceed
<1>2. IInv /\ [Next]_vars => [A]_vars
  BY <1>1
<1> QED
  BY <1>2, Invariance, PTL DEF Spec, OnlyNewSecretLocksOut

(* Until its user logs out or is removed, a refresh token that was         *)
(* answered matches the stored hash, whatever other sessions do.           *)
THEOREM RefreshTokensAreHonoured == Spec => []SessionsAreHonoured
<1>1. IInv => SessionsAreHonoured
  BY DEF IInv
<1> QED
  BY <1>1, Invariance, PTL
=============================================================================
