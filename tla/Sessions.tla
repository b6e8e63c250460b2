-------------------------------- MODULE Sessions --------------------------------
(***************************************************************************)
(* Sessions and the second factor: log-in, refresh and log-out             *)
(* (authentication/authentication.*.ts), two-factor authentication         *)
(* (authentication/twoFactor/) and the guards that read the user for each  *)
(* request (the passport strategies).                                      *)
(*                                                                         *)
(* The server keeps one hash of a refresh token in the user's document and *)
(* the secret of the second factor; all else is in the tokens that clients *)
(* hold.  A guard reads the document, the handler works on that copy, and  *)
(* a later await writes: other handlers of the user run in between.        *)
(***************************************************************************)
CONSTANTS
  Users,     \* the accounts at the start
  Secrets,   \* the secrets otplib can generate
  Handlers,  \* the slots that serve requests
  Faulty,    \* the slots whose calls may reject, or whose process may die
  None

\* A JWT by its payload; two tokens that differ in their dates only are one here.
Token == [kind : {"access", "refresh"}, user : Users, second : BOOLEAN]

\* Mutant: a hash of the whole token.
BcryptWhole(token) == token

(***************************************************************************)
(* bcrypt reads 72 bytes.  Those of a JWT are its header and the start of  *)
(* its payload, {"userId":" and 15 digits of the id: neither the date nor  *)
(* isSecondFactorAuthenticated is among them, and all the refresh tokens   *)
(* of a user have the same hash up to the salt.                            *)
(***************************************************************************)
Bcrypt(token) == token.user

User == [currentHashedRefreshToken : Users \union {None},
         twoFactorAuthenticationSecret : Secrets \union {None},
         isTwoFactorAuthenticationEnabled : BOOLEAN]

Task ==
  [step : {"idle", "setToken", "answer", "removeToken", "setSecret", "turnOn"},
   user : Users \union {None}, tokens : SUBSET Token, secret : Secrets \union {None}]

ASSUME FaultyAssumption == Faulty \subseteq Handlers
ASSUME NoneAssumption == None \notin Users /\ None \notin Secrets /\ None \notin User

VARIABLES
  users,   \* user -> document, or None
  tokens,  \* the tokens that clients hold and that have not expired
  drawn,   \* the secrets generated so far
  proved,  \* history: <<user, secret>> for which a right code was entered
  entered, \* history: the users that entered a right code at /2fa/authenticate
  out,     \* history: the users that logged out
  task     \* handler -> what it is doing

vars == <<users, tokens, drawn, proved, entered, out, task>>

Idle == [step |-> "idle", user |-> None, tokens |-> {}, secret |-> None]

Start(h, t) == task[h].step = "idle" /\ task' = [task EXCEPT ![h] = t]
Finish(h) == task' = [task EXCEPT ![h] = Idle]

\* The two cookies of a session.
Cookies(u, second) == {[kind |-> k, user |-> u, second |-> second] : k \in {"access", "refresh"}}

-----------------------------------------------------------------------------
(* The guards.  Each verifies the token and reads its user.                *)

\* getById throws when the account is gone.
GetById(u) == users[u] # None

\* Of the log-ins only those with the right password go on.
GetAuthenticatedUser(u) == users[u] # None

\* compare rejects when there is no hash.
GetUserIfRefreshTokenMatches(t) ==
  GetById(t.user) /\ users[t.user].currentHashedRefreshToken = Bcrypt(t)

JwtAuthenticationGuard(t) == t \in tokens /\ t.kind = "access" /\ GetById(t.user)

JwtTwoFactorGuard(t) ==
  /\ JwtAuthenticationGuard(t)
  /\ users[t.user].isTwoFactorAuthenticationEnabled => t.second

\* Mutant: a user who logged out matches (compare of a null hash).
RefreshGuardNoHash(t) == t \in tokens /\ t.kind = "refresh" /\ GetById(t.user)

JwtRefreshGuard(t) ==
  /\ t \in tokens
  /\ t.kind = "refresh"
  /\ GetUserIfRefreshTokenMatches(t)

\* A code is checked against the secret that the guard read; without one verify throws.
CodeValid(u, secret) ==
  /\ users[u].twoFactorAuthenticationSecret # None
  /\ secret = users[u].twoFactorAuthenticationSecret

-----------------------------------------------------------------------------
NewUser ==
  [currentHashedRefreshToken |-> None, twoFactorAuthenticationSecret |-> None,
   isTwoFactorAuthenticationEnabled |-> FALSE]

Init ==
  /\ users = [u \in Users |-> NewUser]
  /\ tokens = {}
  /\ drawn = {}
  /\ proved = {}
  /\ entered = {}
  /\ out = {}
  /\ task = [h \in Handlers |-> Idle]

(***************************************************************************)
(* Log-in, with a password or with Google.  The tokens are signed at once; *)
(* they are answered after the hash is written.                            *)
(***************************************************************************)
LogIn(h, u) ==
  /\ GetAuthenticatedUser(u)
  /\ Start(h, [Idle EXCEPT !.step = "setToken", !.user = u, !.tokens = Cookies(u, FALSE)])
  /\ UNCHANGED <<users, tokens, drawn, proved, entered, out>>

\* Mutant: the code is not looked at.
AuthenticateWithoutCode(h, t, s) ==
  /\ JwtAuthenticationGuard(t)
  /\ Start(h, [Idle EXCEPT !.step = "setToken", !.user = t.user,
                           !.tokens = Cookies(t.user, TRUE)])
  /\ UNCHANGED <<users, tokens, drawn, proved, entered, out>>

\* POST /authentication/2fa/authenticate: a right code gives a session of both factors.
\* Of which secret it is nobody asks: the one that the document holds by now.
Authenticate(h, t, s) ==
  /\ JwtAuthenticationGuard(t)
  /\ CodeValid(t.user, s)
  /\ proved' = proved \union {<<t.user, s>>}
  /\ entered' = entered \union {t.user}
  /\ Start(h, [Idle EXCEPT !.step = "setToken", !.user = t.user,
                           !.tokens = Cookies(t.user, TRUE)])
  /\ UNCHANGED <<users, tokens, drawn, out>>

\* A user removed by now is a NotFoundException.
SetCurrentRefreshToken(h) ==
  /\ task[h].step = "setToken"
  /\ IF users[task[h].user] = None
       THEN Finish(h) /\ UNCHANGED users
       ELSE /\ \E t \in task[h].tokens :
                 /\ t.kind = "refresh"
                 /\ users' = [users EXCEPT ![t.user].currentHashedRefreshToken = Bcrypt(t)]
            /\ task' = [task EXCEPT ![h].step = "answer"]
  /\ UNCHANGED <<tokens, drawn, proved, entered, out>>

Answer(h) ==
  /\ task[h].step = "answer"
  /\ tokens' = tokens \union task[h].tokens
  /\ Finish(h)
  /\ UNCHANGED <<users, drawn, proved, entered, out>>

\* GET /authentication/refresh: the guard has compared the hash; the new access
\* token is one of the first factor, whatever the refresh token was.
Refresh(h, t) ==
  /\ JwtRefreshGuard(t)
  /\ Start(h, [Idle EXCEPT !.step = "answer", !.user = t.user,
                 !.tokens = {[kind |-> "access", user |-> t.user, second |-> FALSE]}])
  /\ UNCHANGED <<users, tokens, drawn, proved, entered, out>>

LogOut(h, t) ==
  /\ JwtTwoFactorGuard(t)
  /\ Start(h, [Idle EXCEPT !.step = "removeToken", !.user = t.user])
  /\ UNCHANGED <<users, tokens, drawn, proved, entered, out>>

RemoveRefreshToken(h) ==
  /\ task[h].step = "removeToken"
  /\ users' = [users EXCEPT ![task[h].user] =
       IF @ = None THEN None ELSE [@ EXCEPT !.currentHashedRefreshToken = None]]
  /\ out' = out \union {task[h].user}
  /\ Finish(h)
  /\ UNCHANGED <<tokens, drawn, proved, entered>>

(***************************************************************************)
(* The second factor.                                                      *)
(***************************************************************************)

\* A new secret replaces the one the account has, in use or not.
GenerateAuthenticationSecret(h, t, s) ==
  /\ JwtAuthenticationGuard(t)
  /\ s \notin drawn
  /\ drawn' = drawn \union {s}
  /\ Start(h, [Idle EXCEPT !.step = "setSecret", !.user = t.user, !.secret = s])
  /\ UNCHANGED <<users, tokens, proved, entered, out>>

\* findOneAndUpdate: a user removed by now stays removed.
WithSecret(user, s) ==
  IF user = None THEN None ELSE [user EXCEPT !.twoFactorAuthenticationSecret = s]

SetTwoFactorAuthenticationSecret(h) ==
  /\ task[h].step = "setSecret"
  /\ users' = [users EXCEPT ![task[h].user] = WithSecret(@, task[h].secret)]
  /\ Finish(h)
  /\ UNCHANGED <<tokens, drawn, proved, entered, out>>

\* Mutant: an account without a secret accepts any code.
TurnOnUnchecked(h, t, s) ==
  /\ JwtAuthenticationGuard(t)
  /\ Start(h, [Idle EXCEPT !.step = "turnOn", !.user = t.user,
                           !.secret = users[t.user].twoFactorAuthenticationSecret])
  /\ UNCHANGED <<users, tokens, drawn, proved, entered, out>>

\* The code is checked against the secret of the copy that the guard read, which
\* the handler holds on to while it writes.
TurnOn(h, t, s) ==
  /\ JwtAuthenticationGuard(t)
  /\ CodeValid(t.user, s)
  /\ proved' = proved \union {<<t.user, s>>}
  /\ Start(h, [Idle EXCEPT !.step = "turnOn", !.user = t.user, !.secret = s])
  /\ UNCHANGED <<users, tokens, drawn, entered, out>>

TurnOnTwoFactorAuthentication(h) ==
  /\ task[h].step = "turnOn"
  /\ users' = [users EXCEPT ![task[h].user] =
       IF @ = None THEN None ELSE [@ EXCEPT !.isTwoFactorAuthenticationEnabled = TRUE]]
  /\ Finish(h)
  /\ UNCHANGED <<tokens, drawn, proved, entered, out>>

(***************************************************************************)
(* Time, other components and failures.                                    *)
(***************************************************************************)

Expire(t) ==
  /\ t \in tokens
  /\ tokens' = tokens \ {t}
  /\ UNCHANGED <<users, drawn, proved, entered, out, task>>

RemoveUser(u) ==
  /\ users[u] # None
  /\ users' = [users EXCEPT ![u] = None]
  /\ UNCHANGED <<tokens, drawn, proved, entered, out, task>>

Fail(h) ==
  /\ h \in Faulty
  /\ task[h].step # "idle"
  /\ Finish(h)
  /\ UNCHANGED <<users, tokens, drawn, proved, entered, out>>

-----------------------------------------------------------------------------
Request(h) ==
  \/ \E u \in Users : LogIn(h, u)
  \/ \E t \in tokens : Refresh(h, t) \/ LogOut(h, t)
  \/ \E t \in tokens, s \in Secrets :
       Authenticate(h, t, s) \/ GenerateAuthenticationSecret(h, t, s) \/ TurnOn(h, t, s)

Proceed(h) ==
  \/ SetCurrentRefreshToken(h)
  \/ Answer(h)
  \/ RemoveRefreshToken(h)
  \/ SetTwoFactorAuthenticationSecret(h)
  \/ TurnOnTwoFactorAuthentication(h)

Next ==
  \/ \E h \in Handlers : Request(h) \/ Proceed(h) \/ Fail(h)
  \/ \E t \in tokens : Expire(t)
  \/ \E u \in Users : RemoveUser(u)

Spec == Init /\ [][Next]_vars

\* MongoDB answers every call, and access tokens expire.
FairSpec ==
  /\ Spec
  /\ \A h \in Handlers : WF_vars(Proceed(h))
  /\ \A t \in Token : t.kind = "access" => WF_vars(Expire(t))

-----------------------------------------------------------------------------
(* Type invariant.                                                         *)
TypeOK ==
  /\ users \in [Users -> User \union {None}]
  /\ tokens \subseteq Token
  /\ drawn \subseteq Secrets
  /\ proved \subseteq Users \X Secrets
  /\ entered \subseteq Users
  /\ out \subseteq Users
  /\ task \in [Handlers -> Task]

(* A session of both factors goes to a user who entered a right code at    *)
(* /2fa/authenticate: no refresh, log-in, log-out or turning on makes one  *)
(* of a session of the first factor.  The code may be of a secret that the *)
(* session of the first factor has just had generated: see                 *)
(* FirstFactorOnlyAuthenticates.                                           *)
SecondFactorByCode == \A t \in tokens : t.second => t.user \in entered

TwoFactorOn(u) == users[u] # None /\ users[u].isTwoFactorAuthenticationEnabled

(* What the README of the repository says: while the second factor is on,  *)
(* a session of the first one reaches /2fa/authenticate and nothing else.  *)
(* The code lets it generate a new secret, whose code then opens a session *)
(* of both factors.                                                        *)
FirstFactorOnlyAuthenticates ==
  [][\A h \in Handlers, t \in tokens, s \in Secrets :
       TwoFactorOn(t.user) /\ ~t.second =>
         ~(GenerateAuthenticationSecret(h, t, s) \/ TurnOn(h, t, s) \/ LogOut(h, t))]_vars

\* The second factor is on, with a secret of which no code was ever entered: to
\* get in, the user has to have it from the session that generated it.
Unproved(u) ==
  TwoFactorOn(u) /\ <<u, users[u].twoFactorAuthenticationSecret>> \notin proved

(* What an account asks for is a code of a secret somebody has entered a   *)
(* code of before, until a new secret replaces it: one written while the   *)
(* second factor is on, or after the guard of the request that turns it on *)
(* has read the old one.  No log-in, refresh, log-out or failure does      *)
(* that, and the second factor is not turned on without a secret.          *)
OnlyNewSecretLocksOut ==
  [][\A u \in Users : ~Unproved(u) /\ Unproved(u)' =>
       \E h \in Handlers :
         /\ task[h].user = u
         /\ \/ SetTwoFactorAuthenticationSecret(h)
            \/ /\ TurnOnTwoFactorAuthentication(h)
               /\ users[u].twoFactorAuthenticationSecret \in Secrets \ {task[h].secret}]_vars

\* The hash that is stored matches the token, or its user has ended the session.
Honoured(t) ==
  \/ users[t.user] = None
  \/ t.user \in out
  \/ users[t.user].currentHashedRefreshToken = Bcrypt(t)

(* A refresh token that was answered is honoured until its user logs out   *)
(* or is removed: further log-ins, which overwrite the one stored hash,    *)
(* end no other session.                                                   *)
SessionsAreHonoured == \A t \in tokens : t.kind = "refresh" => Honoured(t)

Refreshable(u) == users[u] # None /\ users[u].currentHashedRefreshToken # None

(* A log-out ends all sessions of the user: unless a new log-in stores a   *)
(* hash again, access tokens run out, those too that a log-in or a refresh *)
(* under way still answers, even if refresh tokens lived for ever.         *)
SessionsEnd ==
  \A u \in Users :
    \/ []<>Refreshable(u)
    \/ <>[](\A t \in tokens : t.user = u => t.kind # "access")

-----------------------------------------------------------------------------
(* The inductive invariant.                                                *)

\* What a handler holds at the step it stands at: its tokens are of its user; a
\* session of both factors follows a right code, and so does turning the second one
\* on; the hash is stored before a refresh token is answered.
IsWhole(t) ==
  /\ t.step # "idle" => t.user \in Users
  /\ t.step \in {"setToken", "answer"} =>
       \A k \in t.tokens : k.user = t.user /\ (k.second => k.user \in entered)
  /\ t.step = "answer" => \A k \in t.tokens : k.kind = "refresh" => Honoured(k)
  /\ t.step = "setSecret" => t.secret # None
  /\ t.step = "turnOn" =>
       /\ t.secret \in Secrets /\ <<t.user, t.secret>> \in proved
       /\ users[t.user] # None => users[t.user].twoFactorAuthenticationSecret # None

SecondFactorHasSecret ==
  \A u \in Users : TwoFactorOn(u) => users[u].twoFactorAuthenticationSecret # None

TasksAreWhole == \A h \in Handlers : IsWhole(task[h])

(* What every step of the code keeps.                                      *)
IInv ==
  /\ TypeOK
  /\ TasksAreWhole
  /\ SecondFactorByCode
  /\ SecondFactorHasSecret
  /\ SessionsAreHonoured
=============================================================================
