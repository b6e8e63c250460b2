# A verification of nestjs-wanago in TLA+

This directory models the backend in `src/`: a NestJS application on MongoDB
(mongoose), Redis (cache, Bull queues, socket.io adapter), S3 and an SMTP
server. It can run as several processes (pm2), and nothing in it serialises
requests: every `await` of a handler is a point at which any other handler,
of the same process or of another, may take its own steps. Most of what can go
wrong here goes wrong at such a point, and that is what the modules are about.

Paths below are relative to `src/src/`.

## 1. The system

| component | state it keeps | operations | what is hard about it | modelled in |
|---|---|---|---|---|
| Category approval (`categories/`, `service-approve/`) | categories, approval requests | create, approve, reject, PUT, DELETE | two documents written one after the other; a decision reads, then writes twice | CategoryApproval, ApprovalGate, ApprovalAtomic |
| Files and avatars (`files/`, part of `users/`) | S3 objects, file documents, the copy in the user | upload, set and delete the avatar | three stores, no transaction, several handlers on one file | AvatarFiles |
| Mail (`email/`, `emailScheduling/`, `service-otp/`) | cron jobs in memory, Bull jobs, one-time passwords | send, schedule, cancel, process, store the password | crashes, lost locks, calls that are not awaited, swallowed errors | MailDelivery |
| Removal of a user (`users/`, `posts/`, `utils/wapper/`) | users, posts | the transaction, and the posts' own routes, which can also hand a post to another user | a snapshot against concurrent writes; conflicts and retries | UserRemoval |
| Accounts (`authentication/`, `users/`, `email-confirmation/`, `google-authentication/`) | users, confirmation | register, first log-in with Google, confirm, resend, remove | look up, then create; links that outlive accounts | Accounts, AddressBook |
| Profile cache (`common/builder/cache.builder.ts`) | one Redis entry per address | read, fill, expire | filled with what was read before an await; never invalidated | Accounts |
| Sessions and second factor (`authentication/token/`, `authentication/twoFactor/`) | one hash of a refresh token, a secret, a flag | log-in, refresh, log-out, generate, turn on, authenticate | guards work on a copy of the user; tokens outlive what they were issued for | Sessions |
| Role and permission guards (`authentication/guards/`) | none | decide | — | the token guards in Sessions, RoleGuard in Listings |
| Chat (`chat/`) | messages, sockets, rooms | connect, send, history over the socket and by GET | a page and a history against new messages | Listings (not the rooms) |
| Lists of posts, comments, categories, requests | documents | create, edit, delete, read page by page | pages shift under the reader, and mostly have no order | Listings |
| Client query (`common/client-query/`) | none | parse a query; count and page | two queries for one answer; who wins on a field; numeric edges | ClientQuery, Listings |
| Image and audio jobs (`optimize/`) | Bull jobs | upload, poll, process, global events | two reads for one answer; retries, stalls, lost locks | OptimizeJobs, AsyncJobs |
| Local files (`local-files/`) | files on disk, documents | save | a file without its document | AvatarFiles |
| RBAC accounts (`service-rbac/`) | accounts | create, update, delete | unique names under races | not modelled |
| Request log, series | documents | single-document operations | nothing interleaves inside them | not modelled |
| Post search, cluster start, filters and helpers | none of their own | — | no caller, wiring, or pure shape of answers | not modelled |

How they interact: the guards of every route read the user's document first
(Sessions, Accounts); registration and resends ask the mail component for a
link; log-ins, avatars and the second factor write fields of one user document;
the removal deletes that document and the user's posts; the scheduler and the
OTP service feed the same queue.

What makes each one correct:

- *Approval*: a category is visible as ACTIVE or INACTIVE only by a verdict on
  a request for it, with the data of that request; nothing stays PENDING that
  nobody can decide; a decision is final where decisions are serial.
- *Avatars*: an avatar that is shown exists in S3 and in the collection; a
  deletion or an upload that succeeds reaches both.
- *Mail*: once unless a job stalls; never after a cancellation; eventually,
  while nothing fails.
- *Removal*: all posts that the removal could see go with their author, in one
  step, and only then.
- *Accounts*: one account per address, confirmed only through a link for the
  address; every registration gets its link; the cached profile ends up right.
- *Sessions*: both factors only by a code; only a new secret can lock a user
  out; log-ins do not end other sessions, a log-out ends them all.
- *Lists and chat*: by cursor, every message once; by offset through a sorted list,
  wrong by no more than came and went, and without a sort as many hits as were
  announced; hits are the service's own and what was asked for; no message between
  the history and the live ones.
- *Jobs*: a job ends, once, after a bounded number of runs; who asks for it is told
  how it stands.

## 2. How the code is read

- A handler (`Handlers`) is a slot that serves one request at a time. Its
  suspension points are the values of `task[h].step`, its locals are the other
  fields of `task[h]`. One action runs from one await to the next.
- What MongoDB, Redis or S3 does in one call is atomic. A call that two handlers
  make is ordered one way or the other.
- `Fail(h)` for `h \in Faulty` is a rejected call or the end of the process at
  an await: the handler stops where it stands, and what is written stays.
- An early return that changes nothing (not found, wrong password, validation)
  is the absence of a step.
- ObjectIds, uuids and secrets are drawn from a set and not used twice
  (`minted`, `drawn`). When the set is used up the system may stop, and may idle
  before that: `CHECK_DEADLOCK FALSE` where a run says so.
- Variables that are marked *history* are not in the code. They record what a
  property has to relate a later state to, and no guard reads them.

## 3. The modules

**CategoryApproval** — `CreateCategory`/`CreateApprove` are the two writes of
POST /categories; `Approved`/`Rejected` are the read of
`findApprovePendingForAction`, `WriteApprove` and `WriteCategory` the two writes
of `approve-category.service.ts`. `UpdateCategory` is the PUT with
`overwrite: true`: the DTO carries only the name, so the status is the schema's
default again, author and modifiedBy are gone, and nothing approves the category
any more. NeverStranded and DecidedIsApplied except such categories. A rejection
writes `acceptedBy` as an approval does. `verdicts` is history.
NeverStranded is an action property: a pending category stops being attended to
only in a step in which the handler that works on it fails.
*ApprovalGate* is what a reader of categories is promised: nothing opens without
a verdict cast on it. *ApprovalAtomic* makes a decision one step: request and
category agree. MCCategoryApproval gives both their values.

**AvatarFiles** — `AddFile`/`AddAvatar`, `SaveFile`, `SetAvatar` are
`uploadPublicFile`, `uploadPrivateFile` and `addAvatar`; `ReadAvatar`,
`ClearAvatar`, `FindFile`, `DeleteObject`, `DeleteFile` are `deleteAvatar` and
`deletePublicFile` await by await. Public and private uploads take the same
steps and are one. `LocalFilesInterceptor` and `AddFileLocal` are the upload to the
disk: multer has stored the file before the handler runs. The file that a new avatar replaces stays stored, in the code
and in the model.

**MailDelivery** — requests put calls in `calls` (an `add`, a cache `set` or a
`remove` that was started and has not ended: the code does not await it); the mail
with a one-time password is asked for before the password is put in the cache
(section 5);
`FireTimer` and `CancelAllScheduledEmails` are the cron jobs of one process;
`Take`, `SendMail`, `SendMailFails`, `Complete`, `RemoveJob` are Bull's worker
with the processor of `email.processor.ts`; `LoseLock`, `MoveStalled`,
`CallFails`, `Crash` are the faults. Locks, stalled jobs and SMTP are external:
they are modelled from how the code uses them.

**UserRemoval** — `DeleteUser`, `DeletePosts`, `Commit` are the callback of
`withTransaction` and the commit. The transaction works on a snapshot (`seen`);
a post in it that somebody changed is `stale`, and the delete of a stale post is
a write conflict after which the driver runs the callback again. `UpdatePost`
writes the author that the DTO may carry, whoever that is: a post can come to a
user who is removed already, or to one whose posts a removal has read. `Comes`
notes such a post in the history `late`, as it does one that is saved too late, and
takes it out when the post goes to a user who is still there. Waiting for a
document another transaction has written (`UserHeld`, `PostHeld`) stands for the
conflicts and retries that MongoDB answers with. `Commit` is one step: the second
`commitTransaction`, which `withTransaction` adds to the driver's, changes
nothing. The transaction needs a replica set; the standalone server of
docker-compose refuses it.

**Accounts** — `Register`, `Create` and `SendVerificationLink` are POST
/authentication/register; `GoogleAuthenticate`, `Create`,
`SetCurrentRefreshToken` the log-in with Google, which takes any error of the
look-up for "not found"; `ConfirmEmail` and `MarkEmailAsConfirmed` the link.
A link is for an address, not for an account, and does not expire here (more
behaviours than the code has). `ResendConfirmationLink` never refuses: `getById`
does not select `isEmailConfirmed`. `GetCache`, `SetCache`, `ExpireProfile` are
`CacheBuilder` with its ttl of an hour; `seen` is the user as the guard read it.
`profile` stands for all fields that `getById` selects. `lost` is history.
*AddressBook* is the promise: one holder per address, confirmed only when invited,
and free and unconfirmed after a release. The map takes an address to the account
that has it.

**Sessions** — `LogIn`, `Authenticate`, `SetCurrentRefreshToken`, `Answer`:
tokens are signed first, their hash is stored, and then they are answered.
`Refresh` answers an access token of the first factor whatever the refresh token
was. `GenerateAuthenticationSecret`, `TurnOn` and their writes are the second
factor; the guards (`JwtAuthenticationGuard`, `JwtTwoFactorGuard`,
`JwtRefreshGuard`) are operators on the token and the stored user. A token is its
payload: two that differ in dates only are one. `Bcrypt(token) == token.user`
because bcrypt reads 72 bytes, which for these JWTs are the header and the first
15 digits of the user's id; so all refresh tokens of a user match the stored
hash, and this is why `SessionsAreHonoured` holds (its mutant hashes the whole
token, and it fails). JWT_SECRET, with which the guards verify, is taken to be
JWT_ACCESS_TOKEN_SECRET. `proved`, `entered` and `out` are history. A new secret
that is written while the second factor is on, or while it is turned on with a
code of the one before, leaves the account asking for a code of a secret nobody
has entered a code of (`Unproved`): a user who does not have the new one is locked
out. OnlyNewSecretLocksOut, an action property, says that this is the only way.
SecondFactorByCode says that a session of both factors was opened by a code at
/2fa/authenticate and by nothing else; of which secret is left open, since
by the code a session of the first factor may replace it, which is finding 3
(FirstFactorOnlyAuthenticates).

**ClientQuery** — operators only. `ParseQuery` is `parseQuery`: every field has a set
of conditions `<<operator, value>>`; the `or` of all fields becomes one `$or`, and
takes the other conditions of its field with it; a `contains` replaces the others.
`MongoFilter` is `{ ...filter, ...queryMongoose }`, `Matches` what MongoDB makes of
it. `Page` is skip and limit of a list sorted by `_id`, the newest first, as the chat
asks for it and as a client may (`?_id[sort]=desc`). `parseQuery` returns
`sort = {}` otherwise, and then MongoDB promises no order: `Pages` has every
page of that size. `TotalPages` is the announced pages. Ascending by `_id` is the
mirror image; a sort by another field breaks ties as it likes and is covered
by the pages of any order.

**Listings** — one collection (of five) that grows, shrinks, is edited and is read. `New`
draws the id when the document is built, `Save` stores it after an await, so
documents appear in any order of their ids. `Emit` sends a message to the sockets
of its own process (`server.local`). `GetPagination` and `FindForQuery` are the two
calls of `findForQuery`; `NextPage` is the client, by cursor (`id_lt`, chat only) or by offset.
`HandleConnection`, `RequestAllMessages`, `SendAllMessages` are the
gateway's; a socket whose token is nobody's stays open and hears what is sent, as
in the code. `Edit` changes the field that filters read: the author of a post, which
PUT and PATCH /posts/:id may give to somebody else, any field of a category or of a
request. So a document comes into a walk's list, and goes from it, without being
created or deleted; `Noted` counts both ways in `came` and `went`. These, `start`,
`again` and `pages` of a walk are history. A walk has a `sort`: the chat's is always
by `_id`, and of the other lists it is the client's. CursorWalkIsExact is the
point of `id_lt`; OffsetWalkDrifts and AnnouncedPagesSuffice say by how much an
offset can go wrong in a sorted list; AnnouncedHitsSuffice what is left of it in a
list without a sort, the number of hits; HitsAreAskedFor relates the answer to the
query field by field, without the filter's own definition; NoGap joins the history to the live messages. It holds
for messages of the socket's own process only: a message that another
process stores reaches no socket there, by `server.local`. MCListings
has the instance.

**OptimizeJobs** — `Add` is the upload; `GetJob` and `IsCompleted` the two
reads of GET /optimize/image/:id, of which the second decides and the first has
the return value: a job that completes in between is answered with an error (500).
`Take`, `Progress`, `Complete`, `Fail`, `Promote` are
Bull's worker and the processors, `Handle` the handlers of global events, which run
in every process; `LoseLock`, `MoveStalled`, `Crash` are the faults. A process has one worker and runs
one job at a time. Jobs are never removed (`job.remove()` and `removeOnComplete` are
commented out), so that `Handle` always finds its job. `runs` is history. A failed
image is answered 202 for ever, which *AsyncJobs*, the abstract promise, says
too: a job ends once, and every answer fits the way it stood at one moment of
the request.

Each module ends with one `TypeOK`, its properties, and `IInv`, a conjunction of
named parts that is inductive; it is proved (section 6), so that no run spends time on
it. Two modules have a second layer over it, that is proved too: `WalksAreCounted` of
Listings, and `PurgedAreGone` of AvatarFiles with the action property
`StoresPartByFailure`. TLC checked each of them on the run's instance first. Definitions marked *Mutant* are wrong versions of
the code; each property is violated by one of them (PROJECT.json, `mutants`).

## 4. The runs

| run | bounds | checks | shows |
|---|---|---|---|
| approval_race | 2 categories, requests, users, names, handlers that all decide and all fail; symmetric | PublishedByVerdict, PublishedAsRequested, NeverStranded, GateSpec | no category opens without a verdict, under any race and crash; only a failure strands one |
| approval_one_decider | the same with one decider, which does not fail; the other slot may; fair | VerdictAgrees, DecisionFinal, AtomicSpec, DecidedIsApplied, CreatedIsRequested | serial decisions are final, agree, look atomic, and are carried out |
| approval_decided_twice | one category and request, two deciders | DecisionFinal (violated) | finding 1 |
| avatar | 2 users, 2 files, 3 handlers, one faulty; fair | AvatarNeverDangles, DeletionCompletes, UploadIsRecorded | no dangling avatar; own success suffices |
| mail | 2 mails, one refused by SMTP, 2 processes, one faulty, one stall; fair | SentOnceUnlessStalled, CancelledIsNeverSent, LostByFailureOnly, AskedIsSent | duplicates come from stalls, losses from failures of the own process only |
| mail_failed_completes | 2 mails, 1 process, SMTP errors | CompletedWasSent (violated) | finding 2 |
| removal | 2 users, 3 posts, 2 handlers, one faulty, 2 upsets (edits, handing over or not, and failures); fair | OrphansAreLate, PostsGoWithTheirAuthor, RemovalCompletes | the transaction does what it is for |
| accounts | 1 address, 3 ids, 2 profiles, 2 handlers, one faulty; fair | EmailIsUnique, ConfirmedByLink, LinkIsUnderWay, BookSpec, ProfileSettles | one account per address, confirmed by a link |
| sessions | 1 user, 2 secrets, 3 handlers, one faulty; fair | SecondFactorByCode, SessionsAreHonoured, OnlyNewSecretLocksOut, SessionsEnd | factors, refreshes and log-outs interleave safely, but for a secret that is replaced |
| sessions_first_factor | 1 user, 2 secrets, 1 handler | FirstFactorOnlyAuthenticates (violated) | finding 3 |
| listings | 3 ids of 2 owners, 2 processes with a handler each, one faulty, 1 client, 3 queries, sorted or not, pages of 2, one edit; fair | CursorWalkIsExact, OffsetWalkDrifts, AnnouncedPagesSuffice, AnnouncedHitsSuffice, HitsAreAskedFor, NoGap, SentIsDelivered | what readers of a changing list may read twice, miss or be told |
| jobs | 1 image that may fail, 1 audio, 3 processes, one faulty, 1 client, 2 attempts, 1 stall; fair | RunsAreBounded, AnswersAreTrue, ResultIsFinal, PromiseSpec, AddedEnds | jobs end once and are answered for truthfully |

Why the bounds are enough to be interesting: every race in this code is between
two handlers on one document, so two handlers reach it; the avatar and the
sessions have three because a third can interfere with two that already hold the
same file or token set. Two categories, users, posts or mails show that
one does not get what belongs to the other. Addresses do not interact (every
guard compares equal addresses), so that one address with three accounts, one
after the other, reaches a link that outlives two of them. Accounts do not
interact in Sessions either (each guard and write is for the token's user); the
theorems are for any number. Three documents with pages of two give a list of two
pages that gains and loses documents on both sides of the reader, by one edit
(`MaxEdits`) as well as by creations and deletions; the limit the client sends is
0, for which the default stands in, and the theorems are for every limit;
clients do not interact (each walk and socket is its own), and two processes tell
the own from the other's. The three processes of the jobs are a worker that lost
its lock, one that runs the job again, and one that only hears of it. `MaxUpsets` bounds edits and failures in
UserRemoval, `MaxStalls` is Bull's `maxStalledCount` (1 by default).

Fairness is weak fairness of `Proceed(h)`: a call to MongoDB, Redis or S3 ends
with a result or an error, and Node runs the continuation. A faulty handler is
fair as well, but `Fail` competes with its steps, so that liveness is claimed
only for handlers that are not faulty. The mail run adds that dates come and that
a free worker takes a waiting job, that locks nobody renews expire and that the
stalled check runs, and so does the run of the jobs (a run of a processor ends, and a backoff); Accounts that Redis drops what has expired;
Sessions that access tokens expire (not refresh tokens, which SessionsEnd does
not need). Nothing is assumed of clients. RemovalCompletes needs
that edits and failures end (`MaxUpsets`): a removal that meets a conflict at every
attempt starts over for ever.

## 5. Findings

1. *A decided request is decided again* (`approve-category.service.ts:36`).
   The look-up asks for a pending request; the write does not repeat the
   condition. Two handlers that both read before either writes both decide, and
   category and request can end up with opposite verdicts.
2. *A mail that the SMTP server refuses is never retried*
   (`email/email.service.ts:48`). The processor rethrows and the queue is set to
   120 attempts, but `sendMail` logs the error and resolves: the job completes
   and is removed.
3. *With the second factor on, the first one reaches more than
   `/2fa/authenticate`* (`authentication/twoFactor/twoFactorAuthentication.controller.ts:31`),
   against "we provide the access just to the `/2fa/authenticate` endpoint" in the
   repository's README (line 100). The token of a log-in is the same payload before and
   after the second factor is turned on, and the guard of the 2FA routes does not look at
   the flag: a session of the first factor has a new secret generated, is
   answered it, and opens a session of both factors with a code of it.

A fourth divergence can be read off the code and has no run: the comment on the
OTP route (`service-otp/service-opt.controller.ts:25`) says that the event is
stored and the mail sent after that, while `service-otp/service-otp.service.ts:56`
asks for the mail first and then awaits the cache. The mail can be out before the
password can be verified, and if the cache rejects the call it never can.

## 6. What is proved

TLAPS proves, for every value of the constants and from the named assumptions of
the modules only (what the constants are sets of, that `None` is no value, that the
faulty are among those there are; `ProcessesAssumption` of MailDelivery and
`IdsAssumption` of Listings ask for finitely many processes and ids):

| module | theorems | the argument |
|---|---|---|
| CategoryApprovalProofs | Invariance, TypeCorrect, NothingOpensWithoutVerdict, PublishedIsWhatWasRequested, NobodyStrandsACategory, GateRefinement; with no failures AttendedUnlessFailed; for one decider (`SoleDecider`) SerialDecisionsAgree, SerialDecisionsAreFinal, and AtomicRefinement if that decider does not fail | A handler about to write the category has its verdict recorded on its request, and holds that request's newData; every step opens, casts, resets or removes in the gate, or stutters. With one decider, a request read as pending is pending until that decider writes it. ApprovalAtomic sees its verdict only when the category has it (`Verdict` hides one whose second write is to come), so the first write stutters and the second decides both; a decider that failed between the two would show the verdict without the category, and TLC finds AtomicSpec violated there. |
| AvatarFilesProofs | Invariance, AvatarsAreWhole, StoresPart; with no failures StoresAgreeUnlessFailed | A file being uploaded belongs to its handler alone, and one being deleted is no longer linked when its object goes. An object that was deleted does not come back, since keys are drawn once; so a handler on its way to the second store is the only one that can leave the two apart, and it does so only by failing. |
| MailDeliveryProofs | Invariance, SendsAreBounded, CancelIsFinal, MailsAreLostByFailure | A mail is in one place (timer, call, job, stopped); sends and senders together are covered by the times the job was handed out. |
| UserRemovalProofs | Invariance, RemovalIsComplete, RemovalIsAtomic | One open transaction holds a user; each post of the user is in its snapshot or late, and one that an edit moved away is stale, so that the transaction starts over. |
| AccountsProofs | Invariance, AddressesAreUnique, ConfirmationNeedsLink, RegistrationsGetLinks, BookRefinement | A step keeps what each handler carries; the holder of an address is determined by uniqueness, so each write is a step of the book. |
| SessionsProofs | Invariance, SecondFactorNeedsCode, LockedOutByNewSecret, RefreshTokensAreHonoured | Documents only *grow*: no write takes a secret away, or the hash of a session that its user has not ended; so what a suspended handler relies on stays true. A handler about to turn the second factor on holds a secret whose code was entered, so that the flag it sets asks for an unproved one only if another secret was written in between. |
| OptimizeJobsProofs | Invariance, RunsAreFew, AnswersFit, ResultsStay, PromiseRefinement | A job that may run again was run once for every failure and every stall; a lock is on active jobs only; what a poll read was so when it read it, and results stay. |
| ListingsProofs | Invariance, CursorWalks, PagesAreAskedFor, HistoriesMeetTheLive; CountInvariance, OffsetWalks, AnnouncedPages, AnnouncedHits; StillListsArePaged | The first page of a set holds, with a document, all that come before it, and is everything when it is not full (proved from the definition of `Page`); so a walk by cursor has read, at any time, all of its beginning from its cursor up, and nothing twice. For a walk by offset, `WalksAreCounted` counts: in a sorted list one more document pushes at most one that was read back in front of the offset, one less pulls at most one that was not read behind it; so what is repeated is covered by `came` and what is missed by `went`. In any list a page that is not full is the last one and ends where the offset meets the number of documents, so that full pages, `came` and the announced pages together cover `start`. StillListsArePaged is about `Page` and `TotalPages` alone: a sorted list nobody changes lies on the announced pages, each document on one. |

None of the properties is inductive alone: each also needs what a suspended
handler is entitled to (its locals against the shared state), which is what the
named parts of `IInv` and `SerialInv` say.

Only model-checked: liveness (DecidedIsApplied, CreatedIsRequested,
DeletionCompletes, UploadIsRecorded, AskedIsSent, RemovalCompletes, ProfileSettles,
SessionsEnd, SentIsDelivered, AddedEnds), which is beyond the prover. Every
invariant, action property and refinement that a passing run checks is a theorem;
those of approval_one_decider hold under the conditions on the decider that its
instance meets.

## 7. Not modelled, and why

- Reads that change nothing: single documents, downloads, presigned links,
  `verifyOtp`, the full-text search of the posts.
- RBAC accounts: each operation is one insert, update or delete that a unique
  index decides, the pattern of `Create` in Accounts; validating a name is
  an answer of its own, on which no later step relies.
- The request log and series: documents written alone and related to nothing.
- The rooms of the chat: messages to a room are passed on and stored nowhere.
- Code without a caller: `deleteWithoutTransactions`, `deletePost`, `updatePost`,
  `cancelcheduledByName`, `deleteCron`, `runInCluster`, `waitForSessionCommit`,
  `queryAggregate`, the post search; ImageProcessor of `optimize.processor.ts`, which
  no module provides; the cache of the post lists, commented out where it was used.
- Negative limits and offsets, which MongoDB refuses. A client's sort by another field than `_id` has no
  property of its own.
- Comments and files of removed posts and users stay in the code; no step
  relates them to the removal.
- Writes to the user's document other than the removal's own, in UserRemoval:
  they would conflict and be retried like the posts.
- Timers are lost by a restart and cancelled in one process only. The model has
  both; the code promises nothing about them.
- Start and shutdown of the processes, other than a crash.
- Passwords, codes and signatures as data; validation, error texts, cookies.

## 8. Where it could go on

Composition: Accounts with MailDelivery (a link that is asked for is mailed), and
Sessions with UserRemoval (a removal that meets writes to the user). Theorems
still worth proving: for Sessions and UserRemoval what AttendedUnlessFailed and
StoresAgreeUnlessFailed are for approval and files, a statement of what the stores
hold once no handler is at work.
