----------------------------- MODULE MailDelivery -----------------------------
(***************************************************************************)
(* Mail, from the request that asks for it to the SMTP server: the email   *)
(* service and its queue processor (email/), the timers of scheduled mail  *)
(* (emailScheduling/) and the one-time passwords (service-otp/).           *)
(*                                                                         *)
(* A request is answered before its job is in Redis, as nobody awaits      *)
(* queue.add.  Timers live in the memory of the process that scheduled     *)
(* them; pm2 runs one process per core (ecosystem.config.js).  The queue   *)
(* is Bull: a worker holds a lock on its job, and a job whose lock expired *)
(* is handed out again.  Mail carries no content here: a mail is one       *)
(* request for mail, and its job goes by the same name.                    *)
(***************************************************************************)
EXTENDS Naturals, FiniteSets

CONSTANTS
  Mails,       \* the mails that can be asked for
  Processes,   \* the processes of the cluster
  MaxStalls,   \* Bull's maxStalledCount: how often a stalled job is handed out again
  Faulty,      \* the processes that may die, lose a lock or have a call rejected
  Refused,     \* the mails that the SMTP server may refuse
  None

ASSUME ProcessesAssumption == IsFiniteSet(Processes)
ASSUME MaxStallsAssumption == MaxStalls \in Nat
ASSUME FaultsAssumption == Faulty \subseteq Processes /\ Refused \subseteq Mails
ASSUME NoneAssumption == None \notin Mails /\ None \notin Processes

VARIABLES
  asked,    \* the mails some request has asked for
  timers,   \* process -> the mails whose cron job it runs
  stopped,  \* the mails whose cron job was stopped
  calls,    \* <<process, call, mail>>: a call to Redis that was made and has not ended
  job,      \* mail -> the state of its job in Redis
  lock,     \* mail -> the process whose lock on the job is valid
  stalls,   \* mail -> how often its job was found without a lock
  work,     \* process -> the job its worker processes
  sent,     \* mail -> how often the SMTP server accepted it
  otp       \* mail -> the one-time password it carries, in the cache

vars == <<asked, timers, stopped, calls, job, lock, stalls, work, sent, otp>>

producers == <<asked, timers, stopped, otp>>
queue == <<job, lock, stalls>>

JobState == {"none", "waiting", "active", "completed", "removed", "failed"}
OtpState == {"none", "pending", "stored", "expired"}
Call == {"queue.add", "cache.set", "job.remove"}
Work == [step : {"idle", "sending", "sent"}, mail : Mails \union {None}]

IdleWorker == [step |-> "idle", mail |-> None]

-----------------------------------------------------------------------------
Init ==
  /\ asked = {}
  /\ timers = [p \in Processes |-> {}]
  /\ stopped = {}
  /\ calls = {}
  /\ job = [m \in Mails |-> "none"]
  /\ lock = [m \in Mails |-> None]
  /\ stalls = [m \in Mails |-> 0]
  /\ work = [p \in Processes |-> IdleWorker]
  /\ sent = [m \in Mails |-> 0]
  /\ otp = [m \in Mails |-> "none"]

(***************************************************************************)
(* The requests.                                                           *)
(***************************************************************************)

\* POST /email/send-queue and the links of registration and resend: the request
\* is answered while add is under way.
SendConfirmationEmail(p, m) ==
  /\ m \notin asked
  /\ asked' = asked \union {m}
  /\ calls' = calls \union {<<p, "queue.add", m>>}
  /\ UNCHANGED <<timers, stopped, otp, queue, work, sent>>

\* sendOtpEmail is not awaited: the call it leaves under way.
SendOtpEmail(p, m) == {<<p, "queue.add", m>>}

\* POST /otp/generate asks for the mail and then awaits the cache.
SaveSectionOtpAndSentMail(p, m) ==
  /\ m \notin asked
  /\ asked' = asked \union {m}
  /\ calls' = calls \union SendOtpEmail(p, m) \union {<<p, "cache.set", m>>}
  /\ otp' = [otp EXCEPT ![m] = "pending"]
  /\ UNCHANGED <<timers, stopped, queue, work, sent>>

StoreOtp(p, m) ==
  /\ <<p, "cache.set", m>> \in calls
  /\ calls' = calls \ {<<p, "cache.set", m>>}
  /\ otp' = [otp EXCEPT ![m] = "stored"]
  /\ UNCHANGED <<asked, timers, stopped, queue, work, sent>>

\* The hour of the entry in the cache is over.
ExpireOtp(m) ==
  /\ otp[m] = "stored"
  /\ otp' = [otp EXCEPT ![m] = "expired"]
  /\ UNCHANGED <<asked, timers, stopped, calls, queue, work, sent>>

\* A date in the past and a second job of the same name and millisecond throw:
\* no timer runs.
ScheduleEmail(p, m) ==
  /\ m \notin asked
  /\ asked' = asked \union {m}
  /\ timers' = [timers EXCEPT ![p] = @ \union {m}]
  /\ UNCHANGED <<stopped, calls, otp, queue, work, sent>>

\* Mutant: the job fires again, as one of a cron pattern does.
FireTimerAgain(p, m) ==
  /\ m \in timers[p]
  /\ calls' = calls \union {<<p, "queue.add", m>>}
  /\ UNCHANGED <<producers, queue, work, sent>>

\* The date has come: a job of a date fires once.
FireTimer(p, m) ==
  /\ m \in timers[p]
  /\ timers' = [timers EXCEPT ![p] = @ \ {m}]
  /\ calls' = calls \union {<<p, "queue.add", m>>}
  /\ UNCHANGED <<asked, stopped, otp, queue, work, sent>>

\* Mutant: the names are forgotten and the jobs go on.
CancelNamesOnly(p) ==
  /\ timers[p] # {}
  /\ stopped' = stopped \union timers[p]
  /\ UNCHANGED <<asked, timers, calls, otp, queue, work, sent>>

\* Only the process that serves the request stops its jobs.
CancelAllScheduledEmails(p) ==
  /\ timers[p] # {}
  /\ stopped' = stopped \union timers[p]
  /\ timers' = [timers EXCEPT ![p] = {}]
  /\ UNCHANGED <<asked, calls, otp, queue, work, sent>>

(***************************************************************************)
(* The queue and its processor.                                            *)
(***************************************************************************)
\* Mutant: the call ends and its job is in no queue.
AddNowhere(p, m) ==
  /\ <<p, "queue.add", m>> \in calls
  /\ calls' = calls \ {<<p, "queue.add", m>>}
  /\ UNCHANGED <<producers, queue, work, sent>>

Add(p, m) ==
  /\ <<p, "queue.add", m>> \in calls
  /\ calls' = calls \ {<<p, "queue.add", m>>}
  /\ job' = [job EXCEPT ![m] = "waiting"]
  /\ UNCHANGED <<producers, lock, stalls, work, sent>>

\* A worker runs one job at a time.
Take(p, m) ==
  /\ work[p].step = "idle"
  /\ job[m] = "waiting"
  /\ job' = [job EXCEPT ![m] = "active"]
  /\ lock' = [lock EXCEPT ![m] = p]
  /\ work' = [work EXCEPT ![p] = [step |-> "sending", mail |-> m]]
  /\ UNCHANGED <<producers, calls, stalls, sent>>

\* Mutant: the result is not awaited.
SendMailLater(p) ==
  /\ work[p].step = "sending"
  /\ work' = [work EXCEPT ![p].step = "sent"]
  /\ UNCHANGED <<producers, calls, queue, sent>>

SendMail(p) ==
  /\ work[p].step = "sending"
  /\ sent' = [sent EXCEPT ![work[p].mail] = @ + 1]
  /\ work' = [work EXCEPT ![p].step = "sent"]
  /\ UNCHANGED <<producers, calls, queue>>

\* sendMail logs the error and resolves, so that the job ends as if it had been
\* sent; the processor's own catch never sees it.
SendMailFails(p) ==
  /\ work[p].step = "sending"
  /\ work[p].mail \in Refused
  /\ work' = [work EXCEPT ![p].step = "sent"]
  /\ UNCHANGED <<producers, calls, queue, sent>>

\* Bull refuses the result of a worker that lost its lock.  The event that the
\* job completed reaches onComplete, which does not await job.remove.
Complete(p) ==
  /\ work[p].step = "sent"
  /\ LET m == work[p].mail IN
       IF lock[m] = p
         THEN /\ job' = [job EXCEPT ![m] = "completed"]
              /\ lock' = [lock EXCEPT ![m] = None]
              /\ calls' = calls \union {<<p, "job.remove", m>>}
         ELSE UNCHANGED <<job, lock, calls>>
  /\ work' = [work EXCEPT ![p] = IdleWorker]
  /\ UNCHANGED <<producers, stalls, sent>>

RemoveJob(p, m) ==
  /\ <<p, "job.remove", m>> \in calls
  /\ calls' = calls \ {<<p, "job.remove", m>>}
  /\ job' = [job EXCEPT ![m] = "removed"]
  /\ UNCHANGED <<producers, lock, stalls, work, sent>>

(***************************************************************************)
(* What can go wrong.                                                      *)
(***************************************************************************)

\* The worker could not reach Redis for the duration of the lock, or is gone.
LoseLock(m) ==
  /\ lock[m] \in Faulty
  /\ lock' = [lock EXCEPT ![m] = None]
  /\ UNCHANGED <<producers, calls, job, stalls, work, sent>>

\* The stalled check of any process.
MoveStalled(m) ==
  /\ job[m] = "active"
  /\ lock[m] = None
  /\ stalls' = [stalls EXCEPT ![m] = @ + 1]
  /\ job' = [job EXCEPT ![m] = IF stalls[m] < MaxStalls THEN "waiting" ELSE "failed"]
  /\ UNCHANGED <<producers, calls, lock, work, sent>>

\* Nobody handles the rejection of add and remove: a mail whose add was rejected
\* is lost, its request answered.
CallFails(c) ==
  /\ c[1] \in Faulty
  /\ calls' = calls \ {c}
  /\ UNCHANGED <<producers, queue, work, sent>>

\* The process dies with its timers, its calls and its worker, and pm2 starts
\* it again.
Crash(p) ==
  /\ p \in Faulty
  /\ timers' = [timers EXCEPT ![p] = {}]
  /\ calls' = {c \in calls : c[1] # p}
  /\ work' = [work EXCEPT ![p] = IdleWorker]
  /\ UNCHANGED <<asked, stopped, otp, queue, sent>>

-----------------------------------------------------------------------------
Request(p, m) ==
  \/ SendConfirmationEmail(p, m)
  \/ SaveSectionOtpAndSentMail(p, m)
  \/ ScheduleEmail(p, m)

RunJob(p) == SendMail(p) \/ SendMailFails(p) \/ Complete(p)

EndCall(p, m) == StoreOtp(p, m) \/ Add(p, m) \/ RemoveJob(p, m)

Next ==
  \/ \E p \in Processes, m \in Mails :
       Request(p, m) \/ FireTimer(p, m) \/ EndCall(p, m) \/ Take(p, m)
  \/ \E p \in Processes : CancelAllScheduledEmails(p) \/ RunJob(p) \/ Crash(p)
  \/ \E m \in Mails : ExpireOtp(m) \/ LoseLock(m) \/ MoveStalled(m)
  \/ \E c \in calls : CallFails(c)

Spec == Init /\ [][Next]_vars

\* The worker that holds the lock on the job is at work on it.
Held(m) == \E p \in Processes : lock[m] = p /\ work[p].step # "idle" /\ work[p].mail = m

\* Dates come, Redis answers, a free worker takes a waiting job and ends it.  A
\* lock nobody renews expires, and the stalled check finds its job.
FairSpec ==
  /\ Spec
  /\ \A p \in Processes : WF_vars(RunJob(p))
  /\ \A p \in Processes, m \in Mails : WF_vars(FireTimer(p, m)) /\ WF_vars(EndCall(p, m))
  /\ \A m \in Mails :
       /\ WF_vars(\E p \in Processes : Take(p, m))
       /\ WF_vars(LoseLock(m) /\ ~Held(m))
       /\ WF_vars(MoveStalled(m))

-----------------------------------------------------------------------------
Adding(m) == \E p \in Processes : <<p, "queue.add", m>> \in calls

\* A mail that nobody asked for yet, or one that can still reach the queue or did.
Underway(m) ==
  \/ m \notin asked \/ m \in stopped \/ job[m] # "none"
  \/ Adding(m) \/ \E p \in Processes : m \in timers[p]

-----------------------------------------------------------------------------
(* Type invariant.                                                         *)
TypeOK ==
  /\ asked \subseteq Mails
  /\ timers \in [Processes -> SUBSET Mails]
  /\ stopped \subseteq Mails
  /\ calls \subseteq Processes \X Call \X Mails
  /\ job \in [Mails -> JobState]
  /\ lock \in [Mails -> Processes \union {None}]
  /\ stalls \in [Mails -> Nat]
  /\ work \in [Processes -> Work]
  /\ sent \in [Mails -> Nat]
  /\ otp \in [Mails -> OtpState]

(* A mail goes out once; only a job that was found stalled can send it     *)
(* again, and Bull hands a job out MaxStalls more times at most, whatever  *)
(* workers that lost their lock still do.                                  *)
SentOnceUnlessStalled ==
  \A m \in Mails : sent[m] <= 1 + stalls[m] /\ sent[m] <= 1 + MaxStalls

(* A scheduled mail that was cancelled is never sent, whatever the other   *)
(* processes and the calls to the queue that are under way do: a timer     *)
(* fires or is stopped, and not both.                                      *)
CancelledIsNeverSent ==
  \A m \in stopped : sent[m] = 0 /\ job[m] = "none"

(* Every mail that a process which does not fail has scheduled or is adding *)
(* to the queue ends: it was cancelled, its job completed and the mail is   *)
(* out (or the SMTP server refused it), or Bull gave the job up because the *)
(* workers it was handed to died under it, once more than it allows.        *)
AskedIsSent ==
  \A p \in Processes \ Faulty, m \in Mails :
    (m \in timers[p] \/ <<p, "queue.add", m>> \in calls) ~>
      \/ m \in stopped
      \/ /\ job[m] \in {"completed", "removed"}
         /\ sent[m] > 0 \/ m \in Refused
      \/ /\ job[m] = "failed"
         /\ stalls[m] > MaxStalls

(* A mail that was asked for has a timer, a call that adds it, or a job,    *)
(* unless it was cancelled.  Only the end of the process that holds its     *)
(* timer or makes its call, or Redis rejecting the call, loses it: no       *)
(* restart brings a timer back.                                             *)
LostByFailureOnly ==
  [][\A m \in Mails : Underway(m) /\ ~Underway(m)' =>
       \E p \in Faulty : /\ m \in timers[p] \/ <<p, "queue.add", m>> \in calls
                         /\ Crash(p) \/ CallFails(<<p, "queue.add", m>>)]_vars

(* What the processor's log line and its rethrow, and 120 attempts, say: a *)
(* job whose mail could not be sent does not count as completed.           *)
CompletedWasSent ==
  \A m \in Mails : job[m] \in {"completed", "removed"} => sent[m] > 0

-----------------------------------------------------------------------------
(* The inductive invariant behind SentOnceUnlessStalled and                *)
(* CancelledIsNeverSent.                                                   *)

Senders(m) == {p \in Processes : work[p].step = "sending" /\ work[p].mail = m}

\* A mail waits for its date in one process, or is on its way to the queue from
\* one, or was stopped, or has a job.
Place(m) ==
  /\ m \in asked \/ (m \notin stopped /\ ~Adding(m) /\ job[m] = "none")
  /\ m \in stopped => ~Adding(m) /\ job[m] = "none"
  /\ Adding(m) => job[m] = "none"
  /\ \A p \in Processes : m \in timers[p] =>
       /\ m \in asked
       /\ m \notin stopped
       /\ ~Adding(m)
       /\ job[m] = "none"
       /\ \A q \in Processes : m \in timers[q] => q = p
  /\ \A p, q \in Processes :
       <<p, "queue.add", m>> \in calls /\ <<q, "queue.add", m>> \in calls => p = q

InOnePlace == \A m \in Mails : Place(m)

JobsAreWorked ==
  /\ \A p \in Processes : work[p].step # "idle" =>
       work[p].mail \in Mails /\ job[work[p].mail] # "none"
  /\ \A m \in Mails : lock[m] # None => job[m] = "active"
  /\ \A p \in Processes, m \in Mails :
       <<p, "job.remove", m>> \in calls => job[m] \in {"completed", "removed"}

\* A job was handed out once and once more for every time it was found stalled;
\* each time it is still waiting, still being sent, or sent at most once.
SendsAreCounted ==
  \A m \in Mails :
    /\ job[m] = "none" => sent[m] = 0 /\ stalls[m] = 0
    /\ stalls[m] <= IF job[m] = "failed" THEN MaxStalls + 1 ELSE MaxStalls
    /\ sent[m] + Cardinality(Senders(m)) <=
         IF job[m] \in {"none", "waiting", "failed"} THEN stalls[m] ELSE 1 + stalls[m]

(* What every step of the code keeps.                                      *)
IInv == TypeOK /\ InOnePlace /\ JobsAreWorked /\ SendsAreCounted
=============================================================================
