-------------------------- MODULE MailDeliveryProofs --------------------------
(***************************************************************************)
(* How often a mail is sent, for any number of mails and processes and     *)
(* with any failure.                                                       *)
(***************************************************************************)
EXTENDS MailDelivery, FiniteSetTheorems, TLAPS

USE ProcessesAssumption, MaxStallsAssumption, NoneAssumption

-----------------------------------------------------------------------------
\* The actions that touch neither the queue nor a worker.
Quiet == UNCHANGED <<job, lock, stalls, work, sent>>

LEMMA InitIInv == Init => IInv
<1> SUFFICES ASSUME Init PROVE IInv
  OBVIOUS
<1>1. TypeOK
  BY DEF Init, TypeOK, JobState, OtpState, Work, IdleWorker, Call
<1>2. InOnePlace /\ JobsAreWorked
  BY DEF Init, InOnePlace, Place, JobsAreWorked, Adding, IdleWorker
<1>3. ASSUME NEW m \in Mails PROVE Cardinality(Senders(m)) = 0
  <2>1. Senders(m) = {}
    BY DEF Init, Senders, IdleWorker
  <2> QED
    BY <2>1, FS_EmptySet
<1>4. SendsAreCounted
  BY <1>3 DEF Init, SendsAreCounted
<1> QED
  BY <1>1, <1>2, <1>4 DEF IInv

-----------------------------------------------------------------------------
LEMMA TypeStep == TypeOK /\ JobsAreWorked /\ [Next]_vars => TypeOK'
<1> SUFFICES ASSUME TypeOK, JobsAreWorked, [Next]_vars PROVE TypeOK'
  OBVIOUS
<1> USE DEF TypeOK, producers, queue
<1>1. ASSUME NEW p \in Processes, NEW m \in Mails, Request(p, m) PROVE TypeOK'
  BY <1>1 DEF Request, SendConfirmationEmail, SaveSectionOtpAndSentMail, SendOtpEmail, ScheduleEmail,
              Call, OtpState
<1>2. ASSUME NEW p \in Processes, NEW m \in Mails, FireTimer(p, m) PROVE TypeOK'
  BY <1>2 DEF FireTimer, Call
<1>3. ASSUME NEW p \in Processes, NEW m \in Mails, EndCall(p, m) PROVE TypeOK'
  BY <1>3 DEF EndCall, StoreOtp, Add, RemoveJob, OtpState, JobState
<1>4. ASSUME NEW p \in Processes, NEW m \in Mails, Take(p, m) PROVE TypeOK'
  BY <1>4 DEF Take, JobState, Work
<1>5. ASSUME NEW p \in Processes, CancelAllScheduledEmails(p) PROVE TypeOK'
  BY <1>5 DEF CancelAllScheduledEmails
<1>6. ASSUME NEW p \in Processes, RunJob(p) PROVE TypeOK'
  <2>0. work[p].step # "idle" => work[p].mail \in Mails
    BY DEF JobsAreWorked
  <2>1. CASE SendMail(p)
    <3> DEFINE m == work[p].mail
    <3>1. m \in Mails /\ sent' = [sent EXCEPT ![m] = @ + 1]
      BY <2>0, <2>1 DEF SendMail
    <3>2. work' \in [Processes -> Work]
      BY <2>1 DEF SendMail, Work
    <3>3. UNCHANGED <<asked, timers, stopped, otp, calls, job, lock, stalls>>
      BY <2>1 DEF SendMail
    <3> HIDE DEF m
    <3>4. sent' \in [Mails -> Nat]
      BY <3>1
    <3> QED
      BY <3>2, <3>3, <3>4
  <2>2. CASE SendMailFails(p)
    BY <2>2 DEF SendMailFails, Work
  <2>3. CASE Complete(p)
    <3> DEFINE m == work[p].mail
    <3>1. IdleWorker \in Work /\ m \in Mails
      BY <2>0, <2>3 DEF IdleWorker, Work, Complete
    <3>2. work' \in [Processes -> Work]
      BY <2>3, <3>1 DEF Complete
    <3>3. CASE lock[m] = p
      <4>1. /\ job' = [job EXCEPT ![m] = "completed"]
            /\ lock' = [lock EXCEPT ![m] = None]
            /\ calls' = calls \union {<<p, "job.remove", m>>}
        BY <2>3, <3>3 DEF Complete
      <4> HIDE DEF m
      <4>2. UNCHANGED <<asked, timers, stopped, otp, stalls, sent>>
        BY <2>3 DEF Complete
      <4> QED
        BY <3>1, <3>2, <4>1, <4>2 DEF JobState, Call
    <3>4. CASE lock[m] # p
      BY <2>3, <3>2, <3>4 DEF Complete
    <3> QED
      BY <3>3, <3>4
  <2> QED
    BY <1>6, <2>1, <2>2, <2>3 DEF RunJob
<1>7. ASSUME NEW p \in Processes, Crash(p) PROVE TypeOK'
  BY <1>7 DEF Crash, IdleWorker, Work
<1>8. ASSUME NEW m \in Mails, ExpireOtp(m) \/ LoseLock(m) \/ MoveStalled(m) PROVE TypeOK'
  BY <1>8 DEF ExpireOtp, LoseLock, MoveStalled, OtpState, JobState
<1>9. ASSUME NEW c \in calls, CallFails(c) PROVE TypeOK'
  BY <1>9 DEF CallFails
<1>10. CASE UNCHANGED vars
  BY <1>10 DEF vars
<1> QED
  BY <1>1, <1>2, <1>3, <1>4, <1>5, <1>6, <1>7, <1>8, <1>9, <1>10 DEF Next

-----------------------------------------------------------------------------
\* What Place says of a mail depends on these facts only.
LEMMA PlaceFrame ==
  ASSUME NEW n \in Mails, Place(n),
         n \in asked => n \in asked',
         n \in stopped' <=> n \in stopped,
         \A p \in Processes : n \in timers'[p] => n \in timers[p],
         \A p \in Processes : <<p, "queue.add", n>> \in calls' => <<p, "queue.add", n>> \in calls,
         job[n] = "none" => job'[n] = "none"
  PROVE  Place(n)'
BY DEF Place, Adding

LEMMA PlaceStep == IInv /\ [Next]_vars => InOnePlace'
<1> SUFFICES ASSUME IInv, [Next]_vars, NEW n \in Mails PROVE Place(n)'
  BY DEF InOnePlace
<1>0. Place(n) /\ TypeOK
  BY DEF IInv, InOnePlace
<1> USE DEF producers, queue
<1>1. ASSUME NEW p \in Processes, NEW m \in Mails, Request(p, m) PROVE Place(n)'
  <2>1. CASE n # m
    BY <1>0, <1>1, <2>1, PlaceFrame
    DEF TypeOK, Request, SendConfirmationEmail, SaveSectionOtpAndSentMail, SendOtpEmail, ScheduleEmail
  <2>2. CASE n = m
    <3>1. n \notin asked /\ asked' = asked \union {n} /\ stopped' = stopped /\ job' = job
      BY <1>1, <2>2 DEF Request, SendConfirmationEmail, SaveSectionOtpAndSentMail, SendOtpEmail, ScheduleEmail
    <3>2. /\ n \notin stopped /\ ~Adding(n) /\ job[n] = "none"
          /\ \A q \in Processes : n \notin timers[q]
      BY <3>1, <1>0 DEF Place
    <3>3. CASE ScheduleEmail(p, m)
      <4>1. calls' = calls /\ \A q \in Processes : n \in timers'[q] => q = p
        BY <1>0, <2>2, <3>2, <3>3 DEF ScheduleEmail, TypeOK
      <4> QED
        BY <3>1, <3>2, <4>1 DEF Place, Adding
    <3>4. CASE SendConfirmationEmail(p, m) \/ SaveSectionOtpAndSentMail(p, m)
      <4>1. timers' = timers /\ \A q \in Processes : <<q, "queue.add", n>> \in calls' => q = p
        BY <2>2, <3>2, <3>4 DEF SendConfirmationEmail, SaveSectionOtpAndSentMail, SendOtpEmail, Adding
      <4> QED
        BY <3>1, <3>2, <4>1 DEF Place, Adding
    <3> QED
      BY <1>1, <3>3, <3>4 DEF Request
  <2> QED
    BY <2>1, <2>2
<1>2. ASSUME NEW p \in Processes, NEW m \in Mails, FireTimer(p, m) PROVE Place(n)'
  <2>1. CASE n # m
    BY <1>0, <1>2, <2>1, PlaceFrame DEF TypeOK, FireTimer
  <2>2. CASE n = m
    <3>1. n \in asked' /\ n \notin stopped' /\ job'[n] = "none"
      BY <1>0, <1>2, <2>2 DEF FireTimer, Place
    <3>2. \A q \in Processes : n \notin timers'[q]
      BY <1>0, <1>2, <2>2 DEF FireTimer, Place, TypeOK
    <3>3. \A q \in Processes : <<q, "queue.add", n>> \in calls' => q = p
      BY <1>0, <1>2, <2>2 DEF FireTimer, Place, Adding
    <3> QED
      BY <3>1, <3>2, <3>3 DEF Place, Adding
  <2> QED
    BY <2>1, <2>2
<1>3. ASSUME NEW p \in Processes, NEW m \in Mails, EndCall(p, m) PROVE Place(n)'
  <2>1. CASE StoreOtp(p, m)
    BY <1>0, <2>1, PlaceFrame DEF StoreOtp
  <2>2. CASE Add(p, m)
    <3>1. CASE n # m
      BY <1>0, <2>2, <3>1, PlaceFrame DEF Add, TypeOK
    <3>2. CASE n = m
      <4>1. Adding(n)
        BY <2>2, <3>2 DEF Add, Adding
      <4>2. n \in asked' /\ n \notin stopped'
        BY <1>0, <4>1, <2>2 DEF Add, Place
      <4>3. \A q \in Processes : n \notin timers'[q]
        BY <1>0, <4>1, <2>2 DEF Add, Place
      <4>4. \A q \in Processes : <<q, "queue.add", n>> \notin calls'
        BY <1>0, <2>2, <3>2 DEF Add, Place
      <4> QED
        BY <4>2, <4>3, <4>4 DEF Place, Adding
    <3> QED
      BY <3>1, <3>2
  <2>3. CASE RemoveJob(p, m)
    <3>1. job[m] # "none"
      BY <2>3 DEF RemoveJob, IInv, JobsAreWorked
    <3> QED
      BY <1>0, <2>3, <3>1, PlaceFrame DEF RemoveJob, TypeOK
  <2> QED
    BY <1>3, <2>1, <2>2, <2>3 DEF EndCall
<1>4. ASSUME NEW p \in Processes, NEW m \in Mails, Take(p, m) PROVE Place(n)'
  BY <1>0, <1>4, PlaceFrame DEF Take, TypeOK
<1>5. ASSUME NEW p \in Processes, CancelAllScheduledEmails(p) PROVE Place(n)'
  <2>1. CASE n \notin timers[p]
    BY <1>0, <1>5, <2>1, PlaceFrame DEF CancelAllScheduledEmails, TypeOK
  <2>2. CASE n \in timers[p]
    <3>1. n \in asked' /\ ~Adding(n) /\ job'[n] = "none" /\ calls' = calls
      BY <1>0, <1>5, <2>2 DEF CancelAllScheduledEmails, Place
    <3>2. \A q \in Processes : n \notin timers'[q]
      BY <1>0, <1>5, <2>2 DEF CancelAllScheduledEmails, Place, TypeOK
    <3> QED
      BY <3>1, <3>2 DEF Place, Adding
  <2> QED
    BY <2>1, <2>2
<1>6. ASSUME NEW p \in Processes, RunJob(p) PROVE Place(n)'
  <2>1. CASE SendMail(p) \/ SendMailFails(p)
    BY <1>0, <2>1, PlaceFrame DEF SendMail, SendMailFails
  <2>2. CASE Complete(p)
    <3>1. job'[n] = job[n] \/ job[n] = "active"
      BY <1>0, <2>2 DEF Complete, IInv, JobsAreWorked, TypeOK
    <3> QED
      BY <1>0, <2>2, <3>1, PlaceFrame DEF Complete
  <2> QED
    BY <1>6, <2>1, <2>2 DEF RunJob
<1>7. ASSUME NEW p \in Processes, Crash(p) PROVE Place(n)'
  BY <1>0, <1>7, PlaceFrame DEF Crash, TypeOK
<1>8. ASSUME NEW m \in Mails, ExpireOtp(m) \/ LoseLock(m) PROVE Place(n)'
  BY <1>0, <1>8, PlaceFrame DEF ExpireOtp, LoseLock
<1>9. ASSUME NEW m \in Mails, MoveStalled(m) PROVE Place(n)'
  BY <1>0, <1>9, PlaceFrame DEF MoveStalled, TypeOK
<1>10. ASSUME NEW c \in calls, CallFails(c) PROVE Place(n)'
  BY <1>0, <1>10, PlaceFrame DEF CallFails
<1>11. CASE UNCHANGED vars
  BY <1>0, <1>11, PlaceFrame DEF vars
<1> QED
  BY <1>1, <1>2, <1>3, <1>4, <1>5, <1>6, <1>7, <1>8, <1>9, <1>10, <1>11 DEF Next

-----------------------------------------------------------------------------
LEMMA WorkStep == IInv /\ [Next]_vars => JobsAreWorked'
<1> SUFFICES ASSUME IInv, [Next]_vars PROVE JobsAreWorked'
  OBVIOUS
<1> USE DEF IInv, TypeOK, JobsAreWorked, producers, queue
<1>1. ASSUME NEW p \in Processes, NEW m \in Mails, Request(p, m) PROVE JobsAreWorked'
  BY <1>1 DEF Request, SendConfirmationEmail, SaveSectionOtpAndSentMail, SendOtpEmail, ScheduleEmail
<1>2. ASSUME NEW p \in Processes, NEW m \in Mails, FireTimer(p, m) PROVE JobsAreWorked'
  BY <1>2 DEF FireTimer
<1>3. ASSUME NEW p \in Processes, NEW m \in Mails, EndCall(p, m) PROVE JobsAreWorked'
  <2>1. CASE StoreOtp(p, m)
    BY <2>1 DEF StoreOtp
  <2>2. CASE Add(p, m)
    <3>1. job[m] = "none"
      BY <2>2 DEF Add, InOnePlace, Place, Adding
    <3> QED
      BY <2>2, <3>1 DEF Add
  <2>3. CASE RemoveJob(p, m)
    BY <2>3 DEF RemoveJob
  <2> QED
    BY <1>3, <2>1, <2>2, <2>3 DEF EndCall
<1>4. ASSUME NEW p \in Processes, NEW m \in Mails, Take(p, m) PROVE JobsAreWorked'
  BY <1>4 DEF Take, Work
<1>5. ASSUME NEW p \in Processes, CancelAllScheduledEmails(p) PROVE JobsAreWorked'
  BY <1>5 DEF CancelAllScheduledEmails
<1>6. ASSUME NEW p \in Processes, RunJob(p) PROVE JobsAreWorked'
  <2>1. CASE SendMail(p) \/ SendMailFails(p)
    <3>1. /\ work[p].step = "sending" /\ UNCHANGED <<job, lock, calls>>
          /\ work' = [work EXCEPT ![p].step = "sent"]
      BY <2>1 DEF SendMail, SendMailFails
    <3>2. \A q \in Processes : /\ work'[q].mail = work[q].mail
                              /\ work'[q].step # "idle" => work[q].step # "idle"
      BY <3>1 DEF Work
    <3> QED
      BY <3>1, <3>2
  <2>2. CASE Complete(p)
    BY <2>2 DEF Complete, IdleWorker
  <2> QED
    BY <1>6, <2>1, <2>2 DEF RunJob
<1>7. ASSUME NEW p \in Processes, Crash(p) PROVE JobsAreWorked'
  BY <1>7 DEF Crash, IdleWorker
<1>8. ASSUME NEW m \in Mails, ExpireOtp(m) \/ LoseLock(m) \/ MoveStalled(m)
      PROVE  JobsAreWorked'
  BY <1>8 DEF ExpireOtp, LoseLock, MoveStalled
<1>9. ASSUME NEW c \in calls, CallFails(c) PROVE JobsAreWorked'
  BY <1>9 DEF CallFails
<1>10. CASE UNCHANGED vars
  BY <1>10 DEF vars
<1> QED
  BY <1>1, <1>2, <1>3, <1>4, <1>5, <1>6, <1>7, <1>8, <1>9, <1>10 DEF Next

-----------------------------------------------------------------------------
\* The processes that are sending a mail can be counted.
LEMMA SendersFinite ==
  ASSUME NEW m
  PROVE  IsFiniteSet(Senders(m)) /\ Cardinality(Senders(m)) \in Nat
<1>1. Senders(m) \subseteq Processes
  BY DEF Senders
<1> QED
  BY <1>1, FS_Subset, FS_CardinalityType

LEMMA CountStep == IInv /\ [Next]_vars => SendsAreCounted'
<1> SUFFICES ASSUME IInv, [Next]_vars PROVE SendsAreCounted'
  OBVIOUS
<1> USE DEF IInv, TypeOK, SendsAreCounted, producers, queue
<1>0. \A m \in Mails : Cardinality(Senders(m)) \in Nat
  BY SendersFinite
<1>1. ASSUME Quiet PROVE SendsAreCounted'
  BY <1>1 DEF Quiet, Senders
<1>2. ASSUME NEW p \in Processes, NEW m \in Mails, Add(p, m) PROVE SendsAreCounted'
  <2>1. job[m] = "none" /\ sent[m] = 0 /\ stalls[m] = 0
    BY <1>2 DEF Add, InOnePlace, Place, Adding
  <2>2. \A n \in Mails : Senders(n)' = Senders(n)
    BY <1>2 DEF Add, Senders
  <2> QED
    BY <1>2, <2>1, <2>2, <1>0 DEF Add
<1>3. ASSUME NEW p \in Processes, NEW m \in Mails, RemoveJob(p, m) PROVE SendsAreCounted'
  <2>1. job[m] \in {"completed", "removed"}
    BY <1>3 DEF RemoveJob, JobsAreWorked
  <2>2. \A n \in Mails : Senders(n)' = Senders(n)
    BY <1>3 DEF RemoveJob, Senders
  <2> QED
    BY <1>3, <2>1, <2>2, <1>0 DEF RemoveJob
<1>4. ASSUME NEW p \in Processes, NEW m \in Mails, Take(p, m) PROVE SendsAreCounted'
  <2>1. \A n \in Mails : n # m => Senders(n)' = Senders(n)
    BY <1>4 DEF Take, Senders, Work
  <2>2. Senders(m)' = Senders(m) \union {p}
    BY <1>4 DEF Take, Senders, Work
  <2>3. Cardinality(Senders(m)') = Cardinality(Senders(m)) + 1
    <3>1. p \notin Senders(m)
      BY <1>4 DEF Take, Senders
    <3> QED
      BY <2>2, <3>1, SendersFinite, FS_AddElement
  <2>4. \A n \in Mails : n # m => job'[n] = job[n]
    BY <1>4 DEF Take
  <2>5. job[m] = "waiting" /\ job'[m] = "active" /\ sent' = sent /\ stalls' = stalls
    BY <1>4 DEF Take
  <2> QED
    BY <2>1, <2>3, <2>4, <2>5, <1>0
<1>5. ASSUME NEW p \in Processes, SendMail(p) PROVE SendsAreCounted'
  <2> DEFINE m == work[p].mail
  <2>1. m \in Mails /\ job[m] # "none"
    BY <1>5 DEF SendMail, JobsAreWorked
  <2>2. \A n \in Mails : n # m => Senders(n)' = Senders(n) /\ sent'[n] = sent[n]
    BY <1>5 DEF SendMail, Senders, Work
  <2>3. p \in Senders(m)
    BY <1>5 DEF SendMail, Senders
  <2>4. ASSUME NEW n \in Mails, n = m PROVE Senders(n)' = Senders(n) \ {p}
    BY <1>5, <2>4 DEF SendMail, Senders, Work
  <2>5. ASSUME NEW n \in Mails, n = m
        PROVE  sent'[n] + Cardinality(Senders(n)') = sent[n] + Cardinality(Senders(n))
    <3>1. Cardinality(Senders(n)') = Cardinality(Senders(n)) - 1
      BY <2>3, <2>4, <2>5, SendersFinite, FS_RemoveElement
    <3>2. sent'[n] = sent[n] + 1
      BY <1>5, <2>5 DEF SendMail
    <3> QED
      BY <3>1, <3>2, <1>0
  <2>6. UNCHANGED <<job, stalls>>
    BY <1>5 DEF SendMail
  <2> HIDE DEF m
  <2> QED
    BY <2>1, <2>2, <2>5, <2>6, <1>0
<1>6. ASSUME NEW p \in Processes, SendMailFails(p) \/ Crash(p) PROVE SendsAreCounted'
  <2>1. ASSUME NEW n \in Mails
        PROVE  Cardinality(Senders(n)') \in Nat /\ Cardinality(Senders(n)') <= Cardinality(Senders(n))
    <3>1. Senders(n)' \subseteq Senders(n)
      BY <1>6 DEF SendMailFails, Crash, Senders, Work, IdleWorker
    <3> QED
      BY <3>1, SendersFinite, FS_Subset, FS_CardinalityType
  <2>2. UNCHANGED <<job, stalls, sent>>
    BY <1>6 DEF SendMailFails, Crash
  <2> QED
    BY <2>1, <2>2, <1>0
<1>7. ASSUME NEW p \in Processes, Complete(p) PROVE SendsAreCounted'
  <2>1. \A n \in Mails : Senders(n)' = Senders(n)
    BY <1>7 DEF Complete, Senders, IdleWorker
  <2>2. \A n \in Mails : job'[n] = job[n] \/ (job[n] = "active" /\ job'[n] = "completed")
    BY <1>7 DEF Complete, JobsAreWorked
  <2>3. UNCHANGED <<stalls, sent>>
    BY <1>7 DEF Complete
  <2> QED
    BY <2>1, <2>2, <2>3, <1>0
<1>8. ASSUME NEW m \in Mails, MoveStalled(m) PROVE SendsAreCounted'
  <2>1. \A n \in Mails : Senders(n)' = Senders(n)
    BY <1>8 DEF MoveStalled, Senders
  <2> QED
    BY <1>8, <2>1, <1>0 DEF MoveStalled
<1>9. ASSUME NEW m \in Mails, LoseLock(m) PROVE SendsAreCounted'
  BY <1>9 DEF LoseLock, Senders
<1>10. CASE Next
  <2>1. ASSUME NEW p \in Processes, NEW m \in Mails,
               Request(p, m) \/ FireTimer(p, m) \/ StoreOtp(p, m)
        PROVE  Quiet
    BY <2>1 DEF Request, SendConfirmationEmail, SaveSectionOtpAndSentMail, SendOtpEmail, ScheduleEmail,
                FireTimer, StoreOtp, Quiet
  <2>2. ASSUME NEW p \in Processes, CancelAllScheduledEmails(p) PROVE Quiet
    BY <2>2 DEF CancelAllScheduledEmails, Quiet
  <2>3. ASSUME NEW m \in Mails, ExpireOtp(m) PROVE Quiet
    BY <2>3 DEF ExpireOtp, Quiet
  <2>4. ASSUME NEW c \in calls, CallFails(c) PROVE Quiet
    BY <2>4 DEF CallFails, Quiet
  <2> QED
    BY <1>10, <1>1, <1>2, <1>3, <1>4, <1>5, <1>6, <1>7, <1>8, <1>9, <2>1, <2>2, <2>3, <2>4
    DEF Next, EndCall, RunJob
<1>11. CASE UNCHANGED vars
  BY <1>1, <1>11 DEF vars, Quiet
<1> QED
  BY <1>10, <1>11

-----------------------------------------------------------------------------
(* The inductive invariant holds: a mail is in one place, and its sends    *)
(* are covered by the times its job was handed out.                        *)
THEOREM Invariance == Spec => []IInv
<1>1. IInv /\ [Next]_vars => IInv'
  BY TypeStep, PlaceStep, WorkStep, CountStep DEF IInv
<1> QED
  BY <1>1, InitIInv, PTL DEF Spec

(* A mail is sent once, and once more at most for every time that its job  *)
(* was found stalled, for any number of processes whose locks expire or    *)
(* that die at any point.                                                  *)
THEOREM SendsAreBounded == Spec => []SentOnceUnlessStalled
<1>1. IInv => SentOnceUnlessStalled
  <2> SUFFICES ASSUME IInv, NEW m \in Mails
               PROVE  sent[m] <= 1 + stalls[m] /\ sent[m] <= 1 + MaxStalls
    BY DEF SentOnceUnlessStalled
  <2>1. /\ sent[m] \in Nat /\ stalls[m] \in Nat
        /\ stalls[m] <= IF job[m] = "failed" THEN MaxStalls + 1 ELSE MaxStalls
        /\ sent[m] + Cardinality(Senders(m)) <=
             IF job[m] \in {"none", "waiting", "failed"} THEN stalls[m] ELSE 1 + stalls[m]
    BY DEF IInv, TypeOK, SendsAreCounted
  <2>2. Cardinality(Senders(m)) \in Nat
    BY SendersFinite
  <2> QED
    BY <2>1, <2>2
<1> QED
  BY <1>1, Invariance, PTL

(* A cancelled mail has no job and is never sent.                          *)
THEOREM CancelIsFinal == Spec => []CancelledIsNeverSent
<1>1. IInv => CancelledIsNeverSent
  BY DEF IInv, TypeOK, InOnePlace, Place, SendsAreCounted, CancelledIsNeverSent
<1> QED
  BY <1>1, Invariance, PTL

-----------------------------------------------------------------------------
\* Where a mail is depends on these facts only.
LEMMA UnderwayFrame ==
  ASSUME NEW n \in Mails, Underway(n),
         n \in asked' => n \in asked,
         n \in stopped => n \in stopped',
         \A p \in Processes : n \in timers[p] =>
           \/ n \in timers'[p] \/ n \in stopped' \/ <<p, "queue.add", n>> \in calls',
         \A p \in Processes : <<p, "queue.add", n>> \in calls =>
           <<p, "queue.add", n>> \in calls' \/ job'[n] # "none",
         job[n] # "none" => job'[n] # "none"
  PROVE  Underway(n)'
BY DEF Underway, Adding

LEMMA RequestUnderway ==
  ASSUME IInv, NEW n \in Mails, Underway(n), NEW p \in Processes, NEW m \in Mails,
         Request(p, m)
  PROVE  Underway(n)'
<1> USE DEF IInv, TypeOK
<1>1. CASE n # m
  BY <1>1, UnderwayFrame
  DEF Request, SendConfirmationEmail, SaveSectionOtpAndSentMail, SendOtpEmail, ScheduleEmail, queue
<1>2. CASE n = m
  <2>1. \/ n \in timers'[p] \/ <<p, "queue.add", n>> \in calls'
    BY <1>2 DEF Request, SendConfirmationEmail, SaveSectionOtpAndSentMail, SendOtpEmail, ScheduleEmail
  <2> QED
    BY <2>1 DEF Underway, Adding
<1> QED
  BY <1>1, <1>2

LEMMA QueueUnderway ==
  ASSUME IInv, NEW n \in Mails, Underway(n), NEW p \in Processes, NEW m \in Mails,
         FireTimer(p, m) \/ EndCall(p, m) \/ Take(p, m)
  PROVE  Underway(n)'
<1> USE DEF IInv, TypeOK, producers, queue
<1>1. CASE FireTimer(p, m)
  BY <1>1, UnderwayFrame DEF FireTimer
<1>2. CASE StoreOtp(p, m)
  BY <1>2, UnderwayFrame DEF StoreOtp
<1>3. CASE Add(p, m)
  BY <1>3, UnderwayFrame DEF Add
<1>4. CASE RemoveJob(p, m)
  BY <1>4, UnderwayFrame DEF RemoveJob
<1>5. CASE Take(p, m)
  BY <1>5, UnderwayFrame DEF Take
<1> QED
  BY <1>1, <1>2, <1>3, <1>4, <1>5 DEF EndCall

LEMMA WorkerUnderway ==
  ASSUME IInv, NEW n \in Mails, Underway(n), NEW p \in Processes,
         CancelAllScheduledEmails(p) \/ RunJob(p)
  PROVE  Underway(n)'
<1> USE DEF IInv, TypeOK, producers, queue
<1>1. CASE CancelAllScheduledEmails(p)
  BY <1>1, UnderwayFrame DEF CancelAllScheduledEmails
<1>2. CASE SendMail(p) \/ SendMailFails(p)
  BY <1>2, UnderwayFrame DEF SendMail, SendMailFails
<1>3. CASE Complete(p)
  <2>1. job'[n] = job[n] \/ job'[n] = "completed"
    BY <1>3 DEF Complete
  <2>2. UNCHANGED producers /\ calls \subseteq calls'
    BY <1>3 DEF Complete
  <2> QED
    BY <2>1, <2>2, UnderwayFrame
<1> QED
  BY <1>1, <1>2, <1>3 DEF RunJob

LEMMA FaultUnderway ==
  ASSUME IInv, NEW n \in Mails, Underway(n), ~Underway(n)', NEW p \in Processes,
         Crash(p) \/ \E c \in calls : c[1] = p /\ CallFails(c)
  PROVE  /\ p \in Faulty
         /\ n \in timers[p] \/ <<p, "queue.add", n>> \in calls
         /\ Crash(p) \/ CallFails(<<p, "queue.add", n>>)
<1> USE DEF IInv, TypeOK, producers, queue
<1>1. CASE Crash(p)
  <2>1. \A q \in Processes : q # p => timers'[q] = timers[q]
    BY <1>1 DEF Crash
  <2>2. \A q \in Processes : q # p /\ <<q, "queue.add", n>> \in calls =>
          <<q, "queue.add", n>> \in calls'
    BY <1>1 DEF Crash
  <2>3. n \in timers[p] \/ <<p, "queue.add", n>> \in calls
    BY <1>1, <2>1, <2>2, UnderwayFrame DEF Crash
  <2> QED
    BY <1>1, <2>3 DEF Crash
<1>2. CASE \E c \in calls : c[1] = p /\ CallFails(c)
  <2>1. PICK c \in calls : c[1] = p /\ CallFails(c)
    BY <1>2
  <2>2. c = <<p, "queue.add", n>>
    BY <2>1, UnderwayFrame DEF CallFails
  <2> QED
    BY <2>1, <2>2 DEF CallFails
<1> QED
  BY <1>1, <1>2

(* A mail that was asked for is lost with the process that holds its timer *)
(* or adds its job, or by a call of that process that Redis rejects, and   *)
(* in no other way.                                                        *)
THEOREM MailsAreLostByFailure == Spec => LostByFailureOnly
<1>1. IInv /\ [Next]_vars =>
        [\A m \in Mails : Underway(m) /\ ~Underway(m)' =>
           \E p \in Faulty : /\ m \in timers[p] \/ <<p, "queue.add", m>> \in calls
                             /\ Crash(p) \/ CallFails(<<p, "queue.add", m>>)]_vars
  <2> SUFFICES ASSUME IInv, Next, NEW m \in Mails, Underway(m), ~Underway(m)'
               PROVE  \E p \in Faulty : /\ m \in timers[p] \/ <<p, "queue.add", m>> \in calls
                                        /\ Crash(p) \/ CallFails(<<p, "queue.add", m>>)
    OBVIOUS
  <2>1. ASSUME NEW n \in Mails, ExpireOtp(n) \/ LoseLock(n) \/ MoveStalled(n) PROVE FALSE
    BY <2>1, UnderwayFrame DEF ExpireOtp, LoseLock, MoveStalled, producers, queue, IInv, TypeOK
  <2>2. ASSUME NEW c \in calls PROVE c[1] \in Processes
    BY DEF IInv, TypeOK
  <2>3. PICK p \in Processes : Crash(p) \/ \E c \in calls : c[1] = p /\ CallFails(c)
    BY <2>1, <2>2, RequestUnderway, QueueUnderway, WorkerUnderway DEF Next
  <2> QED
    BY <2>3, FaultUnderway
<1> QED
  BY <1>1, Invariance, PTL DEF Spec, LostByFailureOnly
=============================================================================
