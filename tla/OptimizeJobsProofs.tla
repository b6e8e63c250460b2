--------------------------- MODULE OptimizeJobsProofs ---------------------------
(***************************************************************************)
(* The jobs for every number of images, audio files, processes, clients,   *)
(* attempts and stalls.  IInv is inductive: a job is run again only while  *)
(* its failures and stalls are within their bounds, only the holder of its *)
(* lock ends it, and what a poll has read of it stays so.  The promise of  *)
(* AsyncJobs follows step by step.                                         *)
(***************************************************************************)
EXTENDS OptimizeJobs, TLAPS

\* The steps, one by one.
LEMMA Steps ==
  ASSUME Next
  PROVE  \/ \E j \in Jobs : Add(j) \/ Promote(j) \/ LoseLock(j) \/ MoveStalled(j)
         \/ \E c \in Clients : \/ \E i \in Images : GetJob(c, i)
                               \/ IsCompleted(c) \/ PollFails(c)
         \/ \E p \in Processes :
              \/ \E j \in Jobs : Take(p, j) \/ Handle(p, j)
              \/ Progress(p) \/ Complete(p) \/ Fail(p) \/ Crash(p)
  BY DEF Next, Run

-----------------------------------------------------------------------------
(* Types.                                                                  *)

\* The records of the polls.
LEMMA PollRecords ==
  ASSUME NEW q \in Poll
  PROVE  /\ \A code \in Code : [q EXCEPT !.step = "answered", !.code = code] \in Poll
         /\ \A i \in Images :
              [q EXCEPT !.step = "answered", !.job = i, !.code = 404] \in Poll
         /\ \A i \in Images, v \in Value, b \in JobState :
              [q EXCEPT !.step = "isCompleted", !.job = i, !.returnvalue = v, !.before = b]
                \in Poll
<1> DEFINE Job == Images \union {None}
           Answer == Code \union {None}
<1>1. /\ "answered" \in PollStep /\ "isCompleted" \in PollStep
      /\ \A code \in Code : code \in Answer
      /\ 404 \in Answer
      /\ \A i \in Images : i \in Job
  BY DEF PollStep, Code
<1>2. Poll = [step : PollStep, job : Job, returnvalue : Value, before : JobState, code : Answer]
  BY DEF Poll
<1> HIDE DEF Job, Answer
<1>3. ASSUME NEW s \in PollStep, NEW a \in Answer
      PROVE  [q EXCEPT !.step = s, !.code = a] \in Poll
  BY <1>2
<1>4. ASSUME NEW s \in PollStep, NEW i \in Job, NEW a \in Answer
      PROVE  [q EXCEPT !.step = s, !.job = i, !.code = a] \in Poll
  BY <1>2
<1>5. ASSUME NEW s \in PollStep, NEW i \in Job, NEW v \in Value, NEW b \in JobState
      PROVE  [q EXCEPT !.step = s, !.job = i, !.returnvalue = v, !.before = b] \in Poll
  BY <1>2
<1>6. \A code \in Code : [q EXCEPT !.step = "answered", !.code = code] \in Poll
  BY <1>1, <1>3
<1>7. \A i \in Images : [q EXCEPT !.step = "answered", !.job = i, !.code = 404] \in Poll
  BY <1>1, <1>4
<1>8. \A i \in Images, v \in Value, b \in JobState :
        [q EXCEPT !.step = "isCompleted", !.job = i, !.returnvalue = v, !.before = b] \in Poll
  BY <1>1, <1>5
<1> QED
  BY <1>6, <1>7, <1>8

\* What a client is answered is of its type.
LEMMA PollTyped ==
  ASSUME TypeOK, NEW c \in Clients,
         (\E i \in Images : GetJob(c, i)) \/ IsCompleted(c) \/ PollFails(c)
  PROVE  TypeOK'
<1>1. NoPoll \in Poll
  BY DEF NoPoll, Poll, JobState, PollStep, Value
<1>2. poll' \in [Clients -> Poll]
  <2>1. CASE \E i \in Images : GetJob(c, i)
    <3>1. PICK i \in Images : GetJob(c, i)
      BY <2>1
    <3>2. state[i] \in JobState /\ result[i] \in Value
      BY DEF Jobs, TypeOK
    <3>3. [NoPoll EXCEPT !.step = "answered", !.job = i, !.code = 404] \in Poll
      BY <1>1, PollRecords
    <3>4. [NoPoll EXCEPT !.step = "isCompleted", !.job = i,
                         !.returnvalue = result[i], !.before = state[i]] \in Poll
      BY <1>1, <3>2, PollRecords
    <3> QED
      BY <3>1, <3>3, <3>4 DEF GetJob, TypeOK
  <2>2. CASE IsCompleted(c)
    <3> DEFINE code == IF state[poll[c].job] # "completed" THEN 202
                       ELSE IF poll[c].returnvalue = None THEN 500 ELSE 200
    <3>1. poll' = [poll EXCEPT ![c] = [poll[c] EXCEPT !.step = "answered", !.code = code]]
      BY <2>2 DEF IsCompleted
    <3>2. poll[c] \in Poll /\ code \in Code
      BY DEF TypeOK, Code
    <3> HIDE DEF code
    <3>3. [poll[c] EXCEPT !.step = "answered", !.code = code] \in Poll
      BY <3>2, PollRecords
    <3> QED
      BY <3>1, <3>3 DEF TypeOK
  <2>3. CASE PollFails(c)
    BY <1>1, <2>3 DEF PollFails, TypeOK
  <2> QED
    BY <2>1, <2>2, <2>3
<1> QED
  BY <1>2 DEF TypeOK, GetJob, IsCompleted, PollFails

\* Neither does a worker.
LEMMA WorkTyped ==
  ASSUME TypeOK, NEW p \in Processes,
         \/ \E j \in Jobs : Take(p, j) \/ Handle(p, j)
         \/ Progress(p) \/ Complete(p) \/ Fail(p) \/ Crash(p)
  PROVE  TypeOK'
<1>1. IdleWorker \in Work
  BY DEF IdleWorker, Work
<1>2. \A j \in Jobs : Heard(j) \subseteq Processes \X Jobs
  BY DEF Heard
<1>3. work[p] \in Work
  BY DEF TypeOK
<1>4. ASSUME NEW j \in Jobs, Take(p, j) PROVE TypeOK'
  BY <1>4 DEF Take, TypeOK, JobState, Work
<1>5. ASSUME NEW j \in Jobs, Handle(p, j) PROVE TypeOK'
  BY <1>5 DEF Handle, TypeOK
<1>6. CASE Progress(p)
  BY <1>6, <1>2 DEF Progress, TypeOK, Jobs
<1>7. CASE Complete(p)
  <2>1. work[p].job \in Jobs /\ work[p].run \in Nat
    BY <1>3, <1>7 DEF Complete, Work
  <2> QED
    BY <1>7, <1>1, <1>2, <2>1 DEF Complete, TypeOK, JobState, Value
<1>8. CASE Fail(p)
  <2>1. work[p].job \in Jobs
    BY <1>8, QueuesAssumption DEF Fail, Jobs
  <2> QED
    BY <1>8, <1>1, <2>1 DEF Fail, TypeOK, JobState
<1>9. CASE Crash(p)
  BY <1>9, <1>1 DEF Crash, TypeOK
<1> QED
  BY <1>4, <1>5, <1>6, <1>7, <1>8, <1>9

LEMMA TypeInvariance ==
  ASSUME TypeOK, [Next]_vars
  PROVE  TypeOK'
<1>1. ASSUME NEW j \in Jobs, Add(j) \/ Promote(j) \/ LoseLock(j) \/ MoveStalled(j)
      PROVE  TypeOK'
  BY <1>1 DEF Add, Promote, LoseLock, MoveStalled, TypeOK, JobState
<1>2. CASE UNCHANGED vars
  BY <1>2 DEF vars, TypeOK
<1> QED
  BY <1>1, <1>2, PollTyped, WorkTyped, Steps

-----------------------------------------------------------------------------
(* What holds of the jobs.                                                 *)

\* Only the holder of the lock ends a run, and the job is active then.
LEMMA HolderWorks ==
  ASSUME IInv, NEW p \in Processes, NEW j \in Jobs, lock[j] = p
  PROVE  state[j] = "active" /\ result[j] = None
  BY NoneAssumption DEF IInv, JobsAreWorked

\* The runs of a job are counted by its failures and stalls.
LEMMA RunsStayCounted ==
  ASSUME IInv, [Next]_vars
  PROVE  RunsAreCounted'
<1> USE BoundsAssumption DEF RunsAreCounted
<1>1. RunsAreCounted /\ TypeOK
  BY DEF IInv
<1>2. \A j \in Jobs : /\ attempts[j] \in Nat /\ stalls[j] \in Nat /\ runs[j] \in Nat
                      /\ state[j] \in JobState
  BY <1>1 DEF TypeOK
<1>3. ASSUME NEW j \in Jobs, Add(j) PROVE RunsAreCounted'
  BY <1>1, <1>2, <1>3 DEF Add, TypeOK
<1>4. ASSUME NEW j \in Jobs, Promote(j) PROVE RunsAreCounted'
  BY <1>1, <1>2, <1>4 DEF Promote, TypeOK
<1>5. ASSUME NEW j \in Jobs, MoveStalled(j) PROVE RunsAreCounted'
  BY <1>1, <1>2, <1>5 DEF MoveStalled, TypeOK
<1>6. ASSUME NEW p \in Processes, NEW j \in Jobs, Take(p, j) PROVE RunsAreCounted'
  BY <1>1, <1>2, <1>6 DEF Take, TypeOK
<1>7. ASSUME NEW p \in Processes, Complete(p) PROVE RunsAreCounted'
  <2> DEFINE j == work[p].job
  <2>1. j \in Jobs
    BY <1>1, <1>7 DEF Complete, TypeOK, Work
  <2>2. CASE lock[j] = p
    BY <1>1, <1>2, <1>7, <2>1, <2>2 DEF Complete, TypeOK
  <2>3. CASE lock[j] # p
    BY <1>1, <1>7, <2>3 DEF Complete
  <2> QED
    BY <2>2, <2>3
<1>8. ASSUME NEW p \in Processes, Fail(p) PROVE RunsAreCounted'
  <2> DEFINE j == work[p].job
  <2>1. j \in Jobs
    BY <1>8, QueuesAssumption DEF Fail, Jobs
  <2>2. CASE lock[j] = p
    BY <1>1, <1>2, <1>8, <2>1, <2>2, HolderWorks DEF Fail, TypeOK
  <2>3. CASE lock[j] # p
    BY <1>1, <1>8, <2>3 DEF Fail
  <2> QED
    BY <2>2, <2>3
<1>9. CASE UNCHANGED <<state, attempts, stalls, runs>>
  BY <1>1, <1>9
<1> QED
  BY <1>3, <1>4, <1>5, <1>6, <1>7, <1>8, <1>9, Steps
  DEF LoseLock, GetJob, IsCompleted, PollFails, Handle, Progress, Crash, vars

\* A lock is of an active job, a result of a completed one, work of one that was added.
LEMMA JobsStayWorked ==
  ASSUME IInv, [Next]_vars
  PROVE  JobsAreWorked'
<1> USE NoneAssumption DEF JobsAreWorked
<1>1. JobsAreWorked /\ TypeOK
  BY DEF IInv
<1>2. \A p \in Processes : work[p] \in Work
  BY <1>1 DEF TypeOK
<1>3. ASSUME NEW j \in Jobs, Add(j) \/ Promote(j) \/ MoveStalled(j) PROVE JobsAreWorked'
  BY <1>1, <1>2, <1>3 DEF Add, Promote, MoveStalled, TypeOK, Work
<1>4. ASSUME NEW j \in Jobs, LoseLock(j) PROVE JobsAreWorked'
  BY <1>1, <1>4 DEF LoseLock, TypeOK
<1>5. ASSUME NEW p \in Processes, NEW j \in Jobs, Take(p, j) PROVE JobsAreWorked'
  BY <1>1, <1>2, <1>5 DEF Take, TypeOK, Work
<1>6. ASSUME NEW p \in Processes, Complete(p) PROVE JobsAreWorked'
  <2> DEFINE j == work[p].job
  <2>1. j \in Jobs /\ work[p].run \in Nat
    BY <1>2, <1>6 DEF Complete, Work
  <2>2. CASE lock[j] = p
    <3>1. /\ state' = [state EXCEPT ![j] = "completed"]
          /\ result' = [result EXCEPT ![j] = work[p].run]
          /\ lock' = [lock EXCEPT ![j] = None]
          /\ work' = [work EXCEPT ![p] = IdleWorker]
      BY <1>6, <2>2 DEF Complete
    <3>2. work[p].run # None
      BY <2>1
    <3> HIDE DEF j
    <3> QED
      BY <1>1, <1>2, <2>1, <3>1, <3>2 DEF TypeOK, IdleWorker
  <2>3. CASE lock[j] # p
    BY <1>1, <1>2, <1>6, <2>3 DEF Complete, TypeOK, IdleWorker
  <2> QED
    BY <2>2, <2>3
<1>7. ASSUME NEW p \in Processes, Fail(p) PROVE JobsAreWorked'
  <2> DEFINE j == work[p].job
  <2>1. j \in Jobs
    BY <1>7, QueuesAssumption DEF Fail, Jobs
  <2>2. CASE lock[j] = p
    BY <1>1, <1>2, <1>7, <2>1, <2>2, HolderWorks DEF Fail, TypeOK, Work, IdleWorker
  <2>3. CASE lock[j] # p
    BY <1>1, <1>2, <1>7, <2>3 DEF Fail, TypeOK, IdleWorker
  <2> QED
    BY <2>2, <2>3
<1>8. ASSUME NEW p \in Processes, Crash(p) PROVE JobsAreWorked'
  BY <1>1, <1>8 DEF Crash, TypeOK, IdleWorker
<1>9. CASE UNCHANGED <<state, result, lock, work>>
  BY <1>1, <1>9
<1> QED
  BY <1>3, <1>4, <1>5, <1>6, <1>7, <1>8, <1>9, Steps
  DEF GetJob, IsCompleted, PollFails, Handle, Progress, vars

\* A job once added stays, and one completed stays as it is.
LEMMA JobsEndOnce ==
  ASSUME IInv, [Next]_vars, NEW j \in Jobs
  PROVE  /\ state[j] # "none" => state'[j] # "none"
         /\ state[j] = "completed" => state'[j] = "completed" /\ result'[j] = result[j]
         /\ result[j] # None => result'[j] = result[j]
<1>1. JobsAreWorked /\ TypeOK
  BY DEF IInv
<1>2. ASSUME NEW k \in Jobs, Add(k) \/ Promote(k) \/ MoveStalled(k)
      PROVE  /\ state[j] # "none" => state'[j] # "none"
             /\ state[j] = "completed" => state'[j] = "completed"
             /\ result' = result
  BY <1>1, <1>2 DEF Add, Promote, MoveStalled, TypeOK
<1>3. ASSUME NEW p \in Processes, NEW k \in Jobs, Take(p, k)
      PROVE  /\ state[j] # "none" => state'[j] # "none"
             /\ state[j] = "completed" => state'[j] = "completed"
             /\ result' = result
  BY <1>1, <1>3 DEF Take, TypeOK
<1>4. ASSUME NEW p \in Processes, Complete(p) \/ Fail(p)
      PROVE  /\ state[j] # "none" => state'[j] # "none"
             /\ state[j] = "completed" => state'[j] = "completed" /\ result'[j] = result[j]
             /\ result[j] # None => result'[j] = result[j]
  <2> DEFINE k == work[p].job
  <2>1. k \in Jobs
    BY <1>1, <1>4, QueuesAssumption DEF Complete, Fail, TypeOK, Work, Jobs
  <2>2. CASE lock[k] = p
    BY <1>1, <1>4, <2>1, <2>2, HolderWorks DEF Complete, Fail, TypeOK
  <2>3. CASE lock[k] # p
    BY <1>4, <2>3 DEF Complete, Fail
  <2> QED
    BY <2>2, <2>3
<1>5. CASE UNCHANGED <<state, result>>
  BY <1>5
<1> QED
  BY <1>1, <1>2, <1>3, <1>4, <1>5, Steps
  DEF LoseLock, GetJob, IsCompleted, PollFails, Handle, Progress, Crash, vars, JobsAreWorked

-----------------------------------------------------------------------------
(* What the polls know.                                                    *)

\* What a poll has read stays so, and so do the answers given.
LEMMA PollsStayHonest ==
  ASSUME IInv, [Next]_vars
  PROVE  PollsAreHonest' /\ AnswersAreTrue'
<1> USE NoneAssumption
<1>1. PollsAreHonest /\ AnswersAreTrue /\ TypeOK /\ JobsAreWorked
  BY DEF IInv
<1>2. \A c \in Clients : poll[c] \in Poll
  BY <1>1 DEF TypeOK
<1>3. Images \subseteq Jobs
  BY DEF Jobs
<1>4. ASSUME UNCHANGED poll PROVE PollsAreHonest' /\ AnswersAreTrue'
  BY <1>1, <1>2, <1>3, <1>4, JobsEndOnce DEF PollsAreHonest, AnswersAreTrue, Poll
<1>5. ASSUME NEW c \in Clients, NEW i \in Images, GetJob(c, i)
      PROVE  PollsAreHonest' /\ AnswersAreTrue'
  <2>1. i \in Jobs /\ state' = state /\ result' = result
    BY <1>3, <1>5 DEF GetJob
  <2>2. \A d \in Clients : d # c => poll'[d] = poll[d]
    BY <1>1, <1>5 DEF GetJob, TypeOK
  <2>3. poll'[c] = IF state[i] = "none"
         THEN [NoPoll EXCEPT !.step = "answered", !.job = i, !.code = 404]
         ELSE [NoPoll EXCEPT !.step = "isCompleted", !.job = i,
                             !.returnvalue = result[i], !.before = state[i]]
    BY <1>1, <1>5 DEF GetJob, TypeOK
  <2>4. /\ poll'[c].step \in {"isCompleted", "answered"} /\ poll'[c].job = i
        /\ poll'[c].code # 200 /\ poll'[c].code # 500
        /\ poll'[c].step = "isCompleted" =>
             /\ poll'[c].code = None /\ state[i] # "none"
             /\ poll'[c].before = state[i] /\ poll'[c].returnvalue = result[i]
    BY <2>3 DEF NoPoll
  <2>5. PollsAreHonest'
    BY <1>1, <2>1, <2>2, <2>4 DEF PollsAreHonest, JobsAreWorked
  <2>6. AnswersAreTrue'
    BY <1>1, <2>1, <2>2, <2>4 DEF AnswersAreTrue
  <2> QED
    BY <2>5, <2>6
<1>6. ASSUME NEW c \in Clients, IsCompleted(c)
      PROVE  PollsAreHonest' /\ AnswersAreTrue'
  <2>1. state' = state /\ result' = result
    BY <1>6 DEF IsCompleted
  <2>2. \A d \in Clients : d # c => poll'[d] = poll[d]
    BY <1>1, <1>6 DEF IsCompleted, TypeOK
  <2>3. /\ poll'[c].step = "answered" /\ poll'[c].job = poll[c].job
        /\ poll'[c].returnvalue = poll[c].returnvalue /\ poll'[c].before = poll[c].before
        /\ poll'[c].code = IF state[poll[c].job] # "completed" THEN 202
                           ELSE IF poll[c].returnvalue = None THEN 500 ELSE 200
    BY <1>1, <1>2, <1>6 DEF IsCompleted, TypeOK, Poll
  <2>4. poll[c].step = "isCompleted"
    BY <1>6 DEF IsCompleted
  <2>5. PollsAreHonest'
    BY <1>1, <2>1, <2>2, <2>3, <2>4 DEF PollsAreHonest
  <2>6. AnswersAreTrue'
    BY <1>1, <2>1, <2>2, <2>3, <2>4 DEF PollsAreHonest, AnswersAreTrue
  <2> QED
    BY <2>5, <2>6
<1>7. ASSUME NEW c \in Clients, PollFails(c)
      PROVE  PollsAreHonest' /\ AnswersAreTrue'
  BY <1>1, <1>7 DEF PollFails, PollsAreHonest, AnswersAreTrue, TypeOK, NoPoll
<1> QED
  BY <1>4, <1>5, <1>6, <1>7, Steps
  DEF Add, Promote, LoseLock, MoveStalled, Take, Handle, Progress, Complete, Fail, Crash, vars

-----------------------------------------------------------------------------
(* The refinement.                                                         *)

\* How a job stands, from its state.
LEMMA StatusOf ==
  /\ Standing["none"] = "NONE"
  /\ Standing["completed"] = "DONE"
  /\ Standing["failed"] = "FAILED"
  /\ \A s \in {"waiting", "delayed", "active"} : Standing[s] = "PENDING"
  /\ \A i \in Images : Status[i] = Standing[state[i]]
<1>1. "none" \in JobState /\ "completed" \in JobState /\ "failed" \in JobState
  BY DEF JobState
<1>2. \A s \in {"waiting", "delayed", "active"} : s \in JobState /\ Standing[s] = "PENDING"
  BY DEF JobState, Standing
<1>3. Standing["none"] = "NONE" /\ Standing["completed"] = "DONE" /\ Standing["failed"] = "FAILED"
  BY <1>1 DEF Standing
<1> QED
  BY <1>2, <1>3 DEF Status

\* A step that changes one job changes its status alone.
LEMMA StatusChange ==
  ASSUME NEW j \in Jobs, NEW s, TypeOK, state' = [state EXCEPT ![j] = s]
  PROVE  /\ j \notin Images => Status' = Status
         /\ j \in Images => Status' = [Status EXCEPT ![j] = Standing[s]]
<1>1. Images \subseteq Jobs
  BY DEF Jobs
<1>2. \A k \in Jobs : state'[k] = IF k = j THEN s ELSE state[k]
  BY DEF TypeOK
<1>3. \A k \in Images : k # j => state'[k] = state[k]
  BY <1>1, <1>2
<1>4. j \in Images => state'[j] = s
  BY <1>2
<1>5. /\ Status = [k \in Images |-> Standing[state[k]]]
      /\ Status' = [k \in Images |-> Standing[state'[k]]]
  BY DEF Status
<1>6. CASE j \notin Images
  BY <1>3, <1>5, <1>6
<1>7. CASE j \in Images
  BY <1>3, <1>4, <1>5, <1>7
<1> QED
  BY <1>6, <1>7

\* A job that goes on being worked for does not change for its clients.
LEMMA StillPending ==
  ASSUME TypeOK, NEW j \in Jobs, NEW s \in {"waiting", "delayed", "active"},
         state[j] \in {"waiting", "delayed", "active"},
         state' = [state EXCEPT ![j] = s], poll' = poll
  PROVE  Status' = Status /\ Reply' = Reply
<1>1. Reply' = Reply
  BY DEF Reply
<1>2. CASE j \in Images
  <2>1. Status[j] = "PENDING"
    BY <1>2, StatusOf
  <2>2. Status' = [Status EXCEPT ![j] = Standing[s]]
    BY <1>2, StatusChange
  <2>3. Standing[s] = "PENDING"
    BY StatusOf
  <2> QED
    BY <1>1, <2>1, <2>2, <2>3 DEF Status
<1> QED
  BY <1>1, <1>2, StatusChange

\* A job that was pending ends.
LEMMA EndsOnce ==
  ASSUME TypeOK, NEW j \in Jobs, NEW s \in {"completed", "failed"},
         state[j] \in {"waiting", "delayed", "active"},
         state' = [state EXCEPT ![j] = s], poll' = poll
  PROVE  [Promise!Next]_(Promise!vars)
<1>1. Reply' = Reply
  BY DEF Reply
<1>2. CASE j \in Images
  <2>1. Status[j] = "PENDING"
    BY <1>2, StatusOf
  <2>2. CASE s = "completed"
    <3>1. Status' = [Status EXCEPT ![j] = "DONE"]
      <4>1. Status' = [Status EXCEPT ![j] = Standing[s]]
        BY <1>2, StatusChange
      <4> QED
        BY <2>2, <4>1, StatusOf
    <3>2. Promise!End(j, "DONE")
      BY <1>1, <2>1, <3>1 DEF Promise!End
    <3> QED
      BY <1>2, <3>2 DEF Promise!Next
  <2>3. CASE s = "failed"
    <3>1. Status' = [Status EXCEPT ![j] = "FAILED"]
      <4>1. Status' = [Status EXCEPT ![j] = Standing[s]]
        BY <1>2, StatusChange
      <4> QED
        BY <2>3, <4>1, StatusOf
    <3>2. Promise!End(j, "FAILED")
      BY <1>1, <2>1, <3>1 DEF Promise!End
    <3> QED
      BY <1>2, <3>2 DEF Promise!Next
  <2> QED
    BY <2>2, <2>3
<1>3. CASE j \notin Images
  BY <1>1, <1>3, StatusChange DEF Promise!vars
<1> QED
  BY <1>2, <1>3

\* A poll is answered, or asked, and the others keep their answers.
LEMMA ReplyChange ==
  ASSUME NEW c \in Clients, \A d \in Clients : d # c => poll'[d] = poll[d], state' = state
  PROVE  /\ Status' = Status
         /\ Reply' = [Reply EXCEPT ![c] =
              IF poll'[c].code = None THEN None ELSE <<poll'[c].job, poll'[c].code>>]
  BY DEF Status, Reply

LEMMA WorkRefines ==
  ASSUME IInv, NEW p \in Processes,
         \/ \E j \in Jobs : Take(p, j) \/ Handle(p, j)
         \/ Progress(p) \/ Complete(p) \/ Fail(p) \/ Crash(p)
  PROVE  [Promise!Next]_(Promise!vars)
<1>1. TypeOK /\ JobsAreWorked
  BY DEF IInv
<1>2. ASSUME UNCHANGED <<state, poll>> PROVE [Promise!Next]_(Promise!vars)
  BY <1>2 DEF Promise!vars, Status, Reply
<1>3. ASSUME NEW j \in Jobs, Take(p, j) PROVE [Promise!Next]_(Promise!vars)
  BY <1>1, <1>3, StillPending DEF Take, Promise!vars
<1>4. CASE Complete(p)
  <2> DEFINE j == work[p].job
  <2>1. j \in Jobs
    BY <1>1, <1>4 DEF Complete, TypeOK, Work
  <2>2. CASE lock[j] = p
    BY <1>1, <1>4, <2>1, <2>2, HolderWorks, EndsOnce DEF Complete
  <2>3. CASE lock[j] # p
    BY <1>2, <1>4, <2>3 DEF Complete
  <2> QED
    BY <2>2, <2>3
<1>5. CASE Fail(p)
  <2> DEFINE j == work[p].job
             s == IF attempts[j] + 1 < Attempts THEN "delayed" ELSE "failed"
  <2>1. j \in Jobs
    BY <1>5, QueuesAssumption DEF Fail, Jobs
  <2>2. CASE lock[j] = p
    <3>1. state' = [state EXCEPT ![j] = s] /\ poll' = poll /\ state[j] = "active"
      BY <1>5, <2>1, <2>2, HolderWorks DEF Fail
    <3>2. s \in {"delayed", "failed"}
      OBVIOUS
    <3> HIDE DEF j, s
    <3>3. CASE s = "delayed"
      BY <1>1, <2>1, <3>1, <3>3, StillPending DEF Promise!vars
    <3>4. CASE s = "failed"
      BY <1>1, <2>1, <3>1, <3>4, EndsOnce
    <3> QED
      BY <3>2, <3>3, <3>4
  <2>3. CASE lock[j] # p
    BY <1>2, <1>5, <2>3 DEF Fail
  <2> QED
    BY <2>2, <2>3
<1>6. CASE Progress(p) \/ Crash(p) \/ \E j \in Jobs : Handle(p, j)
  BY <1>2, <1>6 DEF Progress, Crash, Handle
<1> QED
  BY <1>3, <1>4, <1>5, <1>6

LEMMA PollRefines ==
  ASSUME IInv, NEW c \in Clients,
         (\E i \in Images : GetJob(c, i)) \/ IsCompleted(c) \/ PollFails(c)
  PROVE  [Promise!Next]_(Promise!vars)
<1> USE NoneAssumption
<1>1. TypeOK /\ PollsAreHonest
  BY DEF IInv
<1>2. state' = state /\ \A d \in Clients : d # c => poll'[d] = poll[d]
  BY <1>1 DEF GetJob, IsCompleted, PollFails, TypeOK
<1>3. CASE poll'[c].code = None
  <2>1. Promise!Ask(c)
    BY <1>2, <1>3, ReplyChange DEF Promise!Ask
  <2> QED
    BY <2>1 DEF Promise!Next
<1>4. ASSUME NEW i \in Images, GetJob(c, i), poll'[c].code # None
      PROVE  [Promise!Next]_(Promise!vars)
  <2>1. poll'[c] = IF state[i] = "none"
         THEN [NoPoll EXCEPT !.step = "answered", !.job = i, !.code = 404]
         ELSE [NoPoll EXCEPT !.step = "isCompleted", !.job = i,
                             !.returnvalue = result[i], !.before = state[i]]
    BY <1>1, <1>4 DEF GetJob, TypeOK
  <2>2. state[i] = "none" /\ poll'[c].job = i /\ poll'[c].code = 404
    BY <1>4, <2>1 DEF NoPoll
  <2>3. 404 \in Promise!Codes(i)
    BY <2>2, StatusOf DEF Promise!Codes
  <2>4. Promise!Answer(c, i)
    BY <1>2, <2>2, <2>3, ReplyChange DEF Promise!Answer
  <2> QED
    BY <2>4 DEF Promise!Next
<1>5. CASE IsCompleted(c)
  <2> DEFINE i == poll[c].job
  <2>1. i \in Images /\ state[i] # "none"
    BY <1>1, <1>5 DEF IsCompleted, PollsAreHonest
  <2>2. /\ poll'[c].job = i
        /\ poll'[c].code = IF state[i] # "completed" THEN 202
                           ELSE IF poll[c].returnvalue = None THEN 500 ELSE 200
    BY <1>1, <1>5 DEF IsCompleted, TypeOK, Poll
  <2>3. poll'[c].code \in Promise!Codes(i) /\ poll'[c].code # None
    <3> HIDE DEF i
    <3>1. CASE state[i] = "completed"
      <4>1. Status[i] = "DONE"
        BY <2>1, <3>1, StatusOf
      <4> QED
        BY <2>2, <3>1, <4>1 DEF Promise!Codes
    <3>2. CASE state[i] # "completed"
      <4>1. state[i] \in {"waiting", "delayed", "active", "failed"}
        BY <1>1, <2>1, <3>2 DEF TypeOK, JobState, Jobs
      <4>2. Status[i] = "PENDING" \/ Status[i] = "FAILED"
        BY <2>1, <4>1, StatusOf
      <4> QED
        BY <2>2, <3>2, <4>2 DEF Promise!Codes
    <3> QED
      BY <3>1, <3>2
  <2>4. Promise!Answer(c, i)
    BY <1>2, <2>2, <2>3, ReplyChange DEF Promise!Answer
  <2> QED
    BY <2>1, <2>4 DEF Promise!Next
<1>6. CASE PollFails(c)
  <2>1. poll'[c].code = None
    BY <1>1, <1>6 DEF PollFails, TypeOK, NoPoll
  <2> QED
    BY <1>3, <2>1
<1> QED
  BY <1>3, <1>4, <1>5, <1>6

LEMMA StepRefines ==
  ASSUME IInv, [Next]_vars
  PROVE  [Promise!Next]_(Promise!vars)
<1>1. TypeOK
  BY DEF IInv
<1>2. ASSUME UNCHANGED <<state, poll>> PROVE [Promise!Next]_(Promise!vars)
  BY <1>2 DEF Promise!vars, Status, Reply
<1>3. ASSUME NEW j \in Jobs, Add(j) PROVE [Promise!Next]_(Promise!vars)
  <2>1. Reply' = Reply
    BY <1>3 DEF Add, Reply
  <2>2. state[j] = "none" /\ state' = [state EXCEPT ![j] = "waiting"]
    BY <1>3 DEF Add
  <2>3. CASE j \in Images
    <3>1. Status[j] = "NONE" /\ Status' = [Status EXCEPT ![j] = "PENDING"]
      <4>1. Status' = [Status EXCEPT ![j] = Standing["waiting"]]
        BY <1>1, <2>2, <2>3, StatusChange
      <4> QED
        BY <2>2, <2>3, <4>1, StatusOf
    <3>2. Promise!Submit(j)
      BY <2>1, <3>1 DEF Promise!Submit
    <3> QED
      BY <2>3, <3>2 DEF Promise!Next
  <2>4. CASE j \notin Images
    BY <1>1, <2>1, <2>2, <2>4, StatusChange DEF Promise!vars
  <2> QED
    BY <2>3, <2>4
<1>4. ASSUME NEW j \in Jobs, Promote(j) PROVE [Promise!Next]_(Promise!vars)
  BY <1>1, <1>4, StillPending DEF Promote, Promise!vars
<1>5. ASSUME NEW j \in Jobs, MoveStalled(j) PROVE [Promise!Next]_(Promise!vars)
  <2>1. CASE stalls[j] < MaxStalls
    BY <1>1, <1>5, <2>1, StillPending DEF MoveStalled, Promise!vars
  <2>2. CASE ~(stalls[j] < MaxStalls)
    BY <1>1, <1>5, <2>2, EndsOnce DEF MoveStalled
  <2> QED
    BY <2>1, <2>2
<1> QED
  BY <1>2, <1>3, <1>4, <1>5, WorkRefines, PollRefines, Steps DEF LoseLock, vars

-----------------------------------------------------------------------------
(* The theorems.                                                           *)

LEMMA InitIInv ==
  ASSUME Init
  PROVE  IInv
<1> USE BoundsAssumption, NoneAssumption
<1>1. TypeOK
  BY DEF Init, TypeOK, JobState, Work, IdleWorker, Poll, NoPoll, PollStep, Value
<1>2. RunsAreCounted /\ JobsAreWorked
  BY DEF Init, RunsAreCounted, JobsAreWorked, IdleWorker
<1>3. PollsAreHonest /\ AnswersAreTrue
  BY DEF Init, PollsAreHonest, AnswersAreTrue, NoPoll
<1> QED
  BY <1>1, <1>2, <1>3 DEF IInv

LEMMA StepIInv ==
  ASSUME IInv, [Next]_vars
  PROVE  IInv'
<1>1. TypeOK'
  BY TypeInvariance DEF IInv
<1> QED
  BY <1>1, RunsStayCounted, JobsStayWorked, PollsStayHonest DEF IInv

(* The inductive invariant holds in every reachable state, types included. *)
THEOREM Invariance == Spec => []IInv
  BY InitIInv, StepIInv, PTL DEF Spec

(* A job is run at most once for every attempt and every stall it is       *)
(* allowed, whatever workers die or lose their lock (image.processor.ts,   *)
(* the Bull options of app.module.ts).                                     *)
THEOREM RunsAreFew == Spec => []RunsAreBounded
<1>1. IInv => RunsAreBounded
  BY DEF IInv, RunsAreCounted, RunsAreBounded
<1> QED
  BY <1>1, Invariance, PTL

(* The answers of GET /optimize/image/:id fit the job                      *)
(* (optimize.controller.ts), for any number of clients that poll.          *)
THEOREM AnswersFit == Spec => []AnswersAreTrue
<1>1. IInv => AnswersAreTrue
  BY DEF IInv
<1> QED
  BY <1>1, Invariance, PTL

(* A job that completed keeps its result, also when a worker that lost its *)
(* lock ends another run of it.                                            *)
THEOREM ResultsStay == Spec => ResultIsFinal
<1>1. ASSUME IInv, [Next]_vars
      PROVE  [\A j \in Jobs : state[j] = "completed" =>
                state'[j] = "completed" /\ result'[j] = result[j]]_vars
  BY <1>1, JobsEndOnce
<1> QED
  BY <1>1, Invariance, PTL DEF Spec, ResultIsFinal

(* The endpoints keep the promise of AsyncJobs for every number of jobs,   *)
(* workers and clients: a job ends once, and every answer fits the way the *)
(* job stands at one moment of the request.                                *)
THEOREM PromiseRefinement == Spec => PromiseSpec
<1>1. ASSUME Init PROVE Promise!Init
  <2>1. \A i \in Images : state[i] = "none"
    BY <1>1 DEF Init, Jobs
  <2>2. \A c \in Clients : poll[c].code = None
    BY <1>1 DEF Init, NoPoll
  <2>3. Status = [i \in Images |-> "NONE"]
    BY <2>1, StatusOf DEF Status
  <2>4. Reply = [c \in Clients |-> None]
    BY <2>2 DEF Reply
  <2> QED
    BY <2>3, <2>4 DEF Promise!Init
<1> QED
  BY <1>1, StepRefines, Invariance, PTL DEF Spec, PromiseSpec, Promise!Spec
=============================================================================
