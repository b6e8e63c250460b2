------------------------------ MODULE OptimizeJobs ------------------------------
(***************************************************************************)
(* Jobs that a client uploads and asks for later, and jobs nobody asks for *)
(* (optimize/): images are optimized in a process of their own             *)
(* (image.processor) and fetched by GET /optimize/image/:id, audio is      *)
(* transcoded in the server (audio.processor), whose processes all hear of *)
(* its progress and of its end.                                            *)
(*                                                                         *)
(* The queue is Bull, with the options of app.module: a job is tried again *)
(* after a failure, and handed out again when its worker lost its lock.    *)
(* Jobs are never removed.  A result is the number of the run it is of.    *)
(***************************************************************************)
EXTENDS Naturals

CONSTANTS
  Images,     \* the ids of the jobs of the queue image
  Audios,     \* those of the queue audio
  Bad,        \* the images that imagemin may reject
  Processes,  \* the processes of the cluster
  Faulty,     \* those that may die or lose a lock
  Clients,    \* the slots that serve GET /optimize/image/:id
  Attempts,   \* how often a job is tried (attempts)
  MaxStalls,  \* how often a stalled job is handed out again (maxStalledCount)
  None

Jobs == Images \union Audios

ASSUME QueuesAssumption == Images \intersect Audios = {} /\ Bad \subseteq Images
ASSUME ProcessesAssumption == Faulty \subseteq Processes
ASSUME BoundsAssumption == Attempts \in Nat \ {0} /\ MaxStalls \in Nat
ASSUME NoneAssumption == None \notin Jobs \union Processes \union Nat

VARIABLES
  state,     \* job -> its state in Redis
  attempts,  \* job -> how often it failed (attemptsMade)
  stalls,    \* job -> how often it was found without a lock
  runs,      \* job -> how often a worker took it (history)
  result,    \* job -> its return value: the run that completed it, or None
  lock,      \* job -> the process whose lock on it is valid
  work,      \* process -> the job its worker runs, and which run of it this is
  events,    \* <<process, job>>: an event of an audio job that is being handled
  poll       \* client -> the request it makes and its last answer

vars == <<state, attempts, stalls, runs, result, lock, work, events, poll>>

JobState == {"none", "waiting", "delayed", "active", "completed", "failed"}
Work == [job : Jobs \union {None}, run : Nat]
PollStep == {"idle", "isCompleted", "answered"}
Value == Nat \union {None}
Code == {200, 202, 404, 500}
Poll ==
  [step : PollStep, job : Images \union {None}, returnvalue : Value, before : JobState,
   code : Code \union {None}]

IdleWorker == [job |-> None, run |-> 0]
NoPoll ==
  [step |-> "idle", job |-> None, returnvalue |-> None, before |-> "none", code |-> None]

-----------------------------------------------------------------------------
Init ==
  /\ state = [j \in Jobs |-> "none"]
  /\ attempts = [j \in Jobs |-> 0]
  /\ stalls = [j \in Jobs |-> 0]
  /\ runs = [j \in Jobs |-> 0]
  /\ result = [j \in Jobs |-> None]
  /\ lock = [j \in Jobs |-> None]
  /\ work = [p \in Processes |-> IdleWorker]
  /\ events = {}
  /\ poll = [c \in Clients |-> NoPoll]

\* POST /optimize/image and /audio/transcode: the answer waits for queue.add.
Add(j) ==
  /\ state[j] = "none"
  /\ state' = [state EXCEPT ![j] = "waiting"]
  /\ UNCHANGED <<attempts, stalls, runs, result, lock, work, events, poll>>

(***************************************************************************)
(* GET /optimize/image/:id.                                                *)
(***************************************************************************)

\* getJob reads the job with the return value it has by now, if any.
GetJob(c, j) ==
  /\ poll[c].step # "isCompleted"
  /\ poll' = [poll EXCEPT ![c] =
       IF state[j] = "none"
         THEN [NoPoll EXCEPT !.step = "answered", !.job = j, !.code = 404]
         ELSE [NoPoll EXCEPT !.step = "isCompleted", !.job = j,
                             !.returnvalue = result[j], !.before = state[j]]]
  /\ UNCHANGED <<state, attempts, stalls, runs, result, lock, work, events>>

\* Mutant: a job is ready as soon as it is no longer in work.
IsFinished(c) ==
  /\ poll[c].step = "isCompleted"
  /\ poll' = [poll EXCEPT ![c] = [@ EXCEPT
       !.step = "answered",
       !.code = IF state[poll[c].job] \notin {"completed", "failed"} THEN 202
                ELSE IF poll[c].returnvalue = None THEN 500 ELSE 200]]
  /\ UNCHANGED <<state, attempts, stalls, runs, result, lock, work, events>>

\* isCompleted asks Redis again; the return value is still the one read before,
\* and Buffer.from throws when there is none.
IsCompleted(c) ==
  /\ poll[c].step = "isCompleted"
  /\ poll' = [poll EXCEPT ![c] = [@ EXCEPT
       !.step = "answered",
       !.code = IF state[poll[c].job] # "completed" THEN 202
                ELSE IF poll[c].returnvalue = None THEN 500 ELSE 200]]
  /\ UNCHANGED <<state, attempts, stalls, runs, result, lock, work, events>>

\* The client is gone, or the process that serves it.
PollFails(c) ==
  /\ poll[c].step = "isCompleted"
  /\ poll' = [poll EXCEPT ![c] = NoPoll]
  /\ UNCHANGED <<state, attempts, stalls, runs, result, lock, work, events>>

(***************************************************************************)
(* The workers.                                                            *)
(***************************************************************************)
Take(p, j) ==
  /\ work[p].job = None
  /\ state[j] = "waiting"
  /\ state' = [state EXCEPT ![j] = "active"]
  /\ runs' = [runs EXCEPT ![j] = @ + 1]
  /\ lock' = [lock EXCEPT ![j] = p]
  /\ work' = [work EXCEPT ![p] = [job |-> j, run |-> runs[j] + 1]]
  /\ UNCHANGED <<attempts, stalls, result, events, poll>>

\* An event of the audio queue reaches every process.
Heard(j) == IF j \in Audios THEN Processes \X {j} ELSE {}

Progress(p) ==
  /\ work[p].job \in Audios
  /\ events' = events \union Heard(work[p].job)
  /\ UNCHANGED <<state, attempts, stalls, runs, result, lock, work, poll>>

\* Mutant: a worker that lost its lock completes its job all the same.
CompleteUnlocked(p) ==
  /\ work[p].job # None
  /\ LET j == work[p].job IN
       /\ state' = [state EXCEPT ![j] = "completed"]
       /\ result' = [result EXCEPT ![j] = work[p].run]
       /\ lock' = [lock EXCEPT ![j] = None]
       /\ events' = events \union Heard(j)
  /\ work' = [work EXCEPT ![p] = IdleWorker]
  /\ UNCHANGED <<attempts, stalls, runs, poll>>

\* Mutant: the end of a run is never reported.
CompleteUnheard(p) == work[p].job # None /\ UNCHANGED vars

\* Bull refuses the result of a worker that lost its lock.
Complete(p) ==
  /\ work[p].job # None
  /\ LET j == work[p].job IN
       IF lock[j] = p
         THEN /\ state' = [state EXCEPT ![j] = "completed"]
              /\ result' = [result EXCEPT ![j] = work[p].run]
              /\ lock' = [lock EXCEPT ![j] = None]
              /\ events' = events \union Heard(j)
         ELSE UNCHANGED <<state, result, lock, events>>
  /\ work' = [work EXCEPT ![p] = IdleWorker]
  /\ UNCHANGED <<attempts, stalls, runs, poll>>

\* Mutant: the attempts are not counted.
FailUncounted(p) ==
  /\ work[p].job \in Bad
  /\ LET j == work[p].job IN
       IF lock[j] = p
         THEN /\ state' = [state EXCEPT ![j] = "delayed"]
              /\ lock' = [lock EXCEPT ![j] = None]
         ELSE UNCHANGED <<state, lock>>
  /\ work' = [work EXCEPT ![p] = IdleWorker]
  /\ UNCHANGED <<attempts, stalls, runs, result, events, poll>>

\* The rejection of the optimization does not reach the callback; it ends the
\* child, and Bull fails the job: it waits for its backoff, or is given up.
Fail(p) ==
  /\ work[p].job \in Bad
  /\ LET j == work[p].job IN
       IF lock[j] = p
         THEN /\ attempts' = [attempts EXCEPT ![j] = @ + 1]
              /\ state' = [state EXCEPT ![j] =
                   IF attempts[j] + 1 < Attempts THEN "delayed" ELSE "failed"]
              /\ lock' = [lock EXCEPT ![j] = None]
         ELSE UNCHANGED <<attempts, state, lock>>
  /\ work' = [work EXCEPT ![p] = IdleWorker]
  /\ UNCHANGED <<stalls, runs, result, events, poll>>

\* The backoff is over.
Promote(j) ==
  /\ state[j] = "delayed"
  /\ state' = [state EXCEPT ![j] = "waiting"]
  /\ UNCHANGED <<attempts, stalls, runs, result, lock, work, events, poll>>

\* The handler of a global event has read its job back.
Handle(p, j) ==
  /\ <<p, j>> \in events
  /\ events' = events \ {<<p, j>>}
  /\ UNCHANGED <<state, attempts, stalls, runs, result, lock, work, poll>>

(***************************************************************************)
(* What can go wrong.                                                      *)
(***************************************************************************)
Held(j) == \E p \in Processes : lock[j] = p /\ work[p].job = j

LoseLock(j) ==
  /\ lock[j] \in Faulty
  /\ lock' = [lock EXCEPT ![j] = None]
  /\ UNCHANGED <<state, attempts, stalls, runs, result, work, events, poll>>

MoveStalled(j) ==
  /\ state[j] = "active"
  /\ lock[j] = None
  /\ stalls' = [stalls EXCEPT ![j] = @ + 1]
  /\ state' = [state EXCEPT ![j] = IF stalls[j] < MaxStalls THEN "waiting" ELSE "failed"]
  /\ UNCHANGED <<attempts, runs, result, lock, work, events, poll>>

Crash(p) ==
  /\ p \in Faulty
  /\ work' = [work EXCEPT ![p] = IdleWorker]
  /\ events' = {e \in events : e[1] # p}
  /\ UNCHANGED <<state, attempts, stalls, runs, result, lock, poll>>

-----------------------------------------------------------------------------
Run(p) == Complete(p) \/ Fail(p)

Next ==
  \/ \E j \in Jobs : Add(j) \/ Promote(j) \/ LoseLock(j) \/ MoveStalled(j)
  \/ \E c \in Clients :
       (\E j \in Images : GetJob(c, j)) \/ IsCompleted(c) \/ PollFails(c)
  \/ \E p \in Processes :
       \/ \E j \in Jobs : Take(p, j) \/ Handle(p, j)
       \/ Progress(p) \/ Run(p) \/ Crash(p)

Spec == Init /\ [][Next]_vars

\* A worker ends its run and a free one takes a waiting job; a backoff ends, a
\* lock nobody renews expires, and the stalled check finds its job.
FairSpec ==
  /\ Spec
  /\ \A p \in Processes : WF_vars(Run(p))
  /\ \A j \in Jobs :
       /\ WF_vars(\E p \in Processes : Take(p, j))
       /\ WF_vars(Promote(j))
       /\ WF_vars(LoseLock(j) /\ ~Held(j))
       /\ WF_vars(MoveStalled(j))

-----------------------------------------------------------------------------
(* Type invariant.                                                         *)
TypeOK ==
  /\ state \in [Jobs -> JobState]
  /\ attempts \in [Jobs -> Nat]
  /\ stalls \in [Jobs -> Nat]
  /\ runs \in [Jobs -> Nat]
  /\ result \in [Jobs -> Value]
  /\ lock \in [Jobs -> Processes \union {None}]
  /\ work \in [Processes -> Work]
  /\ events \subseteq Processes \X Jobs
  /\ poll \in [Clients -> Poll]

(* A result is given once and stays: a second run of a job, by a worker    *)
(* that took it after it stalled, changes nothing a client may have been   *)
(* given.                                                                  *)
ResultIsFinal ==
  [][\A j \in Jobs : state[j] = "completed" =>
       state'[j] = "completed" /\ result'[j] = result[j]]_vars

(* What a poll is answered fits its job: 200 comes with the result of the  *)
(* job, and 500 only when the job completed while the poll was under way,  *)
(* between its two reads; who asks again is not answered so.               *)
AnswersAreTrue ==
  \A c \in Clients :
    /\ poll[c].code = 200 => /\ state[poll[c].job] = "completed"
                             /\ poll[c].returnvalue = result[poll[c].job]
    /\ poll[c].code = 500 => /\ state[poll[c].job] = "completed"
                             /\ poll[c].before # "completed"

(* A job is run at most Attempts times and once more for every time it may *)
(* stall, whatever workers die or go on without their lock.                *)
RunsAreBounded == \A j \in Jobs : runs[j] <= Attempts + MaxStalls

(* Every job that was added ends: it is completed, or given up after its   *)
(* attempts or its stalls.                                                 *)
AddedEnds ==
  \A j \in Jobs : state[j] # "none" ~> state[j] \in {"completed", "failed"}

-----------------------------------------------------------------------------
(* The inductive invariant behind these properties.                        *)

\* A job that may be run again was run once for every failure and every stall.
RunsAreCounted ==
  \A j \in Jobs :
    /\ state[j] = "none" => runs[j] = 0 /\ attempts[j] = 0 /\ stalls[j] = 0
    /\ state[j] \in {"waiting", "delayed"} =>
         runs[j] = attempts[j] + stalls[j] /\ attempts[j] < Attempts /\ stalls[j] <= MaxStalls
    /\ state[j] = "active" =>
         runs[j] = attempts[j] + stalls[j] + 1 /\ attempts[j] < Attempts /\ stalls[j] <= MaxStalls
    /\ runs[j] <= Attempts + MaxStalls

JobsAreWorked ==
  /\ \A j \in Jobs : lock[j] # None => state[j] = "active"
  /\ \A j \in Jobs : result[j] # None <=> state[j] = "completed"
  /\ \A p \in Processes : work[p].job # None => state[work[p].job] # "none"

\* What a poll read of its job was so when it read it.
PollsAreHonest ==
  \A c \in Clients :
    /\ poll[c].step = "idle" => poll[c].code = None
    /\ poll[c].step # "idle" => poll[c].job \in Images
    /\ poll[c].step = "isCompleted" =>
         /\ poll[c].code = None
         /\ state[poll[c].job] # "none"
         /\ poll[c].before = "completed" => poll[c].returnvalue # None
         /\ poll[c].returnvalue # None => poll[c].returnvalue = result[poll[c].job]

(* What every step of the code keeps.                                      *)
IInv ==
  /\ TypeOK
  /\ RunsAreCounted
  /\ JobsAreWorked
  /\ PollsAreHonest
  /\ AnswersAreTrue

-----------------------------------------------------------------------------
(* What the clients are promised, as an abstract specification.            *)
Standing ==
  [s \in JobState |->
     IF s = "none" THEN "NONE"
     ELSE IF s = "completed" THEN "DONE"
     ELSE IF s = "failed" THEN "FAILED"
     ELSE "PENDING"]

Status == [j \in Images |-> Standing[state[j]]]

Reply == [c \in Clients |->
  IF poll[c].code = None THEN None ELSE <<poll[c].job, poll[c].code>>]

Promise == INSTANCE AsyncJobs
             WITH Items <- Images, Askers <- Clients, Nothing <- None,
                  status <- Status, reply <- Reply

\* Jobs end once, and every answer was true at one moment (see AsyncJobs).
PromiseSpec == Promise!Spec
=============================================================================
