----------------------------- MODULE ExportJobs -----------------------------
(***************************************************************************)
(* Export jobs: the request that creates one, the table the workers claim  *)
(* them from, and the Redis queue that wakes the workers in bull mode.     *)
(*                                                                         *)
(* A worker is one polling server process (isTickRunning lets it process   *)
(* one job at a time) or one slot of a BullMQ worker.  It works outside    *)
(* request transactions, so each of its statements commits by itself.      *)
(***************************************************************************)
EXTENDS Naturals, Sequences

CONSTANTS
    Job,          \* export jobs, each created by a request of its own
    Worker,
    Modes,        \* queue modes the configuration may resolve to
    MaxAttempts,  \* maxAttempts of a job
    Crashes,      \* bound: crashes of worker processes
    NoJob

ASSUME ExportJobsConstants ==
    /\ NoJob \notin Job
    /\ Modes \subseteq {"poll", "bull"} /\ Modes # {}
    /\ MaxAttempts \in 1 .. 10
    /\ Crashes \in Nat

Settled   == {"DONE", "FAILED"}
JobStatus == {"ABSENT", "UNCOMMITTED", "QUEUED", "PROCESSING"} \cup Settled

VARIABLES
    mode,     \* queueMode
    made,     \* jobs in the order of their createdAt
    row,      \* the ExportJob rows
    req,      \* the creating requests
    bull,     \* the jobs BullMQ holds, by jobId
    worker,   \* what each worker is doing
    crashes

jobVars == <<mode, made, row, req, bull, worker, crashes>>

JobsTypeOK ==
    /\ mode \in {"poll", "bull"}
    /\ made \in Seq(Job)
    /\ row \in [Job -> [st : JobStatus, attempts : Nat]]
    /\ req \in [Job -> {"idle", "audit", "enqueue", "answer", "done"}]
    /\ bull \in [Job -> {"absent", "waiting", "active"}]
    /\ worker \in [Worker -> [pc : {"down", "idle", "find", "claim", "load", "run",
                                    "done", "failed", "requeue", "release"},
                              job : Job \cup {NoJob}, attempts : Nat]]
    /\ crashes \in 0 .. Crashes

JobsInit ==
    /\ mode \in Modes
    /\ made = <<>>
    /\ row = [j \in Job |-> [st |-> "ABSENT", attempts |-> 0]]
    /\ req = [j \in Job |-> "idle"]
    /\ bull = [j \in Job |-> "absent"]
    /\ worker = [w \in Worker |-> [pc |-> "down", job |-> NoJob, attempts |-> 0]]
    /\ crashes = 0

-----------------------------------------------------------------------------
(* The request POST /export-jobs. *)

(* Queue.add: a jobId that the queue still holds is not added again, nor is
   anything added in poll mode. *)
Added(S) == [j \in Job |-> IF mode = "bull" /\ j \in S /\ bull[j] = "absent"
                           THEN "waiting" ELSE bull[j]]

CreateJob(j) ==
    /\ req[j] = "idle"
    /\ made' = Append(made, j)
    /\ row' = [row EXCEPT ![j].st = "UNCOMMITTED"]
    /\ req' = [req EXCEPT ![j] = "audit"]
    /\ UNCHANGED <<mode, bull, worker, crashes>>

WriteAudit(j) ==
    /\ req[j] = "audit"
    /\ req' = [req EXCEPT ![j] = "enqueue"]
    /\ UNCHANGED <<mode, made, row, bull, worker, crashes>>

EnqueueExportJob(j) ==
    /\ req[j] = "enqueue"
    /\ bull' = Added({j})
    /\ req' = [req EXCEPT ![j] = "answer"]
    /\ UNCHANGED <<mode, made, row, worker, crashes>>

CommittedRows(j) == IF row[j].st = "UNCOMMITTED" THEN [row EXCEPT ![j].st = "QUEUED"] ELSE row

(* The answer is sent and the request transaction commits. *)
AnswerCreated(j) ==
    /\ req[j] = "answer"
    /\ row' = CommittedRows(j)
    /\ req' = [req EXCEPT ![j] = "done"]
    /\ UNCHANGED <<mode, made, bull, worker, crashes>>

(* The transaction ends early, by a closed connection or by a time-out.  A
   handler that still has to write its audit row fails; one that has written
   it goes on to enqueue. *)
EndEarly(j, rows) ==
    /\ row[j].st = "UNCOMMITTED"
    /\ row' = rows
    /\ req' = [req EXCEPT ![j] = IF @ = "audit" THEN "done" ELSE @]
    /\ UNCHANGED <<mode, made, bull, worker, crashes>>

Disconnect(j) == EndEarly(j, CommittedRows(j))
Timeout(j)    == EndEarly(j, [row EXCEPT ![j].st = "ABSENT"])

-----------------------------------------------------------------------------
(* The workers. *)

At(w, label) == worker[w].pc = label
Goto(w, label) == worker' = [worker EXCEPT ![w].pc = label]
Free(w, label) == worker' = [worker EXCEPT ![w] = [pc |-> label, job |-> NoJob, attempts |-> 0]]

Queued == {j \in Job : row[j].st = "QUEUED"}

(* The place of the oldest queued job among those made. *)
IsOldest(k) == made[k] \in Queued /\ \A n \in 1 .. (k - 1) : made[n] \notin Queued
Oldest   == made[CHOOSE k \in 1 .. Len(made) : IsOldest(k)]

(* startExportJobWorker; in bull mode bootstrapQueuedJobsInBull adds what the
   table says is queued. *)
StartWorker(w) ==
    /\ At(w, "down")
    /\ bull' = Added(Queued)
    /\ Free(w, "idle")
    /\ UNCHANGED <<mode, made, row, req, crashes>>

(* BullMQ hands a waiting job to a free slot. *)
TakeFromBull(w) ==
    /\ mode = "bull" /\ At(w, "idle")
    /\ \E j \in Job :
         /\ bull[j] = "waiting"
         /\ bull' = [bull EXCEPT ![j] = "active"]
         /\ worker' = [worker EXCEPT ![w].pc = "find", ![w].job = j]
    /\ UNCHANGED <<mode, made, row, req, crashes>>

(* processSingleQueuedJob: the job it was woken for, or the oldest one. *)
FindQueuedJob(w) ==
    /\ \/ mode = "bull" /\ At(w, "find")
          /\ Goto(w, IF worker[w].job \in Queued THEN "claim" ELSE "release")
       \/ mode = "poll" /\ At(w, "idle") /\ Queued # {}
          /\ worker' = [worker EXCEPT ![w].pc = "claim", ![w].job = Oldest]
    /\ UNCHANGED <<mode, made, row, req, bull, crashes>>

(* Fault: the claim does not check the status again. *)
FaultyClaimJob(w) ==
    /\ At(w, "claim")
    /\ LET j == worker[w].job
       IN row' = [row EXCEPT ![j] = [st |-> "PROCESSING", attempts |-> @.attempts + 1]]
    /\ Goto(w, "load")
    /\ UNCHANGED <<mode, made, req, bull, crashes>>

(* updateMany where the status is still QUEUED. *)
ClaimJob(w) ==
    /\ At(w, "claim")
    /\ LET j == worker[w].job
       IN  IF j \in Queued
           THEN /\ row' = [row EXCEPT ![j] = [st |-> "PROCESSING", attempts |-> @.attempts + 1]]
                /\ Goto(w, "load")
           ELSE Goto(w, "release") /\ UNCHANGED row
    /\ UNCHANGED <<mode, made, req, bull, crashes>>

LoadJob(w) ==
    /\ At(w, "load")
    /\ worker' = [worker EXCEPT ![w].pc = "run", ![w].attempts = row[worker[w].job].attempts]
    /\ UNCHANGED <<mode, made, row, req, bull, crashes>>

(* executeExportJob returns a file or throws; a failing update to DONE ends
   in the same catch block. *)
ExecuteExportJob(w) ==
    /\ At(w, "run")
    /\ Goto(w, "done") \/ Goto(w, "failed")
    /\ UNCHANGED <<mode, made, row, req, bull, crashes>>

SaveResult(w) ==
    /\ At(w, "done")
    /\ row' = [row EXCEPT ![worker[w].job].st = "DONE"]
    /\ Goto(w, "release")
    /\ UNCHANGED <<mode, made, req, bull, crashes>>

(* Fault: one attempt too many. *)
FaultyShouldRetry(w) == worker[w].attempts <= MaxAttempts

ShouldRetry(w) == worker[w].attempts < MaxAttempts

SaveFailure(w) ==
    /\ At(w, "failed")
    /\ row' = [row EXCEPT ![worker[w].job].st = IF ShouldRetry(w) THEN "QUEUED" ELSE "FAILED"]
    /\ Goto(w, IF ShouldRetry(w) /\ mode = "bull" THEN "requeue" ELSE "release")
    /\ UNCHANGED <<mode, made, req, bull, crashes>>

(* The retry is added under the jobId that this worker still holds active. *)
Requeue(w) ==
    /\ At(w, "requeue")
    /\ bull' = Added({worker[w].job})
    /\ Goto(w, "release")
    /\ UNCHANGED <<mode, made, row, req, crashes>>

(* Fault: a tick whose job is queued again leaves isTickRunning set. *)
FaultyRelease(w) ==
    /\ At(w, "release")
    /\ row[worker[w].job].st # "QUEUED"
    /\ bull' = [bull EXCEPT ![worker[w].job] = "absent"]
    /\ Free(w, "idle")
    /\ UNCHANGED <<mode, made, row, req, crashes>>

(* The tick or the BullMQ job ends; removeOnComplete forgets the jobId. *)
Release(w) ==
    /\ At(w, "release")
    /\ bull' = [bull EXCEPT ![worker[w].job] = "absent"]
    /\ Free(w, "idle")
    /\ UNCHANGED <<mode, made, row, req, crashes>>

(* The process dies; BullMQ returns the stalled job to the waiting ones. *)
Crash(w) ==
    /\ ~At(w, "down") /\ crashes < Crashes
    /\ crashes' = crashes + 1
    /\ bull' = [j \in Job |-> IF mode = "bull" /\ worker[w].job = j THEN "waiting" ELSE bull[j]]
    /\ Free(w, "down")
    /\ UNCHANGED <<mode, made, row, req>>

-----------------------------------------------------------------------------
Request(j) == \/ CreateJob(j) \/ WriteAudit(j) \/ EnqueueExportJob(j) \/ AnswerCreated(j)
              \/ Disconnect(j) \/ Timeout(j)

Work(w) == \/ StartWorker(w) \/ TakeFromBull(w) \/ FindQueuedJob(w) \/ ClaimJob(w)
           \/ LoadJob(w) \/ ExecuteExportJob(w) \/ SaveResult(w) \/ SaveFailure(w)
           \/ Requeue(w) \/ Release(w)

JobsNext == (\E j \in Job : Request(j)) \/ (\E w \in Worker : Work(w) \/ Crash(w))

JobsSpec == JobsInit /\ [][JobsNext]_jobVars

(* Timers and BullMQ keep waking the workers, and a dead process is started
   again. *)
FairJobsSpec == JobsSpec /\ \A w \in Worker : WF_jobVars(Work(w))

-----------------------------------------------------------------------------
(* Properties. *)

Holding(w) == worker[w].pc \in {"load", "run", "done", "failed"}

(* A job is executed by one worker at a time, and its row says so, although
   the workers find it before they claim it and crash at any point. *)
OneRunner ==
    \A w \in Worker : Holding(w) =>
        /\ row[worker[w].job].st = "PROCESSING"
        /\ \A v \in Worker : Holding(v) /\ worker[v].job = worker[w].job => v = w

(* A job is given up after exactly maxAttempts executions and never has more:
   the attempts the worker decides on are those of its own claim. *)
GivenUpInTime ==
    \A j \in Job : /\ row[j].attempts <= MaxAttempts
                   /\ row[j].st = "FAILED" => row[j].attempts = MaxAttempts

(* How many executions a job has behind it, by its status. *)
AttemptsByStatus(e) ==
    CASE e.st \in {"ABSENT", "UNCOMMITTED"} -> e.attempts = 0
      [] e.st = "QUEUED"                    -> e.attempts < MaxAttempts
      [] e.st = "FAILED"                    -> e.attempts = MaxAttempts
      [] OTHER                              -> e.attempts \in 1 .. MaxAttempts

(* The inductive invariant behind OneRunner and GivenUpInTime. *)
JobsInv ==
    /\ JobsTypeOK
    /\ \A j \in Job : /\ AttemptsByStatus(row[j])
                      /\ req[j] = "idle" => row[j].st = "ABSENT"
                      /\ row[j].st # "ABSENT" => \E k \in 1 .. Len(made) : made[k] = j
    /\ \A w \in Worker : /\ worker[w].pc \notin {"down", "idle"} => worker[w].job \in Job
                         /\ worker[w].pc \in {"run", "done", "failed"}
                              => worker[w].attempts = row[worker[w].job].attempts
    /\ OneRunner

(* A worker died while it held the job: nothing picks up PROCESSING rows. *)
Abandoned(j) == row[j].st = "PROCESSING" /\ \A w \in Worker : worker[w].job # j

(* With polling workers every committed job is eventually finished or given
   up, through failures, retries and restarts, unless a worker died on it. *)
PolledJobsSettle ==
    \A j \in Job : (mode = "poll" /\ row[j].st = "QUEUED")
                      ~> (row[j].st \in Settled \/ Abandoned(j))
=============================================================================
