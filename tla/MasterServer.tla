---------------------------- MODULE MasterServer ----------------------------
(***************************************************************************)
(* The life of the jobs at the master: the HTTP handlers of                *)
(* internal/server/http.go and the monitors of                             *)
(* internal/coordinator/coordinator.go, running concurrently over the jobs *)
(* table (JobStore) and the output files.                                  *)
(*                                                                         *)
(* A handler reads the row, decides, and issues a guarded UPDATE that      *)
(* carries what it read.  Between the two anything may happen, so reading  *)
(* and updating are separate actions and what the goroutine remembers is   *)
(* its request record.  Workers appear as the attempts they were handed:   *)
(* an attempt may run for ever, report late, report what is no longer      *)
(* theirs, or vanish.                                                      *)
(***************************************************************************)
EXTENDS JobStore, FiniteSets

CONSTANTS
  Jobs,        \* job ids, a hash of the source path
  NoJob,       \* names no job
  Handlers,    \* bound: request goroutines in flight at once
  MaxCrashes   \* bound: master crashes in a behaviour

ASSUME ServerAssumption == NoJob \notin Jobs /\ MaxCrashes \in Nat

VARIABLES
  jobs,     \* the jobs table
  file,     \* output file of each job: the claim that produced it, 0 if none
  claims,   \* claims made so far
  attempt,  \* what the worker of each claim is doing
  aged,     \* claims up to this one have exceeded the job timeout
  req,      \* what each request goroutine remembers
  health,   \* monitorWorkerHealth: where it is and what it has read
  retrier,  \* monitorFailedJobs: the failed rows read and not yet handled
  crashes   \* master crashes so far

vars == <<jobs, file, claims, attempt, aged, req, health, retrier, crashes>>

-----------------------------------------------------------------------------
(* Types.                                                                  *)

Attempt == [job : Jobs, worker : Workers, phase : {"running", "over"}]

Unclaimed == [job |-> NoJob, worker |-> NoWorker, phase |-> "free"]

Ops == {"complete", "fail", "upload", "renamed", "summed",
        "retry", "requeue", "cancel"}

\* What a handler keeps between its read and its UPDATE: the job, the worker
\* and the values it will pass as expected; an upload also has its content
\* and, later, the checksum it computed.
Request == [op      : Ops,
            job     : Jobs,
            worker  : Workers \cup {NoWorker},
            status  : Status,
            started : Stamp,
            content : Stamp,
            sum     : Stamp]

Idle == [op |-> "idle", job |-> NoJob, worker |-> NoWorker,
         status |-> "absent", started |-> 0, content |-> 0, sum |-> 0]

\* A row as a monitor has read it.
Snapshot == [job     : Jobs,
             worker  : Workers \cup {NoWorker},
             started : Stamp,
             retries : Nat]

Snap(j) == [job     |-> j,
            worker  |-> jobs[j].worker,
            started |-> jobs[j].started,
            retries |-> jobs[j].retries]

Health == [at      : {"idle", "offline", "stale"},
           offline : SUBSET Workers,
           todo    : SUBSET Snapshot]

HealthIdle == [at |-> "idle", offline |-> {}, todo |-> {}]

TypeOK ==
  /\ jobs \in [Jobs -> Row]
  /\ file \in [Jobs -> Stamp]
  /\ claims \in Stamp
  /\ attempt \in [Claim -> Attempt \cup {Unclaimed}]
  /\ aged \in Stamp
  /\ req \in [Handlers -> Request \cup {Idle}]
  /\ health \in Health
  /\ retrier \subseteq Snapshot
  /\ crashes \in 0 .. MaxCrashes

Init ==
  /\ jobs = [j \in Jobs |-> Absent]
  /\ file = [j \in Jobs |-> 0]
  /\ claims = 0
  /\ attempt = [n \in Claim |-> Unclaimed]
  /\ aged = 0
  /\ req = [h \in Handlers |-> Idle]
  /\ health = HealthIdle
  /\ retrier = {}
  /\ crashes = 0

-----------------------------------------------------------------------------
(* Jobs come and go.                                                       *)

\* CreateJob, called by the scanner, the file watcher and POST /api/job.
Submit(j) ==
  /\ jobs[j].status = "absent"
  /\ jobs' = [jobs EXCEPT ![j] = NewJob]
  /\ UNCHANGED <<file, claims, attempt, aged, req, health, retrier, crashes>>

\* PruneJobs deletes rows in one statement; the output files stay.
Prune(status) ==
  /\ \E j \in Jobs : Prunes(jobs[j], status)
  /\ jobs' = [j \in Jobs |->
                IF Prunes(jobs[j], status) THEN Absent ELSE jobs[j]]
  /\ UNCHANGED <<file, claims, attempt, aged, req, health, retrier, crashes>>

\* GetNextJob hands a pending row to a worker.  If the response does not reach
\* it the attempt is over before it began, and the claim stands all the same.
GetNextJob(w, j) ==
  LET now == claims + 1 IN
  /\ now \in Claim
  /\ jobs[j].status = "pending"
  /\ jobs' = [jobs EXCEPT ![j] = ClaimedRow(jobs[j], w, now)]
  /\ claims' = now
  /\ \E p \in {"running", "over"} :
       attempt' = [attempt EXCEPT
                     ![now] = [job |-> j, worker |-> w, phase |-> p]]
  /\ UNCHANGED <<file, aged, req, health, retrier, crashes>>

\* Time passes: one more claim is older than the job timeout.
Age ==
  /\ aged < claims
  /\ aged' = aged + 1
  /\ UNCHANGED <<jobs, file, claims, attempt, req, health, retrier, crashes>>

-----------------------------------------------------------------------------
(* The workers, seen from the master.                                      *)

\* The worker is done with the attempt, has crashed, or its report is lost.
EndAttempt(n) ==
  /\ attempt[n].phase = "running"
  /\ attempt' = [attempt EXCEPT ![n].phase = "over"]
  /\ UNCHANGED <<jobs, file, claims, aged, req, health, retrier, crashes>>

-----------------------------------------------------------------------------
(* Request goroutines: the read half.                                      *)

Exists(j) == jobs[j].status # "absent"

\* The goroutine h starts on a request about j.  It will expect the stamp it
\* reads now, and the given worker and status where its UPDATE names them.
Begin(h, op, j, worker, status, content) ==
  /\ req[h] = Idle
  /\ req' = [req EXCEPT ![h] =
               [op |-> op, job |-> j, worker |-> worker, status |-> status,
                started |-> jobs[j].started, content |-> content, sum |-> 0]]

\* POST /api/worker/job-complete: the expected stamp is the one the handler
\* reads, not one the worker sends.
RecvComplete(h, n) ==
  LET j == attempt[n].job IN
  /\ attempt[n].phase = "running"
  /\ Exists(j)
  /\ Begin(h, "complete", j, attempt[n].worker, "processing", 0)
  /\ UNCHANGED <<jobs, file, claims, attempt, aged, health, retrier, crashes>>

\* POST /api/worker/job-failed, sent once per attempt.  It may arrive late: a
\* worker is not told that its job was taken away, so an attempt that still
\* runs and one whose report is on its way look alike.
RecvFailure(h, n) ==
  LET j == attempt[n].job IN
  /\ attempt[n].phase = "running"
  /\ Exists(j)
  /\ Begin(h, "fail", j, attempt[n].worker, "processing", 0)
  /\ attempt' = [attempt EXCEPT ![n].phase = "over"]
  /\ UNCHANGED <<jobs, file, claims, aged, health, retrier, crashes>>

\* POST /api/worker/upload-video names only the job.  The handler takes the
\* worker and the stamp from the row.  A worker that got no answer sends the
\* file again while the first request may still be running.
RecvUpload(h, n) ==
  LET j == attempt[n].job IN
  /\ attempt[n].phase = "running"
  /\ jobs[j].status = "processing"
  /\ Begin(h, "upload", j, jobs[j].worker, "processing", n)
  /\ UNCHANGED <<jobs, file, claims, attempt, aged, health, retrier, crashes>>

\* POST /api/job/retry takes any failed job; POST /api/jobs/retry takes the
\* rows GetRetryableFailedJobs returns, each then reset like a single one.
RecvRetry(h, j) ==
  /\ jobs[j].status = "failed"
  /\ Begin(h, "retry", j, NoWorker, "failed", 0)
  /\ UNCHANGED <<jobs, file, claims, attempt, aged, health, retrier, crashes>>

\* POST /api/job/requeue takes a job in any status.
RecvRequeue(h, j) ==
  /\ Exists(j)
  /\ Begin(h, "requeue", j, NoWorker, jobs[j].status, 0)
  /\ UNCHANGED <<jobs, file, claims, attempt, aged, health, retrier, crashes>>

\* POST /api/job/cancel and each job of POST /api/jobs/cancel.
RecvCancel(h, j) ==
  /\ jobs[j].status \in {"pending", "processing"}
  /\ Begin(h, "cancel", j, NoWorker, "absent", 0)
  /\ UNCHANGED <<jobs, file, claims, attempt, aged, health, retrier, crashes>>

-----------------------------------------------------------------------------
(* Request goroutines: the guarded UPDATE, then the answer.                *)

Answer(h) == req' = [req EXCEPT ![h] = Idle]

Update(j, matches, row) ==
  jobs' = IF matches THEN [jobs EXCEPT ![j] = row] ELSE jobs

\* The body of an upload cannot be read, a file operation or the statement
\* fails: the handler answers with an error.  A file it has already renamed
\* stays.
RequestFails(h) ==
  /\ req[h].op # "idle"
  /\ Answer(h)
  /\ UNCHANGED <<jobs, file, claims, attempt, aged, health, retrier, crashes>>

JobComplete(h) ==
  LET r == req[h]
      row == jobs[r.job]
  IN
  /\ r.op = "complete"
  /\ Update(r.job, HeldBy(row, r.worker, r.started),
                   CompletedRow(row, r.worker, 0))
  /\ Answer(h)
  /\ UNCHANGED <<file, claims, attempt, aged, health, retrier, crashes>>

JobFailed(h) ==
  LET r == req[h]
      row == jobs[r.job]
  IN
  /\ r.op = "fail"
  /\ Update(r.job, HeldBy(row, r.worker, r.started), FailedRow(row, r.worker))
  /\ Answer(h)
  /\ UNCHANGED <<file, claims, attempt, aged, health, retrier, crashes>>

\* RetryJob, RetryFailedJobs.
RetryJob(h) ==
  LET r == req[h]
      row == jobs[r.job]
  IN
  /\ r.op = "retry"
  /\ Update(r.job, ResetMatches(row, r.status, NoWorker, r.started),
                   PendingAgain(row, TRUE))
  /\ Answer(h)
  /\ UNCHANGED <<file, claims, attempt, aged, health, retrier, crashes>>

RequeueJob(h) ==
  LET r == req[h]
      row == jobs[r.job]
  IN
  /\ r.op = "requeue"
  /\ Update(r.job, ResetMatches(row, r.status, NoWorker, r.started),
                   PendingAgain(row, FALSE))
  /\ Answer(h)
  /\ UNCHANGED <<file, claims, attempt, aged, health, retrier, crashes>>

\* CancelJob, cancelJobBatch.
CancelJob(h) ==
  LET r == req[h]
      row == jobs[r.job]
  IN
  /\ r.op = "cancel"
  /\ Update(r.job, CancelMatches(row, r.started), CancelledRow(row))
  /\ Answer(h)
  /\ UNCHANGED <<file, claims, attempt, aged, health, retrier, crashes>>

(* UploadVideo.  The body is received into a temporary file, the file is   *)
(* renamed over the output, its checksum is read back from the output      *)
(* path, and only then is the row updated.                                 *)

UploadRename_AfterUpdate(h) ==
  /\ req[h].op = "upload"
  /\ req' = [req EXCEPT ![h].op = "summed", ![h].sum = req[h].content]
  /\ UNCHANGED <<jobs, file, claims, attempt, aged, health, retrier, crashes>>
UploadRename(h) ==
  /\ req[h].op = "upload"
  /\ file' = [file EXCEPT ![req[h].job] = req[h].content]
  /\ req' = [req EXCEPT ![h].op = "renamed"]
  /\ UNCHANGED <<jobs, claims, attempt, aged, health, retrier, crashes>>

\* A checksum that cannot be computed is logged and left empty.
UploadChecksum(h) ==
  /\ req[h].op = "renamed"
  /\ \E sum \in {file[req[h].job], 0} :
       req' = [req EXCEPT ![h].op = "summed", ![h].sum = sum]
  /\ UNCHANGED <<jobs, file, claims, attempt, aged, health, retrier, crashes>>

UploadComplete(h) ==
  LET r == req[h]
      row == jobs[r.job]
  IN
  /\ r.op = "summed"
  /\ Update(r.job, HeldBy(row, r.worker, r.started),
                   CompletedRow(row, r.worker, r.sum))
  /\ Answer(h)
  /\ UNCHANGED <<file, claims, attempt, aged, health, retrier, crashes>>

-----------------------------------------------------------------------------
(* monitorWorkerHealth: one goroutine, one tick at a time.                 *)

\* Any set of workers may be found silent: which ones, and the marking of
\* their rows, is the workers table's affair and not the jobs'.
HealthTick(offline) ==
  /\ health = HealthIdle
  /\ health' = [HealthIdle EXCEPT !.at = "offline", !.offline = offline]
  /\ UNCHANGED <<jobs, file, claims, attempt, aged, req, retrier, crashes>>

\* GetJobsForWorker for the next offline worker.
HealthCollect(w) ==
  /\ health.at = "offline" /\ health.todo = {} /\ w \in health.offline
  /\ health' = [health EXCEPT
                  !.offline = @ \ {w},
                  !.todo = {Snap(j) : j \in {k \in Jobs : OfWorker(jobs[k], w)}}]
  /\ UNCHANGED <<jobs, file, claims, attempt, aged, req, retrier, crashes>>

\* That query fails: the loop goes on with the next worker.
HealthCollectFails(w) ==
  /\ health.at = "offline" /\ health.todo = {} /\ w \in health.offline
  /\ health' = [health EXCEPT !.offline = @ \ {w}]
  /\ UNCHANGED <<jobs, file, claims, attempt, aged, req, retrier, crashes>>

\* The worker is to blame, so the retry is not counted.
HealthReassign(s) ==
  /\ health.at = "offline" /\ s \in health.todo
  /\ Update(s.job,
            ResetMatches(jobs[s.job], "processing", s.worker, s.started),
            PendingAgain(jobs[s.job], FALSE))
  /\ health' = [health EXCEPT !.todo = @ \ {s}]
  /\ UNCHANGED <<file, claims, attempt, aged, req, retrier, crashes>>

\* GetStaleProcessingJobs, after every offline worker is dealt with.
HealthFindStale_WithRetriesLeft ==
  /\ health.at = "offline" /\ health.todo = {} /\ health.offline = {}
  /\ health' = [HealthIdle EXCEPT
                  !.at = "stale",
                  !.todo = {Snap(j) : j \in {k \in Jobs :
                              /\ TimedOut(jobs[k], aged)
                              /\ jobs[k].retries < MaxRetries}}]
  /\ UNCHANGED <<jobs, file, claims, attempt, aged, req, retrier, crashes>>
HealthFindStale ==
  /\ health.at = "offline" /\ health.todo = {} /\ health.offline = {}
  /\ health' = [HealthIdle EXCEPT
                  !.at = "stale",
                  !.todo = {Snap(j) : j \in {k \in Jobs :
                                               TimedOut(jobs[k], aged)}}]
  /\ UNCHANGED <<jobs, file, claims, attempt, aged, req, retrier, crashes>>

HealthTimeOut(s) ==
  LET row == jobs[s.job] IN
  /\ health.at = "stale" /\ s \in health.todo
  /\ IF s.retries >= MaxRetries
       THEN Update(s.job, HeldBy(row, s.worker, s.started),
                          FailedRow(row, s.worker))
       ELSE Update(s.job,
                   ResetMatches(row, "processing", s.worker, s.started),
                   PendingAgain(row, TRUE))
  /\ health' = [health EXCEPT !.todo = @ \ {s}]
  /\ UNCHANGED <<file, claims, attempt, aged, req, retrier, crashes>>

\* The query fails and the rest of the tick is skipped.
HealthQueryFails ==
  /\ health.at = "offline" /\ health.todo = {} /\ health.offline = {}
  /\ health' = HealthIdle
  /\ UNCHANGED <<jobs, file, claims, attempt, aged, req, retrier, crashes>>

\* The statement for one job fails; the loop goes on with the next.
HealthUpdateFails(s) ==
  /\ s \in health.todo
  /\ health' = [health EXCEPT !.todo = @ \ {s}]
  /\ UNCHANGED <<jobs, file, claims, attempt, aged, req, retrier, crashes>>

HealthDone ==
  /\ health.at = "stale" /\ health.todo = {}
  /\ health' = HealthIdle
  /\ UNCHANGED <<jobs, file, claims, attempt, aged, req, retrier, crashes>>

-----------------------------------------------------------------------------
(* monitorFailedJobs.                                                      *)

RetryTick ==
  /\ retrier = {}
  /\ \E j \in Jobs : Retryable(jobs[j])
  /\ retrier' = {Snap(j) : j \in {k \in Jobs : Retryable(jobs[k])}}
  /\ UNCHANGED <<jobs, file, claims, attempt, aged, req, health, crashes>>

\* The backoff since completed_at has not elapsed yet, or the statement fails.
RetrySkipped(s) ==
  /\ s \in retrier
  /\ retrier' = retrier \ {s}
  /\ UNCHANGED <<jobs, file, claims, attempt, aged, req, health, crashes>>

RetryFailed(s) ==
  /\ s \in retrier
  /\ Update(s.job, ResetMatches(jobs[s.job], "failed", NoWorker, s.started),
                   PendingAgain(jobs[s.job], TRUE))
  /\ retrier' = retrier \ {s}
  /\ UNCHANGED <<file, claims, attempt, aged, req, health, crashes>>

-----------------------------------------------------------------------------
\* The process dies between any two steps and is started again: the database
\* and the files are as they were, every goroutine is gone.
Crash ==
  /\ crashes < MaxCrashes
  /\ crashes' = crashes + 1
  /\ req' = [h \in Handlers |-> Idle]
  /\ health' = HealthIdle
  /\ retrier' = {}
  /\ UNCHANGED <<jobs, file, claims, attempt, aged>>

-----------------------------------------------------------------------------
Housekeeping ==
  \/ \E j \in Jobs : Submit(j)
  \/ \E status \in Finished \cup {"all"} : Prune(status)
  \/ Age

Table ==
  \/ Housekeeping
  \/ \E w \in Workers, j \in Jobs : GetNextJob(w, j)

Worker == \E n \in Claim : EndAttempt(n)

Receive(h) ==
  \/ \E n \in Claim : RecvComplete(h, n) \/ RecvFailure(h, n) \/ RecvUpload(h, n)
  \/ \E j \in Jobs : RecvRetry(h, j) \/ RecvRequeue(h, j) \/ RecvCancel(h, j)

Handle(h) ==
  \/ JobComplete(h) \/ JobFailed(h)
  \/ RetryJob(h) \/ RequeueJob(h) \/ CancelJob(h)
  \/ RequestFails(h) \/ UploadRename(h) \/ UploadChecksum(h)
  \/ UploadComplete(h)

HealthReact ==
  \/ \E w \in health.offline : HealthCollect(w) \/ HealthCollectFails(w)
  \/ \E s \in health.todo :
       HealthReassign(s) \/ HealthTimeOut(s) \/ HealthUpdateFails(s)
  \/ HealthFindStale \/ HealthQueryFails
  \/ HealthDone

HealthStep ==
  \/ \E offline \in SUBSET Workers : HealthTick(offline)
  \/ HealthReact

RetryStep ==
  \/ RetryTick
  \/ \E s \in retrier : RetrySkipped(s) \/ RetryFailed(s)

Next ==
  \/ Table
  \/ Worker
  \/ \E h \in Handlers : Receive(h) \/ Handle(h)
  \/ HealthStep
  \/ RetryStep
  \/ Crash

Spec == Init /\ [][Next]_vars

(* Fairness.  Each monitor is a loop over a ticker in a goroutine of its   *)
(* own, so its next step is never put off for ever; time passes.  A retry  *)
(* whose backoff has not elapsed is skipped, but the failure time is fixed *)
(* and the backoff at most an hour, so a job that stays failed is not      *)
(* skipped for ever.  Nor do a monitor's statements fail every time.       *)
(* Nothing is assumed of workers, operators, requests or the network.      *)
Fairness ==
  /\ WF_vars(Age)
  /\ WF_vars(HealthStep)
  /\ WF_vars(RetryStep)
  /\ SF_vars(HealthFindStale)
  /\ \A j \in Jobs :
       /\ SF_vars(\E s \in health.todo : s.job = j /\ HealthTimeOut(s))
       /\ SF_vars(\E s \in retrier : s.job = j /\ RetryFailed(s))

FairSpec == Spec /\ Fairness

-----------------------------------------------------------------------------
(* Safety.                                                                 *)

\* worker_id and started_at of a row always name one and the same claim, a
\* claim of this job: no interleaving of claims, resets, reports and uploads
\* leaves the stamp of one attempt beside the worker of another.  The guards
\* of every Mark... and of ResetJobToPending rest on it.
RowNamesItsClaim ==
  \A j \in Jobs :
    LET row == jobs[j] IN
    /\ row.status \in {"absent", "pending"} =>
         row.worker = NoWorker /\ row.started = 0
    /\ row.status \in {"processing", "completed", "failed"} => row.started # 0
    /\ row.started # 0 =>
         /\ row.started <= claims
         /\ attempt[row.started].job = j
         /\ attempt[row.started].worker = row.worker

\* However many of the failed-job monitor, the health monitor and the
\* operator's retry commands act on one failure at the same time, it is
\* counted once: retry_count never exceeds the number of attempts made, and
\* stays below it while the last attempt is still in the row.
RetryCountedOnce ==
  \A j \in Jobs :
    jobs[j].retries + (IF jobs[j].started # 0 THEN 1 ELSE 0)
      <= Cardinality({n \in Claim : attempt[n].job = j})

\* A recorded output checksum belongs to a completed job, is the checksum of
\* a file that an attempt at this very job produced, and an output file is
\* on disk, also when the master died between any two steps of an upload.
OutputProvenance ==
  \A j \in Jobs :
    /\ file[j] # 0 => attempt[file[j]].job = j
    /\ jobs[j].sum # 0 =>
         /\ jobs[j].status = "completed"
         /\ attempt[jobs[j].sum].job = j
         /\ file[j] # 0

\* README.md calls output_checksum the "SHA256 checksum of output file".
\* A second upload of the job renames its file over the output after the
\* first one has computed the checksum, so the two may part.
ChecksumMatchesFile ==
  \A j \in Jobs : jobs[j].sum # 0 => file[j] = jobs[j].sum

-----------------------------------------------------------------------------
(* What a step may never do.                                               *)

\* Finished with h's request, whatever became of the row.
Answers(h) == req[h] # Idle /\ req'[h] = Idle

\* A cancelled or completed job is never resurrected, or turned into
\* something else, by a monitor, a late report or a late upload: only an
\* operator's requeue or a prune touches it (MarkJobCancelled's promise).
NoAutomaticRevival ==
  [][\A j \in Jobs :
       /\ jobs[j].status \in {"completed", "cancelled"}
       /\ jobs'[j] # jobs[j]
       => \/ jobs'[j] = Absent
          \/ \E h \in Handlers :
               req[h].op = "requeue" /\ req[h].job = j /\ Answers(h)]_vars

\* A report ends a job only while it still belongs to the reporting worker
\* (MarkJobCompleted's and MarkJobFailed's promise), although the handler
\* decides on a row it has read before.
ReportFromHolder ==
  [][\A j \in Jobs, h \in Handlers :
       /\ req[h].op \in {"complete", "fail"} /\ Answers(h)
       /\ jobs'[j] # jobs[j]
       => /\ req[h].job = j
          /\ jobs[j].status = "processing"
          /\ attempt[jobs[j].started].worker = req[h].worker]_vars

\* The health monitor works off lists it read earlier; still, it changes a job
\* only in the attempt that was listed: one that was reset and claimed again
\* since then, by the same worker too, is left alone.  What it times out is
\* overdue, and fails for good exactly when its retries are used up now.
OldListsSpareNewAttempts ==
  [][\A j \in Jobs :
       /\ health' # health
       /\ jobs'[j] # jobs[j]
       => /\ jobs[j].status = "processing"
          /\ \E s \in health.todo : s.job = j /\ s.started = jobs[j].started
          /\ health.at = "stale" =>
               /\ jobs[j].started <= aged
               /\ jobs'[j].status =
                    IF jobs[j].retries < MaxRetries THEN "pending" ELSE "failed"]_vars

\* Without an operator's retry, no job is retried past max_retries.
AutomaticRetriesBounded ==
  [][\A j \in Jobs :
       jobs'[j].retries > jobs[j].retries /\ UNCHANGED req
         => jobs[j].retries < MaxRetries]_vars

-----------------------------------------------------------------------------
(* Liveness, under FairSpec.                                               *)

\* No job is stuck in processing: whatever becomes of the worker, its
\* requests and their answers, every claim comes to an end.
EveryClaimEnds ==
  \A j \in Jobs, n \in Claim :
    (jobs[j].status = "processing" /\ jobs[j].started = n)
      ~> ~(jobs[j].status = "processing" /\ jobs[j].started = n)

\* A failed job with retries left does not stay failed.
FailedJobRetried ==
  \A j \in Jobs :
    (jobs[j].status = "failed" /\ jobs[j].retries < MaxRetries)
      ~> (jobs[j].status # "failed")

-----------------------------------------------------------------------------
(* The abstract specification: a job's life as a state machine with atomic *)
(* steps.                                                                  *)

Lifecycle == INSTANCE JobLifecycle WITH
  MaxLeases <- MaxClaims,
  status    <- [j \in Jobs |-> jobs[j].status],
  retries   <- [j \in Jobs |-> jobs[j].retries],
  lease     <- [j \in Jobs |-> jobs[j].started],
  granted   <- claims

\* Every step of the handlers and monitors, acting on what they read earlier,
\* is an atomic step of the job's life or leaves the job alone.
ImplementsLifecycle == Lifecycle!Spec
=============================================================================
