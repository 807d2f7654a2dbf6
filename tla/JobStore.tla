------------------------------ MODULE JobStore ------------------------------
(***************************************************************************)
(* The jobs table of the master's SQLite tracker (internal/db/tracker.go): *)
(* one row per job and the UPDATE statements that move it.  Each Tracker   *)
(* method is one SQL statement (the claim is one BEGIN IMMEDIATE           *)
(* transaction), so each is atomic.  A guarded UPDATE is two operators:    *)
(* the WHERE clause and the row the SET clause leaves.                     *)
(*                                                                         *)
(* A claim stamps started_at with time.Now(); the code then uses that      *)
(* stamp as the identity of the attempt.  Here the n-th claim stamps n, so *)
(* a stamp is a Claim and 0 stands for SQL NULL.  ClaimNextPendingJobs     *)
(* gives every job of one batch the same time; stamps are compared within  *)
(* one row only, so each job of a batch is a claim of its own here.  A     *)
(* checksum is the number of the claim whose conversion produced the file, *)
(* 0 the empty string.                                                     *)
(*                                                                         *)
(* Left out of the row: paths, metadata, priority and created_at, which no *)
(* transition reads; error_message; completed_at, set by exactly the       *)
(* UPDATEs that leave a finished status and cleared by the reset.          *)
(***************************************************************************)
EXTENDS Naturals

CONSTANTS
  Workers,      \* worker identifiers
  NoWorker,     \* worker_id = '' or NULL
  MaxRetries,   \* max_retries of every job (3 in scanner.go and submitJob)
  MaxClaims     \* bound: number of claims in a behaviour

ASSUME StoreAssumption ==
  /\ NoWorker \notin Workers
  /\ MaxRetries \in Nat
  /\ MaxClaims \in Nat

Claim == 1 .. MaxClaims
Stamp == 0 .. MaxClaims

Finished == {"completed", "failed", "cancelled"}
Status   == {"absent", "pending", "processing"} \cup Finished

Row == [status  : Status,
        worker  : Workers \cup {NoWorker},
        started : Stamp,
        retries : Nat,
        sum     : Stamp]

\* No row with this id.
Absent == [status |-> "absent", worker |-> NoWorker, started |-> 0,
           retries |-> 0, sum |-> 0]

\* CreateJob inserts only when the id is free (INSERT OR IGNORE).
NewJob == [Absent EXCEPT !.status = "pending"]

\* The claim transaction: status, worker_id and started_at, nothing else.
ClaimedRow_Unstamped(row, w, now) ==
  [row EXCEPT !.status = "processing", !.worker = w]
ClaimedRow(row, w, now) ==
  [row EXCEPT !.status = "processing", !.worker = w, !.started = now]

\* " AND started_at = ?" is appended only for a non-nil expected stamp.
StartedIs_Dropped(row, started) == TRUE
StartedIs(row, started) == started = 0 \/ row.started = started

-----------------------------------------------------------------------------
(* ResetJobToPending.  Every caller passes an expected status; only the    *)
(* health monitor passes a worker.                                         *)

ResetMatches_AnyStatus(row, status, worker, started) ==
  /\ row.status # "absent"
  /\ worker # NoWorker => row.worker = worker
ResetMatches(row, status, worker, started) ==
  /\ row.status = status
  /\ worker # NoWorker => row.worker = worker
  /\ StartedIs(row, started)

PendingAgain_KeepsStamp(row, increment) ==
  [status |-> "pending", worker |-> NoWorker, started |-> row.started,
   retries |-> row.retries + (IF increment THEN 1 ELSE 0), sum |-> 0]
PendingAgain(row, increment) ==
  [status |-> "pending", worker |-> NoWorker, started |-> 0,
   retries |-> row.retries + (IF increment THEN 1 ELSE 0), sum |-> 0]

(* MarkJobCompleted, MarkJobFailed and MarkJobFailedPermanently share one  *)
(* WHERE clause: the job is still being processed by that worker, in that  *)
(* attempt.                                                                *)

HeldBy_AnyStatus(row, w, started) ==
  row.status # "absent" /\ row.worker = w /\ StartedIs(row, started)
HeldBy_AnyWorker(row, w, started) ==
  row.status = "processing" /\ StartedIs(row, started)
HeldBy(row, w, started) ==
  row.status = "processing" /\ row.worker = w /\ StartedIs(row, started)

CompletedRow(row, w, sum) ==
  [row EXCEPT !.status = "completed", !.worker = w, !.sum = sum]
FailedRow(row, w) == [row EXCEPT !.status = "failed", !.worker = w]

(* MarkJobCancelled.                                                       *)
CancelMatches(row, started) ==
  row.status \in {"pending", "processing"} /\ StartedIs(row, started)
CancelledRow_Misspelt(row) == [row EXCEPT !.status = "canceled"]
CancelledRow(row) == [row EXCEPT !.status = "cancelled"]

-----------------------------------------------------------------------------
(* The queries the monitors read.                                          *)

\* GetJobsForWorker
OfWorker(row, w) == row.status = "processing" /\ row.worker = w

\* GetStaleProcessingJobs: claims up to `aged' are older than the timeout.
TimedOut(row, aged) ==
  row.status = "processing" /\ row.started # 0 /\ row.started <= aged

\* GetRetryableFailedJobs
Retryable_Unlimited(row) == row.status = "failed"
Retryable_OneShort(row) == row.status = "failed" /\ row.retries + 1 < MaxRetries
Retryable(row) == row.status = "failed" /\ row.retries < MaxRetries

\* PruneJobs(status)
Prunes(row, status) ==
  row.status = status \/ (status = "all" /\ row.status \in Finished)
=============================================================================
