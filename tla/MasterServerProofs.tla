------------------------- MODULE MasterServerProofs -------------------------
(***************************************************************************)
(* Proofs about MasterServer, for any sets of jobs, workers and request    *)
(* goroutines and any values of the bounds.                                *)
(***************************************************************************)
EXTENDS MasterServer, TLAPS

USE StoreAssumption, ServerAssumption

-----------------------------------------------------------------------------
(* The UPDATE statements produce rows.                                     *)

\* Whatever the SET clauses of the tracker are applied to, the result is a
\* row of the table.
LEMMA RowsAreRows ==
  ASSUME NEW row \in Row, NEW w \in Workers \cup {NoWorker},
         NEW s \in Stamp, NEW inc \in BOOLEAN
  PROVE  /\ Absent \in Row
         /\ NewJob \in Row
         /\ ClaimedRow(row, w, s) \in Row
         /\ PendingAgain(row, inc) \in Row
         /\ CompletedRow(row, w, s) \in Row
         /\ FailedRow(row, w) \in Row
         /\ CancelledRow(row) \in Row
<1>1. 0 \in Stamp
  BY DEF Stamp
<1>2. Absent \in Row /\ NewJob \in Row
  BY <1>1 DEF Absent, NewJob, Row, Status, Finished
<1>3. ClaimedRow(row, w, s) \in Row
  BY DEF ClaimedRow, Row, Status, Finished
<1>4. PendingAgain(row, inc) \in Row
  BY <1>1 DEF PendingAgain, Row, Status, Finished
<1>5. CompletedRow(row, w, s) \in Row
  BY DEF CompletedRow, Row, Status, Finished
<1>6. FailedRow(row, w) \in Row
  BY DEF FailedRow, Row, Status, Finished
<1>7. CancelledRow(row) \in Row
  BY DEF CancelledRow, Row, Status, Finished
<1>. QED
  BY <1>2, <1>3, <1>4, <1>5, <1>6, <1>7

\* A guarded UPDATE of one row leaves a table.
LEMMA UpdateIsTable ==
  ASSUME jobs \in [Jobs -> Row], NEW j \in Jobs, NEW row \in Row,
         NEW matches \in BOOLEAN, Update(j, matches, row)
  PROVE  jobs' \in [Jobs -> Row]
BY DEF Update

\* What a monitor reads is a set of snapshots.
LEMMA SnapsAreSnapshots ==
  ASSUME jobs \in [Jobs -> Row], NEW S \in SUBSET Jobs
  PROVE  {Snap(j) : j \in S} \subseteq Snapshot
BY DEF Snap, Snapshot, Row

-----------------------------------------------------------------------------
(* Type correctness.                                                       *)

LEMMA InitTypeOK == Init => TypeOK
BY DEF Init, TypeOK, Row, Absent, Status, Stamp, Claim, Health, HealthIdle

\* The claim an attempt in progress belongs to is a claim of some job.
LEMMA AttemptHasJob ==
  ASSUME TypeOK, NEW n \in Claim, attempt[n].phase = "running"
  PROVE  attempt[n].job \in Jobs /\ attempt[n].worker \in Workers
BY DEF TypeOK, Attempt, Unclaimed

\* A goroutine that is not idle remembers a request for a job.
LEMMA BusyHasJob ==
  ASSUME TypeOK, NEW h \in Handlers, req[h].op # "idle"
  PROVE  /\ req[h] \in Request
         /\ req[h].job \in Jobs
         /\ jobs[req[h].job] \in Row
BY DEF TypeOK, Idle, Request

\* What a goroutine remembers of the request it starts on is a request.
LEMMA BeginTypeOK ==
  ASSUME TypeOK, NEW h \in Handlers, NEW j \in Jobs, NEW o \in Ops,
         NEW w \in Workers \cup {NoWorker}, NEW st \in Status, NEW c \in Stamp,
         Begin(h, o, j, w, st, c)
  PROVE  req' \in [Handlers -> Request \cup {Idle}]
<1>1. jobs[j].started \in Stamp /\ 0 \in Stamp
  BY DEF TypeOK, Row, Stamp
<1>2. [op |-> o, job |-> j, worker |-> w, status |-> st,
       started |-> jobs[j].started, content |-> c, sum |-> 0] \in Request
  BY <1>1 DEF Request
<1>. QED
  BY <1>2 DEF TypeOK, Begin

\* Receiving a request keeps every variable well-typed.
LEMMA ReceiveTypeOK ==
  ASSUME TypeOK, NEW h \in Handlers, Receive(h)
  PROVE  TypeOK'
<1>. USE DEF TypeOK
<1>1. /\ {"absent", "failed", "processing"} \subseteq Status
      /\ 0 \in Stamp /\ Claim \subseteq Stamp
      /\ \A j \in Jobs : /\ jobs[j].status \in Status
                         /\ jobs[j].worker \in Workers \cup {NoWorker}
  <2>1. {"absent", "failed", "processing"} \subseteq Status
    BY DEF Status, Finished
  <2>2. 0 \in Stamp /\ Claim \subseteq Stamp
    BY DEF Stamp, Claim
  <2>3. \A j \in Jobs : /\ jobs[j].status \in Status
                        /\ jobs[j].worker \in Workers \cup {NoWorker}
    BY DEF Row
  <2>. QED
    BY <2>1, <2>2, <2>3
<1>2. ASSUME NEW n \in Claim, RecvComplete(h, n)
      PROVE  TypeOK'
  <2>1. attempt[n].job \in Jobs /\ attempt[n].worker \in Workers
    BY <1>2, AttemptHasJob DEF RecvComplete
  <2>2. req' \in [Handlers -> Request \cup {Idle}]
    BY <1>1, <1>2, <2>1, BeginTypeOK DEF RecvComplete, Ops
  <2>. QED
    BY <1>2, <2>2 DEF RecvComplete
<1>3. ASSUME NEW n \in Claim, RecvFailure(h, n)
      PROVE  TypeOK'
  <2>1. attempt[n].job \in Jobs /\ attempt[n].worker \in Workers
    BY <1>3, AttemptHasJob DEF RecvFailure
  <2>2. req' \in [Handlers -> Request \cup {Idle}]
    BY <1>1, <1>3, <2>1, BeginTypeOK DEF RecvFailure, Ops
  <2>3. attempt' \in [Claim -> Attempt \cup {Unclaimed}]
    BY <1>3 DEF RecvFailure, Attempt, Unclaimed
  <2>. QED
    BY <1>3, <2>2, <2>3 DEF RecvFailure
<1>4. ASSUME NEW n \in Claim, RecvUpload(h, n)
      PROVE  TypeOK'
  <2>1. attempt[n].job \in Jobs
    BY <1>4, AttemptHasJob DEF RecvUpload
  <2>2. req' \in [Handlers -> Request \cup {Idle}]
    BY <1>1, <1>4, <2>1, BeginTypeOK DEF RecvUpload, Ops
  <2>. QED
    BY <1>4, <2>2 DEF RecvUpload
<1>5. ASSUME NEW j \in Jobs, RecvRetry(h, j)
      PROVE  TypeOK'
  <2>1. req' \in [Handlers -> Request \cup {Idle}]
    BY <1>1, <1>5, BeginTypeOK DEF RecvRetry, Ops
  <2>. QED
    BY <1>5, <2>1 DEF RecvRetry
<1>6. ASSUME NEW j \in Jobs, RecvRequeue(h, j)
      PROVE  TypeOK'
  <2>1. req' \in [Handlers -> Request \cup {Idle}]
    BY <1>1, <1>6, BeginTypeOK DEF RecvRequeue, Ops
  <2>. QED
    BY <1>6, <2>1 DEF RecvRequeue
<1>7. ASSUME NEW j \in Jobs, RecvCancel(h, j)
      PROVE  TypeOK'
  <2>1. req' \in [Handlers -> Request \cup {Idle}]
    BY <1>1, <1>7, BeginTypeOK DEF RecvCancel, Ops
  <2>. QED
    BY <1>7, <2>1 DEF RecvCancel
<1>. QED
  BY <1>2, <1>3, <1>4, <1>5, <1>6, <1>7 DEF Receive

\* Answering a request, whatever it does to the row, keeps every variable
\* well-typed.
LEMMA HandleTypeOK ==
  ASSUME TypeOK, NEW h \in Handlers, Handle(h)
  PROVE  TypeOK'
<1>. DEFINE r   == req[h]
            row == jobs[r.job]
<1>1. req[h].op # "idle"
  BY DEF Handle, JobComplete, JobFailed, RetryJob, RequeueJob, CancelJob,
         RequestFails, UploadRename, UploadChecksum, UploadComplete
<1>2. r \in Request /\ r.job \in Jobs /\ row \in Row
  BY <1>1, BusyHasJob
<1>3. /\ r.worker \in Workers \cup {NoWorker} /\ r.status \in Status
      /\ r.started \in Stamp /\ r.content \in Stamp /\ r.sum \in Stamp
      /\ 0 \in Stamp
  BY <1>2 DEF Request, Stamp
<1>4. /\ HeldBy(row, r.worker, r.started) \in BOOLEAN
      /\ ResetMatches(row, r.status, NoWorker, r.started) \in BOOLEAN
      /\ CancelMatches(row, r.started) \in BOOLEAN
  BY DEF HeldBy, ResetMatches, CancelMatches, StartedIs
<1>5. Answer(h) => req' \in [Handlers -> Request \cup {Idle}]
  BY DEF Answer, TypeOK
<1>. HIDE DEF r, row
<1>6. CASE JobComplete(h)
  <2>1. Update(r.job, HeldBy(row, r.worker, r.started),
               CompletedRow(row, r.worker, 0)) /\ Answer(h)
    BY <1>6 DEF JobComplete, r, row
  <2>2. CompletedRow(row, r.worker, 0) \in Row
    BY <1>2, <1>3, RowsAreRows
  <2>3. jobs' \in [Jobs -> Row]
    BY <2>1, <2>2, <1>2, <1>3, <1>4, UpdateIsTable DEF TypeOK
  <2>. QED
    BY <1>5, <1>6, <2>1, <2>3 DEF JobComplete, TypeOK
<1>7. CASE JobFailed(h)
  <2>1. Update(r.job, HeldBy(row, r.worker, r.started),
               FailedRow(row, r.worker)) /\ Answer(h)
    BY <1>7 DEF JobFailed, r, row
  <2>2. FailedRow(row, r.worker) \in Row
    BY <1>2, <1>3, RowsAreRows
  <2>3. jobs' \in [Jobs -> Row]
    BY <2>1, <2>2, <1>2, <1>3, <1>4, UpdateIsTable DEF TypeOK
  <2>. QED
    BY <1>5, <1>7, <2>1, <2>3 DEF JobFailed, TypeOK
<1>8. CASE RetryJob(h)
  <2>1. Update(r.job, ResetMatches(row, r.status, NoWorker, r.started),
               PendingAgain(row, TRUE)) /\ Answer(h)
    BY <1>8 DEF RetryJob, r, row
  <2>2. PendingAgain(row, TRUE) \in Row
    BY <1>2, <1>3, RowsAreRows
  <2>3. jobs' \in [Jobs -> Row]
    BY <2>1, <2>2, <1>2 DEF Update, TypeOK
  <2>. QED
    BY <1>5, <1>8, <2>1, <2>3 DEF RetryJob, TypeOK
<1>9. CASE RequeueJob(h)
  <2>1. Update(r.job, ResetMatches(row, r.status, NoWorker, r.started),
               PendingAgain(row, FALSE)) /\ Answer(h)
    BY <1>9 DEF RequeueJob, r, row
  <2>2. PendingAgain(row, FALSE) \in Row
    BY <1>2, <1>3, RowsAreRows
  <2>3. jobs' \in [Jobs -> Row]
    BY <2>1, <2>2, <1>2 DEF Update, TypeOK
  <2>. QED
    BY <1>5, <1>9, <2>1, <2>3 DEF RequeueJob, TypeOK
<1>10. CASE CancelJob(h)
  <2>1. Update(r.job, CancelMatches(row, r.started), CancelledRow(row))
        /\ Answer(h)
    BY <1>10 DEF CancelJob, r, row
  <2>2. CancelledRow(row) \in Row
    BY <1>2, <1>3, RowsAreRows
  <2>3. jobs' \in [Jobs -> Row]
    BY <2>1, <2>2, <1>2, <1>3, <1>4, UpdateIsTable DEF TypeOK
  <2>. QED
    BY <1>5, <1>10, <2>1, <2>3 DEF CancelJob, TypeOK
<1>11. CASE RequestFails(h)
  BY <1>5, <1>11 DEF RequestFails, TypeOK
<1>12. CASE UploadRename(h)
  <2>1. [req[h] EXCEPT !.op = "renamed"] \in Request
    BY <1>2 DEF r, Request, Ops
  <2>2. req' \in [Handlers -> Request \cup {Idle}]
    BY <1>12, <2>1 DEF UploadRename, TypeOK
  <2>3. file' \in [Jobs -> Stamp]
    BY <1>3, <1>12 DEF UploadRename, TypeOK, r
  <2>. QED
    BY <1>12, <2>2, <2>3 DEF UploadRename, TypeOK
<1>13. CASE UploadChecksum(h)
  <2>1. PICK sum \in {file[req[h].job], 0} :
          req' = [req EXCEPT ![h].op = "summed", ![h].sum = sum]
    BY <1>13 DEF UploadChecksum
  <2>2. sum \in Stamp
    BY <1>2, <1>3 DEF TypeOK, r
  <2>3. [req[h] EXCEPT !.op = "summed", !.sum = sum] \in Request
    BY <1>2, <2>2 DEF r, Request, Ops
  <2>4. req' \in [Handlers -> Request \cup {Idle}]
    BY <2>1, <2>3 DEF TypeOK
  <2>. QED
    BY <1>13, <2>4 DEF UploadChecksum, TypeOK
<1>14. CASE UploadComplete(h)
  <2>1. Update(r.job, HeldBy(row, r.worker, r.started),
               CompletedRow(row, r.worker, r.sum)) /\ Answer(h)
    BY <1>14 DEF UploadComplete, r, row
  <2>2. CompletedRow(row, r.worker, r.sum) \in Row
    BY <1>2, <1>3, RowsAreRows
  <2>3. jobs' \in [Jobs -> Row]
    BY <2>1, <2>2, <1>2, <1>3, <1>4, UpdateIsTable DEF TypeOK
  <2>. QED
    BY <1>5, <1>14, <2>1, <2>3 DEF UploadComplete, TypeOK
<1>. QED
  BY <1>6, <1>7, <1>8, <1>9, <1>10, <1>11, <1>12, <1>13, <1>14 DEF Handle

\* A row a monitor has read names a job and what it passes to an UPDATE.
LEMMA SnapshotFields ==
  ASSUME TypeOK, NEW s \in Snapshot
  PROVE  /\ s.job \in Jobs /\ jobs[s.job] \in Row
         /\ s.worker \in Workers \cup {NoWorker}
         /\ s.started \in Stamp
         /\ s.retries \in Nat
BY DEF TypeOK, Snapshot

\* A step of the health monitor keeps every variable well-typed.
LEMMA HealthTypeOK ==
  ASSUME TypeOK, HealthStep
  PROVE  TypeOK'
<1>1. /\ health \in Health
      /\ health.offline \in SUBSET Workers /\ health.todo \subseteq Snapshot
  BY DEF TypeOK, Health
<1>2. \A S \in SUBSET Jobs : {Snap(j) : j \in S} \subseteq Snapshot
  BY SnapsAreSnapshots DEF TypeOK
<1>3. \A at \in {"offline", "stale"}, off \in SUBSET Workers, todo \in SUBSET Snapshot :
        [at |-> at, offline |-> off, todo |-> todo] \in Health
  BY DEF Health
<1>4. ASSUME NEW offline \in SUBSET Workers, HealthTick(offline)
      PROVE  TypeOK'
  <2>1. health' \in Health
    BY <1>4 DEF HealthTick, HealthIdle, Health
  <2>. QED
    BY <1>4, <2>1 DEF HealthTick, TypeOK
<1>5. ASSUME NEW w \in health.offline, HealthCollect(w)
      PROVE  TypeOK'
  <2>1. {Snap(j) : j \in {k \in Jobs : OfWorker(jobs[k], w)}} \subseteq Snapshot
    BY <1>2
  <2>2. health' \in Health
    BY <1>1, <1>5, <2>1 DEF HealthCollect, Health
  <2>. QED
    BY <1>5, <2>2 DEF HealthCollect, TypeOK
<1>6. ASSUME NEW s \in health.todo, HealthReassign(s)
      PROVE  TypeOK'
  <2>1. PendingAgain(jobs[s.job], FALSE) \in Row
    BY <1>1, SnapshotFields, RowsAreRows
  <2>2. jobs' \in [Jobs -> Row]
    BY <1>1, <1>6, <2>1, SnapshotFields DEF HealthReassign, Update, TypeOK
  <2>3. health' \in Health
    BY <1>1, <1>6 DEF HealthReassign, Health
  <2>. QED
    BY <1>6, <2>2, <2>3 DEF HealthReassign, TypeOK
<1>7. ASSUME NEW s \in health.todo, HealthTimeOut(s)
      PROVE  TypeOK'
  <2>1. PendingAgain(jobs[s.job], TRUE) \in Row
    BY <1>1, SnapshotFields, RowsAreRows
  <2>2. FailedRow(jobs[s.job], s.worker) \in Row
    BY <1>1, SnapshotFields, RowsAreRows DEF Stamp
  <2>3. jobs' \in [Jobs -> Row]
    BY <1>1, <1>7, <2>1, <2>2, SnapshotFields DEF HealthTimeOut, Update, TypeOK
  <2>4. health' \in Health
    BY <1>1, <1>7 DEF HealthTimeOut, Health
  <2>. QED
    BY <1>7, <2>3, <2>4 DEF HealthTimeOut, TypeOK
<1>8. ASSUME HealthFindStale
      PROVE  TypeOK'
  <2>1. {Snap(j) : j \in {k \in Jobs : TimedOut(jobs[k], aged)}} \subseteq Snapshot
    BY <1>2
  <2>2. health' \in Health
    BY <1>8, <2>1 DEF HealthFindStale, HealthIdle, Health
  <2>. QED
    BY <1>8, <2>2 DEF HealthFindStale, TypeOK
<1>9. ASSUME HealthDone \/ HealthQueryFails
      PROVE  TypeOK'
  BY <1>9 DEF HealthDone, HealthQueryFails, HealthIdle, Health, TypeOK
<1>10. ASSUME NEW s \in health.todo, HealthUpdateFails(s)
       PROVE  TypeOK'
  BY <1>1, <1>10 DEF HealthUpdateFails, Health, TypeOK
<1>11. ASSUME NEW w \in health.offline, HealthCollectFails(w)
       PROVE  TypeOK'
  BY <1>1, <1>11 DEF HealthCollectFails, Health, TypeOK
<1>. QED
  BY <1>4, <1>5, <1>6, <1>7, <1>8, <1>9, <1>10, <1>11 DEF HealthStep, HealthReact

\* A step of the failed-job monitor keeps every variable well-typed.
LEMMA RetryTypeOK ==
  ASSUME TypeOK, RetryStep
  PROVE  TypeOK'
<1>1. \A S \in SUBSET Jobs : {Snap(j) : j \in S} \subseteq Snapshot
  BY SnapsAreSnapshots DEF TypeOK
<1>2. ASSUME RetryTick
      PROVE  TypeOK'
  <2>1. {Snap(j) : j \in {k \in Jobs : Retryable(jobs[k])}} \subseteq Snapshot
    BY <1>1
  <2>. QED
    BY <1>2, <2>1 DEF RetryTick, TypeOK
<1>3. ASSUME NEW s \in retrier, RetrySkipped(s)
      PROVE  TypeOK'
  BY <1>3 DEF RetrySkipped, TypeOK
<1>4. ASSUME NEW s \in retrier, RetryFailed(s)
      PROVE  TypeOK'
  <2>0. s \in Snapshot
    BY DEF TypeOK
  <2>1. PendingAgain(jobs[s.job], TRUE) \in Row
    BY <2>0, SnapshotFields, RowsAreRows
  <2>2. jobs' \in [Jobs -> Row]
    BY <1>4, <2>0, <2>1, SnapshotFields DEF RetryFailed, Update, TypeOK
  <2>. QED
    BY <1>4, <2>2 DEF RetryFailed, TypeOK
<1>. QED
  BY <1>2, <1>3, <1>4 DEF RetryStep

\* Submitting, pruning, claiming and the passing of time keep every variable
\* well-typed.
LEMMA TableTypeOK ==
  ASSUME TypeOK, Table
  PROVE  TypeOK'
<1>1. ASSUME NEW j \in Jobs, Submit(j)
      PROVE  TypeOK'
  <2>1. NewJob \in Row
    BY DEF NewJob, Absent, Row, Status, Stamp
  <2>. QED
    BY <1>1, <2>1 DEF Submit, TypeOK
<1>2. ASSUME NEW status \in Finished \cup {"all"}, Prune(status)
      PROVE  TypeOK'
  <2>1. Absent \in Row
    BY DEF Absent, Row, Status, Stamp
  <2>. QED
    BY <1>2, <2>1 DEF Prune, TypeOK
<1>3. ASSUME NEW w \in Workers, NEW j \in Jobs, GetNextJob(w, j)
      PROVE  TypeOK'
  <2>1. claims + 1 \in Claim /\ claims + 1 \in Stamp
    BY <1>3 DEF GetNextJob, Claim, Stamp
  <2>2. ClaimedRow(jobs[j], w, claims + 1) \in Row
    BY <2>1 DEF TypeOK, ClaimedRow, Row, Status
  <2>3. PICK p \in {"running", "over"} :
          attempt' = [attempt EXCEPT
                        ![claims + 1] = [job |-> j, worker |-> w, phase |-> p]]
    BY <1>3 DEF GetNextJob
  <2>4. attempt' \in [Claim -> Attempt \cup {Unclaimed}]
    BY <2>1, <2>3 DEF TypeOK, Attempt
  <2>. QED
    BY <1>3, <2>1, <2>2, <2>4 DEF GetNextJob, TypeOK
<1>4. ASSUME Age
      PROVE  TypeOK'
  BY <1>4 DEF Age, TypeOK, Stamp
<1>. QED
  BY <1>1, <1>2, <1>3, <1>4 DEF Table, Housekeeping

LEMMA NextTypeOK ==
  ASSUME TypeOK, [Next]_vars
  PROVE  TypeOK'
<1>1. ASSUME NEW n \in Claim, EndAttempt(n)
      PROVE  TypeOK'
  BY <1>1 DEF EndAttempt, TypeOK, Attempt, Unclaimed
<1>2. CASE Crash
  BY <1>2 DEF Crash, TypeOK, HealthIdle, Health
<1>3. CASE UNCHANGED vars
  BY <1>3 DEF vars, TypeOK
<1>. QED
  BY <1>1, <1>2, <1>3, TableTypeOK, ReceiveTypeOK, HandleTypeOK,
     HealthTypeOK, RetryTypeOK DEF Next, Worker

\* The variables hold what their types say, in every reachable state and for
\* every value of the constants: what the handlers and monitors remember of
\* rows and what the UPDATE statements write stays within the table's schema.
THEOREM TypeCorrect == Spec => []TypeOK
<1>1. TypeOK /\ [Next]_vars => TypeOK'
  BY NextTypeOK
<1>. QED
  BY InitTypeOK, <1>1, PTL DEF Spec
=============================================================================
