------------------------- MODULE MasterStepProofs -------------------------
(***************************************************************************)
(* What a step of the master may never do, two invariants that hold        *)
(* through every race (a failure is counted once, an output belongs to its *)
(* job), and the refinement of JobLifecycle.  Proofs for any constants,    *)
(* from the inductive invariant.                                           *)
(***************************************************************************)
EXTENDS MasterRowProofs, FiniteSetTheorems

USE StoreAssumption, ServerAssumption

-----------------------------------------------------------------------------
(* Who changed the row.                                                    *)

\* A request that changes a row is the one about it, is answered, and does
\* what it is for to a row in the status that allows it.
LEMMA HandleTouches ==
  ASSUME TypeOK, RequestsHold, NEW h \in Handlers, Handle(h),
         NEW j \in Jobs, jobs'[j] # jobs[j]
  PROVE  /\ req[h].job = j /\ Answers(h)
         /\ \A g \in Handlers \ {h} : req'[g] = req[g]
         /\ \/ /\ req[h].op \in {"complete", "fail", "summed"}
               /\ jobs[j].status = "processing"
               /\ jobs[j].worker = req[h].worker
            \/ req[h].op = "retry" /\ jobs[j].status = "failed"
            \/ req[h].op = "requeue"
            \/ /\ req[h].op = "cancel"
               /\ jobs[j].status \in {"pending", "processing"}
<1>. DEFINE r   == req[h]
            row == jobs[r.job]
<1>1. Answer(h) => Answers(h) /\ \A g \in Handlers \ {h} : req'[g] = req[g]
  <2>1. req[h].op # "idle"
    BY DEF Handle, JobComplete, JobFailed, RetryJob, RequeueJob, CancelJob,
           RequestFails, UploadRename, UploadChecksum, UploadComplete
  <2>. QED
    BY <2>1 DEF Answer, Answers, Idle, TypeOK
<1>2. ASSUME JobComplete(h) \/ JobFailed(h) \/ UploadComplete(h)
      PROVE  /\ r.op \in {"complete", "fail", "summed"} /\ Answer(h)
             /\ r.job = j /\ HeldBy(row, r.worker, r.started)
  BY <1>2 DEF JobComplete, JobFailed, UploadComplete, Update, TypeOK
<1>3. ASSUME RetryJob(h)
      PROVE  /\ r.op = "retry" /\ Answer(h) /\ r.job = j
             /\ ResetMatches(row, r.status, NoWorker, r.started)
  BY <1>3 DEF RetryJob, Update, TypeOK
<1>4. ASSUME RequeueJob(h)
      PROVE  r.op = "requeue" /\ Answer(h) /\ r.job = j
  BY <1>4 DEF RequeueJob, Update, TypeOK
<1>5. ASSUME CancelJob(h)
      PROVE  /\ r.op = "cancel" /\ Answer(h) /\ r.job = j
             /\ CancelMatches(row, r.started)
  BY <1>5 DEF CancelJob, Update, TypeOK
<1>6. ~(RequestFails(h) \/ UploadRename(h) \/ UploadChecksum(h))
  BY DEF RequestFails, UploadRename, UploadChecksum
<1>7. CASE JobComplete(h) \/ JobFailed(h) \/ UploadComplete(h)
  BY <1>1, <1>2, <1>7 DEF HeldBy
<1>8. CASE RetryJob(h)
  BY <1>1, <1>3, <1>8 DEF ResetMatches, RequestsHold
<1>9. CASE RequeueJob(h)
  BY <1>1, <1>4, <1>9
<1>10. CASE CancelJob(h)
  BY <1>1, <1>5, <1>10 DEF CancelMatches
<1>. QED
  BY <1>6, <1>7, <1>8, <1>9, <1>10 DEF Handle

\* A step of the health monitor that changes a row is about that row, which is
\* processing, in the attempt that is in its list; past the offline workers, it is a
\* time-out, decided on the retries the row has now.
LEMMA HealthTouches ==
  ASSUME TypeOK, SnapshotsHold, HealthStep, NEW j \in Jobs, jobs'[j] # jobs[j]
  PROVE  /\ jobs[j].status = "processing"
         /\ \E s \in health.todo : s.job = j /\ s.started = jobs[j].started
         /\ UNCHANGED <<req, crashes>>
         /\ \/ health.at = "offline" /\ jobs'[j] = PendingAgain(jobs[j], FALSE)
            \/ /\ health.at = "stale" /\ jobs[j].started <= aged
               /\ IF jobs[j].retries < MaxRetries
                    THEN jobs'[j] = PendingAgain(jobs[j], TRUE)
                    ELSE jobs'[j] = FailedRow(jobs[j], jobs[j].worker)
<1>1. PICK s \in health.todo : HealthReassign(s) \/ HealthTimeOut(s)
  BY DEF HealthStep, HealthReact, HealthTick, HealthCollect,
         HealthCollectFails, HealthFindStale, HealthQueryFails, HealthUpdateFails, HealthDone
<1>2. /\ s \in Snapshot /\ s.retries \in Nat
      /\ s.started # 0
      /\ jobs[s.job].started = s.started => jobs[s.job].retries = s.retries
      /\ health.at = "stale" => s.started <= aged
  BY SnapshotFields DEF TypeOK, Health, SnapshotsHold, SnapshotHolds
<1>3. CASE HealthReassign(s)
  <2>1. /\ s.job = j /\ jobs'[j] = PendingAgain(jobs[s.job], FALSE)
        /\ ResetMatches(jobs[s.job], "processing", s.worker, s.started)
    BY <1>3 DEF HealthReassign, Update, TypeOK
  <2>2. jobs[j].status = "processing" /\ jobs[j].started = s.started
    BY <1>2, <2>1 DEF ResetMatches, StartedIs
  <2>. QED
    BY <1>3, <2>1, <2>2 DEF HealthReassign
<1>4. CASE HealthTimeOut(s) /\ s.retries >= MaxRetries
  <2>1. /\ s.job = j /\ jobs'[j] = FailedRow(jobs[s.job], s.worker)
        /\ HeldBy(jobs[s.job], s.worker, s.started)
    BY <1>4 DEF HealthTimeOut, Update, TypeOK
  <2>2. /\ jobs[j].status = "processing" /\ jobs[j].started = s.started
        /\ jobs[j].worker = s.worker
    BY <1>2, <2>1 DEF HeldBy, StartedIs
  <2>3. ~(jobs[j].retries < MaxRetries)
    BY <1>2, <1>4, <2>1, <2>2
  <2>. QED
    BY <1>2, <1>4, <2>1, <2>2, <2>3 DEF HealthTimeOut
<1>5. CASE HealthTimeOut(s) /\ ~(s.retries >= MaxRetries)
  <2>1. /\ s.job = j /\ jobs'[j] = PendingAgain(jobs[s.job], TRUE)
        /\ ResetMatches(jobs[s.job], "processing", s.worker, s.started)
    BY <1>5 DEF HealthTimeOut, Update, TypeOK
  <2>2. jobs[j].status = "processing" /\ jobs[j].started = s.started
    BY <1>2, <2>1 DEF ResetMatches, StartedIs
  <2>3. jobs[j].retries < MaxRetries
    BY <1>2, <1>5, <2>1, <2>2
  <2>. QED
    BY <1>2, <1>5, <2>1, <2>2, <2>3 DEF HealthTimeOut
<1>. QED
  BY <1>1, <1>3, <1>4, <1>5

\* A step of the failed-job monitor that changes a row retries a failed job
\* that has retries left now.
LEMMA RetryTouches ==
  ASSUME TypeOK, SnapshotsHold, RetryStep, NEW j \in Jobs, jobs'[j] # jobs[j]
  PROVE  /\ jobs[j].status = "failed" /\ jobs[j].retries < MaxRetries
         /\ UNCHANGED <<req, health, crashes>>
<1>1. PICK s \in retrier : RetryFailed(s)
  BY DEF RetryStep, RetryTick, RetrySkipped
<1>2. /\ s.started # 0 /\ s.retries < MaxRetries
      /\ jobs[s.job].started = s.started => jobs[s.job].retries = s.retries
  BY DEF SnapshotsHold, SnapshotHolds
<1>3. s.job = j /\ ResetMatches(jobs[s.job], "failed", NoWorker, s.started)
  BY <1>1 DEF RetryFailed, Update, TypeOK
<1>4. jobs[j].status = "failed" /\ jobs[j].started = s.started
  BY <1>2, <1>3 DEF ResetMatches, StartedIs
<1>. QED
  BY <1>1, <1>2, <1>3, <1>4 DEF RetryFailed

\* Anything else that changes a row submits, prunes or claims it.
LEMMA TableTouches ==
  ASSUME TypeOK, Table, NEW j \in Jobs, jobs'[j] # jobs[j]
  PROVE  /\ \/ jobs[j].status = "absent" /\ jobs'[j] = NewJob
            \/ jobs[j].status \in Finished /\ jobs'[j] = Absent
            \/ /\ jobs[j].status = "pending"
               /\ jobs'[j].retries = jobs[j].retries
         /\ UNCHANGED <<req, health, crashes>>
<1>1. ASSUME NEW i \in Jobs, Submit(i)
      PROVE  jobs[j].status = "absent" /\ jobs'[j] = NewJob
  BY <1>1 DEF Submit, TypeOK
<1>2. ASSUME NEW status \in Finished \cup {"all"}, Prune(status)
      PROVE  jobs[j].status \in Finished /\ jobs'[j] = Absent
  <2>1. Prunes(jobs[j], status) /\ jobs'[j] = Absent
    BY <1>2 DEF Prune
  <2>2. jobs[j].status \in Status
    BY DEF TypeOK, Row
  <2>. QED
    BY <2>1, <2>2 DEF Prunes, Status, Finished
<1>3. ASSUME NEW w \in Workers, NEW i \in Jobs, GetNextJob(w, i)
      PROVE  /\ jobs[j].status = "pending"
             /\ jobs'[j].retries = jobs[j].retries
  <2>1. i = j /\ jobs'[j] = ClaimedRow(jobs[j], w, claims + 1)
    BY <1>3 DEF GetNextJob, TypeOK
  <2>. QED
    BY <1>3, <2>1 DEF GetNextJob, TypeOK, ClaimedRow, Row
<1>4. ~Age
  BY DEF Age
<1>. QED
  BY <1>1, <1>2, <1>3, <1>4
  DEF Table, Housekeeping, Submit, Prune, GetNextJob

\* The steps not named above change no row.
LEMMA OthersTouchNothing ==
  ASSUME [Next]_vars, jobs' # jobs
  PROVE  Table \/ HealthStep \/ RetryStep \/ \E h \in Handlers : Handle(h)
BY DEF Next, vars, Worker, EndAttempt, Receive, RecvComplete, RecvFailure,
       RecvUpload, RecvRetry, RecvRequeue, RecvCancel, Crash

-----------------------------------------------------------------------------
(* The action properties.                                                  *)

\* A completed or cancelled job is changed by nobody but an operator who
\* requeues or prunes it: not by monitors, late reports or late uploads.
THEOREM NoRevival == Spec => NoAutomaticRevival
<1>. DEFINE Step ==
       \A j \in Jobs :
         /\ jobs[j].status \in {"completed", "cancelled"}
         /\ jobs'[j] # jobs[j]
         => \/ jobs'[j] = Absent
            \/ \E h \in Handlers :
                 req[h].op = "requeue" /\ req[h].job = j /\ Answers(h)
<1>1. IInv /\ [Next]_vars => Step
  <2>. SUFFICES ASSUME IInv, [Next]_vars, NEW j \in Jobs,
                       jobs[j].status \in {"completed", "cancelled"},
                       jobs'[j] # jobs[j]
                PROVE  \/ jobs'[j] = Absent
                       \/ \E h \in Handlers :
                            /\ req[h].op = "requeue" /\ req[h].job = j
                            /\ Answers(h)
    OBVIOUS
  <2>. USE DEF IInv
  <2>1. CASE Table
    BY <2>1, TableTouches
  <2>2. CASE HealthStep
    BY <2>2, HealthTouches
  <2>3. CASE RetryStep
    BY <2>3, RetryTouches
  <2>4. ASSUME NEW h \in Handlers, Handle(h)
        PROVE  req[h].op = "requeue" /\ req[h].job = j /\ Answers(h)
    BY <2>4, HandleTouches
  <2>. QED
    BY <2>1, <2>2, <2>3, <2>4, OthersTouchNothing
<1>2. IInv /\ [Next]_vars => [Step]_vars
  BY <1>1
<1>. QED
  BY <1>2, Invariance, PTL DEF Spec, NoAutomaticRevival

\* A report ends a job only while the job is processing and belongs to the
\* reporting worker, whatever has happened since the handler read the row.
THEOREM ReportsFromHolders == Spec => ReportFromHolder
<1>. DEFINE Step ==
       \A j \in Jobs, h \in Handlers :
         /\ req[h].op \in {"complete", "fail"} /\ Answers(h)
         /\ jobs'[j] # jobs[j]
         => /\ req[h].job = j
            /\ jobs[j].status = "processing"
            /\ attempt[jobs[j].started].worker = req[h].worker
<1>1. IInv /\ [Next]_vars => Step
  <2>. SUFFICES ASSUME IInv, [Next]_vars, NEW j \in Jobs, NEW h \in Handlers,
                       req[h].op \in {"complete", "fail"}, Answers(h),
                       jobs'[j] # jobs[j]
                PROVE  /\ req[h].job = j
                       /\ jobs[j].status = "processing"
                       /\ attempt[jobs[j].started].worker = req[h].worker
    OBVIOUS
  <2>. USE DEF IInv
  <2>0. req'[h] # req[h]
    BY DEF Answers
  <2>1. ~Table /\ ~HealthStep /\ ~RetryStep
    BY <2>0, TableTouches, HealthTouches, RetryTouches
  <2>2. PICK g \in Handlers : Handle(g)
    BY <2>1, OthersTouchNothing
  <2>3. g = h
    BY <2>0, <2>2, HandleTouches
  <2>4. /\ req[h].job = j /\ jobs[j].status = "processing"
        /\ jobs[j].worker = req[h].worker
    BY <2>2, <2>3, HandleTouches
  <2>. QED
    BY <2>4 DEF RowNamesItsClaim
<1>2. IInv /\ [Next]_vars => [Step]_vars
  BY <1>1
<1>. QED
  BY <1>2, Invariance, PTL DEF Spec, ReportFromHolder

\* The monitor's lists may be old: still it changes a job only in the attempt
\* that was listed, times out only what is overdue now, and fails for good
\* exactly what has no retries left now.
THEOREM ListedAttemptsOnly == Spec => OldListsSpareNewAttempts
<1>. DEFINE Step ==
       \A j \in Jobs :
         /\ health' # health
         /\ jobs'[j] # jobs[j]
         => /\ jobs[j].status = "processing"
            /\ \E s \in health.todo : s.job = j /\ s.started = jobs[j].started
            /\ health.at = "stale" =>
                 /\ jobs[j].started <= aged
                 /\ jobs'[j].status =
                      IF jobs[j].retries < MaxRetries THEN "pending" ELSE "failed"
<1>1. IInv /\ [Next]_vars => Step
  <2>. SUFFICES ASSUME IInv, [Next]_vars, NEW j \in Jobs,
                       health' # health, jobs'[j] # jobs[j]
                PROVE  /\ jobs[j].status = "processing"
                       /\ \E s \in health.todo :
                            s.job = j /\ s.started = jobs[j].started
                       /\ health.at = "stale" =>
                            /\ jobs[j].started <= aged
                            /\ jobs'[j].status = IF jobs[j].retries < MaxRetries
                                                   THEN "pending" ELSE "failed"
    OBVIOUS
  <2>. USE DEF IInv
  <2>1. ~Table /\ ~RetryStep
    BY TableTouches, RetryTouches
  <2>2. \A h \in Handlers : ~Handle(h)
    BY DEF Handle, JobComplete, JobFailed, RetryJob, RequeueJob, CancelJob,
           RequestFails, UploadRename, UploadChecksum, UploadComplete
  <2>3. HealthStep
    BY <2>1, <2>2, OthersTouchNothing
  <2>4. FailedRow(jobs[j], jobs[j].worker).status = "failed"
    BY DEF FailedRow, TypeOK, Row
  <2>5. PendingAgain(jobs[j], TRUE).status = "pending"
    BY DEF PendingAgain
  <2>. QED
    BY <2>3, <2>4, <2>5, HealthTouches
<1>2. IInv /\ [Next]_vars => [Step]_vars
  BY <1>1
<1>. QED
  BY <1>2, Invariance, PTL DEF Spec, OldListsSpareNewAttempts

\* Unless a request is answered in the same step, no job is charged a retry
\* past max_retries.
THEOREM RetriesBounded == Spec => AutomaticRetriesBounded
<1>. DEFINE Step ==
       \A j \in Jobs :
         jobs'[j].retries > jobs[j].retries /\ UNCHANGED req
           => jobs[j].retries < MaxRetries
<1>1. IInv /\ [Next]_vars => Step
  <2>. SUFFICES ASSUME IInv, [Next]_vars, NEW j \in Jobs,
                       jobs'[j].retries > jobs[j].retries, req' = req
                PROVE  jobs[j].retries < MaxRetries
    OBVIOUS
  <2>. USE DEF IInv
  <2>0. jobs[j].retries \in Nat /\ jobs'[j] # jobs[j]
    BY DEF TypeOK, Row
  <2>1. ~Table
    BY <2>0, TableTouches DEF NewJob, Absent
  <2>2. ASSUME NEW h \in Handlers
        PROVE  ~Handle(h)
    BY <2>0, HandleTouches DEF Answers
  <2>3. CASE HealthStep
    <3>1. /\ PendingAgain(jobs[j], FALSE).retries = jobs[j].retries
          /\ FailedRow(jobs[j], jobs[j].worker).retries = jobs[j].retries
      BY <2>0 DEF PendingAgain, FailedRow, TypeOK, Row
    <3>2. CASE ~(jobs[j].retries < MaxRetries)
      <4>1. \/ jobs'[j] = PendingAgain(jobs[j], FALSE)
            \/ jobs'[j] = FailedRow(jobs[j], jobs[j].worker)
        BY <2>0, <2>3, <3>2, HealthTouches, Zenon
      <4>2. jobs'[j].retries = jobs[j].retries
        BY <3>1, <4>1, Zenon
      <4>. QED
        BY <2>0, <4>2
    <3>. QED
      BY <3>2
  <2>4. CASE RetryStep
    BY <2>0, <2>4, RetryTouches
  <2>. QED
    BY <2>0, <2>1, <2>2, <2>3, <2>4, OthersTouchNothing
<1>2. IInv /\ [Next]_vars => [Step]_vars
  BY <1>1
<1>. QED
  BY <1>2, Invariance, PTL DEF Spec, AutomaticRetriesBounded

-----------------------------------------------------------------------------
(* Attempts are never taken back.                                          *)

\* Only a claim that was made is an attempt at a job.
AttemptsClaimed == \A n \in Claim : attempt[n].job \in Jobs => n <= claims

\* An attempt stays one at the job it was claimed for, and a claim makes one
\* that was none before.
LEMMA AttemptsStay ==
  ASSUME TypeOK, AttemptsClaimed, Moves
  PROVE  /\ \A n \in Claim : attempt[n].job \in Jobs
                               => attempt'[n].job = attempt[n].job
         /\ AttemptsClaimed'
<1>1. CASE ClaimsKept
  BY <1>1 DEF ClaimsKept, AttemptsClaimed
<1>2. CASE Claimed
  <2>1. PICK w \in Workers, j \in Jobs : GetNextJob(w, j)
    BY <1>2 DEF Claimed
  <2>2. /\ claims + 1 \in Claim /\ claims' = claims + 1 /\ claims \in Nat
        /\ \A n \in Claim : n # claims + 1 => attempt'[n] = attempt[n]
    BY <2>1 DEF GetNextJob, TypeOK, Stamp
  <2>3. ~(claims + 1 <= claims)
    BY <2>2
  <2>4. \A n \in Claim : n <= claims => n <= claims + 1
    BY <2>2 DEF Claim
  <2>. QED
    BY <2>2, <2>3, <2>4 DEF AttemptsClaimed
<1>. QED
  BY <1>1, <1>2 DEF Moves

-----------------------------------------------------------------------------
(* A failure is counted once.                                              *)

AttemptsAt(j) == {n \in Claim : attempt[n].job = j}

\* What a row accounts for: the retries it was charged, and the attempt whose
\* stamp it still carries.
Account(row) == row.retries + (IF row.started # 0 THEN 1 ELSE 0)

RetriesHold ==
  /\ AttemptsClaimed
  /\ \A j \in Jobs : Account(jobs[j]) <= Cardinality(AttemptsAt(j))

\* The attempts at a job are finitely many, and a further one is one more.
LEMMA AttemptsCounted ==
  ASSUME TypeOK, NEW j \in Jobs
  PROVE  IsFiniteSet(AttemptsAt(j)) /\ Cardinality(AttemptsAt(j)) \in Nat
<1>1. IsFiniteSet(Claim)
  BY FS_Interval DEF Claim
<1>2. AttemptsAt(j) \in SUBSET Claim
  BY DEF AttemptsAt
<1>3. IsFiniteSet(AttemptsAt(j))
  BY <1>1, <1>2, FS_Subset
<1>. QED
  BY <1>3, FS_CardinalityType

\* A reset trades the attempt for at most one retry, and no other move adds
\* to what the row accounts for.
LEMMA MoveAccount ==
  ASSUME NEW old \in Row, NEW new, RowMove(old, new),
         old.status \in {"processing", "failed"} => old.started # 0
  PROVE  Account(new) <= Account(old) /\ Account(new) \in Nat
<1>. USE DEF Account
<1>0. old.retries \in Nat
  BY DEF Row
<1>1. CASE old.status = "absent" /\ new = NewJob
  BY <1>0, <1>1 DEF NewJob, Absent
<1>2. CASE \E sum \in Stamp : old.status = "processing"
                              /\ new = CompletedRow(old, old.worker, sum)
  BY <1>0, <1>2 DEF CompletedRow, Row
<1>3. CASE old.status = "processing" /\ new = FailedRow(old, old.worker)
  BY <1>0, <1>3 DEF FailedRow, Row
<1>4. CASE new = CancelledRow(old)
  BY <1>0, <1>4 DEF CancelledRow, Row
<1>5. CASE new = PendingAgain(old, FALSE)
  BY <1>0, <1>5 DEF PendingAgain
<1>6. CASE /\ old.status \in {"processing", "failed"}
           /\ new = PendingAgain(old, TRUE)
  BY <1>0, <1>6 DEF PendingAgain
<1>. QED
  BY <1>1, <1>2, <1>3, <1>4, <1>5, <1>6 DEF RowMove

\* Whatever moves the table, a row accounts for no more than was attempted.
LEMMA MovesKeepRetries ==
  ASSUME IInv, RetriesHold, Moves
  PROVE  RetriesHold'
<1>. USE DEF IInv
<1>1. /\ AttemptsClaimed'
      /\ \A n \in Claim : attempt[n].job \in Jobs
                            => attempt'[n].job = attempt[n].job
  BY AttemptsStay DEF RetriesHold
<1>. SUFFICES ASSUME NEW k \in Jobs
              PROVE  Account(jobs'[k]) <= Cardinality(AttemptsAt(k)')
  BY <1>1 DEF RetriesHold
<1>2. /\ jobs[k] \in Row /\ jobs[k].retries \in Nat
      /\ Account(jobs[k]) \in Nat
      /\ Account(jobs[k]) <= Cardinality(AttemptsAt(k))
      /\ jobs[k].status \in {"processing", "failed"} => jobs[k].started # 0
      /\ jobs[k].status = "pending" => jobs[k].started = 0
  BY DEF TypeOK, Row, Account, RetriesHold, RowNamesItsClaim
<1>3. /\ IsFiniteSet(AttemptsAt(k))
      /\ Cardinality(AttemptsAt(k)) \in Nat
  BY AttemptsCounted
<1>4. CASE ClaimsKept /\ (jobs' = jobs \/ OneRowMoves \/ Pruned)
  <2>1. AttemptsAt(k)' = AttemptsAt(k)
    BY <1>4 DEF ClaimsKept, AttemptsAt
  <2>2. \/ jobs'[k] = jobs[k] \/ jobs'[k] = Absent
        \/ RowMove(jobs[k], jobs'[k])
    BY <1>4 DEF OneRowMoves, Pruned, Prune
  <2>3. Account(Absent) = 0
    BY DEF Account, Absent
  <2>4. Account(jobs'[k]) <= Account(jobs[k]) /\ Account(jobs'[k]) \in Nat
    BY <1>2, <2>2, <2>3, MoveAccount
  <2>. QED
    BY <1>2, <1>3, <2>1, <2>4
<1>5. CASE Claimed
  <2>1. PICK w \in Workers, j \in Jobs : GetNextJob(w, j)
    BY <1>5 DEF Claimed
  <2>. DEFINE now == claims + 1
  <2>2. /\ now \in Claim /\ jobs[j].status = "pending"
        /\ jobs' = [jobs EXCEPT ![j] = ClaimedRow(jobs[j], w, now)]
    BY <2>1 DEF GetNextJob
  <2>3. PICK p : attempt' = [attempt EXCEPT
                       ![now] = [job |-> j, worker |-> w, phase |-> p]]
    BY <2>1 DEF GetNextJob
  <2>4. /\ attempt'[now].job = j
        /\ \A n \in Claim : n # now => attempt'[n] = attempt[n]
    BY <2>2, <2>3 DEF TypeOK
  <2>5. now \notin AttemptsAt(k)
    BY DEF AttemptsAt, RetriesHold, AttemptsClaimed, TypeOK, Stamp
  <2>6. CASE k = j
    <3>1. AttemptsAt(k)' = AttemptsAt(k) \cup {now}
      BY <2>2, <2>4, <2>6 DEF AttemptsAt
    <3>2. Cardinality(AttemptsAt(k)') = Cardinality(AttemptsAt(k)) + 1
      BY <1>3, <2>5, <3>1, FS_AddElement
    <3>3. Account(jobs'[k]) = Account(jobs[k]) + 1
      BY <1>2, <2>2, <2>6 DEF Account, ClaimedRow, Row, TypeOK, Claim
    <3>. QED
      BY <1>2, <1>3, <3>2, <3>3
  <2>7. CASE k # j
    <3>1. AttemptsAt(k)' = AttemptsAt(k)
      BY <2>4, <2>5, <2>7 DEF AttemptsAt
    <3>2. jobs'[k] = jobs[k]
      BY <2>2, <2>7 DEF TypeOK
    <3>. QED
      BY <1>2, <3>1, <3>2
  <2>. QED
    BY <2>6, <2>7
<1>. QED
  BY <1>4, <1>5 DEF Moves

\* However many monitors and operators act on one failure, retry_count never
\* exceeds the attempts made, whatever the number of jobs, requests, claims.
THEOREM RetriesCountedOnce == Spec => []RetryCountedOnce
<1>1. Init => RetriesHold
  <2>. SUFFICES ASSUME Init
                PROVE  RetriesHold
    OBVIOUS
  <2>1. AttemptsClaimed
    BY DEF Init, AttemptsClaimed, Unclaimed
  <2>2. \A j \in Jobs : Account(jobs[j]) = 0
    BY DEF Init, Account, Absent
  <2>3. \A j \in Jobs : Cardinality(AttemptsAt(j)) \in Nat
    BY InitTypeOK, AttemptsCounted
  <2>. QED
    BY <2>1, <2>2, <2>3 DEF RetriesHold
<1>2. IInv /\ RetriesHold /\ [Next]_vars => RetriesHold'
  BY NextMoves, MovesKeepRetries DEF IInv
<1>3. RetriesHold => RetryCountedOnce
  BY DEF RetriesHold, RetryCountedOnce, Account, AttemptsAt
<1>. QED
  BY <1>1, <1>2, <1>3, Invariance, PTL DEF Spec

-----------------------------------------------------------------------------
(* Where outputs and their checksums come from.                            *)

\* An attempt at job j was made and produced the file or checksum n.
MadeBy(n, j) == n \in Claim /\ attempt[n].job = j

\* What an upload in progress remembers: content of an attempt at its job,
\* and once it has a checksum the output file is there.
UploadHolds(r) ==
  /\ r.op \in {"upload", "renamed", "summed"} => MadeBy(r.content, r.job)
  /\ r.op \in {"renamed", "summed"} => file[r.job] # 0
  /\ r.sum # 0 => r.op = "summed" /\ MadeBy(r.sum, r.job)

OutputHolds(j) ==
  /\ file[j] # 0 => MadeBy(file[j], j)
  /\ jobs[j].sum # 0 => /\ jobs[j].status = "completed"
                        /\ MadeBy(jobs[j].sum, j) /\ file[j] # 0

OutputsHold ==
  /\ AttemptsClaimed
  /\ \A h \in Handlers : UploadHolds(req[h])
  /\ \A j \in Jobs : OutputHolds(j)

\* A step leaves the files alone or renames one upload over its output.
LEMMA FileMoves ==
  ASSUME [Next]_vars
  PROVE  file' = file \/ \E h \in Handlers : UploadRename(h)
BY DEF Next, vars, Table, Housekeeping, Submit, Prune, GetNextJob, Age, Worker,
       EndAttempt, Receive, RecvComplete, RecvFailure, RecvUpload, RecvRetry,
       RecvRequeue, RecvCancel, Handle, JobComplete, JobFailed, RetryJob,
       RequeueJob, CancelJob, RequestFails, UploadChecksum, UploadComplete,
       HealthStep, HealthReact, HealthTick, HealthCollect, HealthCollectFails,
       HealthReassign, HealthFindStale, HealthQueryFails, HealthTimeOut,
       HealthUpdateFails, HealthDone, RetryStep, RetryTick, RetrySkipped,
       RetryFailed, Crash

\* An output, once there, stays there, and is a file of its own job.
LEMMA FilesKept ==
  ASSUME IInv, OutputsHold, [Next]_vars, NEW j \in Jobs
  PROVE  /\ file[j] # 0 => file'[j] # 0
         /\ file'[j] # 0 => file'[j] = file[j] \/ MadeBy(file'[j], j)
<1>1. CASE file' = file
  BY <1>1
<1>2. ASSUME NEW h \in Handlers, UploadRename(h)
      PROVE  file'[j] = file[j] \/ (file'[j] # 0 /\ MadeBy(file'[j], j))
  <2>1. MadeBy(req[h].content, req[h].job) /\ req[h].content # 0
    BY <1>2 DEF UploadRename, OutputsHold, UploadHolds, MadeBy, Claim
  <2>2. file'[j] = file[j] \/ (file'[j] = req[h].content /\ req[h].job = j)
    BY <1>2 DEF UploadRename, IInv, TypeOK
  <2>. QED
    BY <2>1, <2>2
<1>. QED
  BY <1>1, <1>2, FileMoves

\* A checksum reaches a row only through the UPDATE at the end of an upload
\* of this job, which completes it.
LEMMA SumsKept ==
  ASSUME IInv, OutputsHold, [Next]_vars, NEW j \in Jobs, jobs'[j].sum # 0
  PROVE  \/ jobs'[j] = jobs[j]
         \/ \E h \in Handlers :
              /\ req[h].op = "summed" /\ req[h].job = j
              /\ jobs'[j].status = "completed" /\ jobs'[j].sum = req[h].sum
<1>. SUFFICES ASSUME jobs'[j] # jobs[j]
              PROVE  \E h \in Handlers :
                       /\ req[h].op = "summed" /\ req[h].job = j
                       /\ jobs'[j].status = "completed"
                       /\ jobs'[j].sum = req[h].sum
  OBVIOUS
<1>. USE DEF IInv
<1>0. /\ jobs[j] \in Row
      /\ jobs[j].status # "completed" => jobs[j].sum = 0
      /\ NewJob.sum = 0 /\ Absent.sum = 0
      /\ PendingAgain(jobs[j], TRUE).sum = 0
      /\ PendingAgain(jobs[j], FALSE).sum = 0
      /\ CancelledRow(jobs[j]).sum = jobs[j].sum
      /\ \A w : FailedRow(jobs[j], w).sum = jobs[j].sum
      /\ \A w, n : ClaimedRow(jobs[j], w, n).sum = jobs[j].sum
      /\ \A w, s : CompletedRow(jobs[j], w, s).sum = s
      /\ \A w, s : CompletedRow(jobs[j], w, s).status = "completed"
  BY DEF OutputsHold, OutputHolds, TypeOK, Row, NewJob, Absent, PendingAgain,
         CancelledRow, FailedRow, ClaimedRow, CompletedRow
<1>1. ~Table
  <2>1. ASSUME NEW w \in Workers, NEW i \in Jobs, GetNextJob(w, i)
        PROVE  FALSE
    <3>1. i = j /\ jobs'[j] = ClaimedRow(jobs[j], w, claims + 1)
      BY <2>1 DEF GetNextJob, TypeOK
    <3>. QED
      BY <1>0, <2>1, <3>1 DEF GetNextJob
  <2>2. ASSUME NEW i \in Jobs, Submit(i)
        PROVE  FALSE
    BY <1>0, <2>2 DEF Submit, TypeOK
  <2>3. ASSUME NEW status \in Finished \cup {"all"}, Prune(status)
        PROVE  FALSE
    BY <1>0, <2>3 DEF Prune
  <2>. QED
    BY <2>1, <2>2, <2>3 DEF Table, Housekeeping, Age
<1>2. ~HealthStep
  <2>1. HealthStep => /\ jobs[j].status = "processing"
                      /\ \/ jobs'[j] = PendingAgain(jobs[j], FALSE)
                         \/ jobs'[j] = PendingAgain(jobs[j], TRUE)
                         \/ jobs'[j] = FailedRow(jobs[j], jobs[j].worker)
    BY <1>0, HealthTouches, Zenon
  <2>. QED
    BY <1>0, <2>1
<1>3. ~RetryStep
  <2>1. ASSUME NEW s \in retrier, RetryFailed(s)
        PROVE  jobs'[j] = PendingAgain(jobs[j], TRUE)
    BY <2>1 DEF RetryFailed, Update, TypeOK
  <2>. QED
    BY <1>0, <2>1 DEF RetryStep, RetryTick, RetrySkipped
<1>4. PICK h \in Handlers : Handle(h)
  BY <1>1, <1>2, <1>3, OthersTouchNothing
<1>5. req[h].job = j
  BY <1>4, HandleTouches
<1>6. UploadComplete(h)
  <2>1. CASE JobComplete(h)
    BY <1>0, <1>5, <2>1 DEF JobComplete, Update, TypeOK
  <2>2. CASE JobFailed(h)
    BY <1>0, <1>5, <2>2 DEF JobFailed, Update, HeldBy, TypeOK
  <2>3. CASE RetryJob(h) \/ RequeueJob(h)
    BY <1>0, <1>5, <2>3 DEF RetryJob, RequeueJob, Update, TypeOK
  <2>4. CASE CancelJob(h)
    BY <1>0, <1>5, <2>4 DEF CancelJob, Update, CancelMatches, TypeOK
  <2>. QED
    BY <1>4, <2>1, <2>2, <2>3, <2>4
    DEF Handle, RequestFails, UploadRename, UploadChecksum
<1>7. jobs'[j] = CompletedRow(jobs[j], req[h].worker, req[h].sum)
  BY <1>5, <1>6 DEF UploadComplete, Update, TypeOK
<1>. QED
  BY <1>0, <1>5, <1>6, <1>7 DEF UploadComplete

\* What each request goroutine remembers after a step: what it did before,
\* nothing, a request it has just received, or the next step of its upload.
LEMMA RequestMoves ==
  ASSUME TypeOK, [Next]_vars, NEW g \in Handlers
  PROVE  \/ req'[g] = req[g] \/ req'[g] = Idle
         \/ \E n \in Claim : RecvUpload(g, n)
         \/ req'[g].op \notin {"upload", "renamed", "summed"} /\ req'[g].sum = 0
         \/ UploadRename(g) \/ UploadChecksum(g)
<1>1. CASE Table \/ HealthStep \/ RetryStep \/ Worker \/ UNCHANGED vars
  BY <1>1
  DEF Table, Housekeeping, Submit, Prune, GetNextJob, Age, Worker, EndAttempt,
      HealthStep, HealthReact, HealthTick, HealthCollect, HealthCollectFails,
      HealthReassign, HealthFindStale, HealthQueryFails, HealthTimeOut,
      HealthUpdateFails, HealthDone, RetryStep, RetryTick, RetrySkipped,
      RetryFailed, vars
<1>2. ASSUME NEW h \in Handlers, Receive(h)
      PROVE  \/ req'[g] = req[g] \/ \E n \in Claim : RecvUpload(g, n)
             \/ /\ req'[g].op \notin {"upload", "renamed", "summed"}
                /\ req'[g].sum = 0
  <2>1. CASE g = h
    BY <1>2, <2>1 DEF Receive, Begin, RecvComplete, RecvFailure, RecvRetry,
                      RecvRequeue, RecvCancel, TypeOK
  <2>2. CASE g # h
    BY <1>2, <2>2 DEF Receive, Begin, RecvComplete, RecvFailure, RecvUpload,
                      RecvRetry, RecvRequeue, RecvCancel, TypeOK
  <2>. QED
    BY <2>1, <2>2
<1>3. ASSUME NEW h \in Handlers, Handle(h)
      PROVE  \/ req'[g] = req[g] \/ req'[g] = Idle
             \/ UploadRename(g) \/ UploadChecksum(g)
  <2>1. CASE UploadRename(h) \/ UploadChecksum(h)
    BY <2>1 DEF UploadRename, UploadChecksum, TypeOK
  <2>2. CASE Answer(h)
    BY <2>2 DEF Answer, TypeOK
  <2>. QED
    BY <1>3, <2>1, <2>2
    DEF Handle, JobComplete, JobFailed, RetryJob, RequeueJob, CancelJob,
        RequestFails, UploadComplete
<1>4. CASE Crash
  BY <1>4 DEF Crash
<1>. QED
  BY <1>1, <1>2, <1>3, <1>4 DEF Next

\* Uploads in progress and the outputs recorded stay those of their own job.
LEMMA OutputsKept ==
  ASSUME IInv, OutputsHold, [Next]_vars
  PROVE  OutputsHold'
<1>1. TypeOK /\ Moves
  BY NextMoves DEF IInv
<1>2. /\ AttemptsClaimed'
      /\ \A n, j : j \in Jobs /\ MadeBy(n, j) => MadeBy(n, j)'
  BY <1>1, AttemptsStay DEF OutputsHold, MadeBy
<1>3. ASSUME NEW g \in Handlers
      PROVE  UploadHolds(req[g])'
  <2>1. CASE req'[g] = req[g]
    <3>1. CASE req[g].op = "idle"
      BY <1>1, <2>1, <3>1 DEF UploadHolds, OutputsHold
    <3>2. CASE req[g].op # "idle"
      <4>1. req[g].job \in Jobs
        BY <1>1, <3>2, BusyHasJob
      <4>. QED
        BY <1>2, <2>1, <4>1, FilesKept DEF UploadHolds, OutputsHold
    <3>. QED
      BY <3>1, <3>2
  <2>2. CASE req'[g] = Idle
    BY <2>2 DEF UploadHolds, Idle
  <2>3. ASSUME NEW n \in Claim, RecvUpload(g, n)
        PROVE  UploadHolds(req[g])'
    BY <1>1, <2>3 DEF RecvUpload, Begin, UploadHolds, MadeBy, TypeOK
  <2>4. CASE /\ req'[g].op \notin {"upload", "renamed", "summed"}
             /\ req'[g].sum = 0
    BY <2>4 DEF UploadHolds
  <2>5. CASE UploadRename(g)
    <3>1. /\ req[g] \in Request /\ req[g].job \in Jobs
          /\ MadeBy(req[g].content, req[g].job) /\ req[g].sum = 0
      BY <1>1, <2>5, BusyHasJob DEF UploadRename, OutputsHold, UploadHolds
    <3>2. /\ req'[g].op = "renamed" /\ req'[g].job = req[g].job
          /\ req'[g].content = req[g].content /\ req'[g].sum = req[g].sum
          /\ file'[req[g].job] = req[g].content
      BY <1>1, <2>5, <3>1 DEF UploadRename, TypeOK, Request
    <3>3. req[g].content # 0
      BY <3>1 DEF MadeBy, Claim
    <3>. QED
      BY <1>2, <3>1, <3>2, <3>3 DEF UploadHolds
  <2>6. CASE UploadChecksum(g)
    <3>1. /\ req[g] \in Request /\ req[g].job \in Jobs
          /\ MadeBy(req[g].content, req[g].job) /\ file[req[g].job] # 0
          /\ MadeBy(file[req[g].job], req[g].job)
      BY <1>1, <2>6, BusyHasJob
      DEF UploadChecksum, OutputsHold, UploadHolds, OutputHolds
    <3>2. /\ req'[g].op = "summed" /\ req'[g].job = req[g].job
          /\ req'[g].content = req[g].content
          /\ req'[g].sum \in {file[req[g].job], 0}
          /\ file' = file
      BY <1>1, <2>6, <3>1 DEF UploadChecksum, TypeOK, Request
    <3>. QED
      BY <1>2, <3>1, <3>2 DEF UploadHolds
  <2>. QED
    BY <1>1, <2>1, <2>2, <2>3, <2>4, <2>5, <2>6, RequestMoves
<1>4. ASSUME NEW j \in Jobs
      PROVE  OutputHolds(j)'
  <2>1. file'[j] # 0 => MadeBy(file[j], j)'
    BY <1>2, FilesKept DEF OutputsHold, OutputHolds, MadeBy
  <2>2. ASSUME jobs'[j].sum # 0
        PROVE  /\ jobs'[j].status = "completed"
               /\ MadeBy(jobs[j].sum, j)' /\ file'[j] # 0
    BY <1>2, <2>2, SumsKept, FilesKept
    DEF OutputsHold, OutputHolds, UploadHolds, MadeBy
  <2>. QED
    BY <2>1, <2>2 DEF OutputHolds
<1>. QED
  BY <1>2, <1>3, <1>4 DEF OutputsHold

\* A recorded checksum belongs to a completed job and is that of a file an
\* attempt at this very job produced, whatever races with the upload and
\* wherever the master dies in it.
THEOREM OutputsHaveProvenance == Spec => []OutputProvenance
<1>1. Init => OutputsHold
  BY DEF Init, OutputsHold, AttemptsClaimed, Unclaimed, UploadHolds, Idle,
         OutputHolds, Absent
<1>2. IInv /\ OutputsHold /\ [Next]_vars => OutputsHold'
  BY OutputsKept
<1>3. OutputsHold => OutputProvenance
  BY DEF OutputsHold, OutputHolds, MadeBy, OutputProvenance
<1>. QED
  BY <1>1, <1>2, <1>3, Invariance, PTL DEF Spec

-----------------------------------------------------------------------------
(***************************************************************************)
(* MasterServer implements JobLifecycle.  By NextMoves a step of the       *)
(* handlers and monitors is one of few moves of the table; each is a step  *)
(* of the life cycle, or leaves its variables alone.                       *)
(***************************************************************************)

\* A job that does not exist has been charged nothing.
NothingCharged ==
  \A j \in Jobs : jobs[j].status = "absent" => jobs[j].retries = 0

\* No move leaves a row without status but with retries.
LEMMA MovesChargeNothing ==
  ASSUME TypeOK, NothingCharged, Moves
  PROVE  NothingCharged'
<1>. SUFFICES ASSUME NEW k \in Jobs, jobs'[k].status = "absent"
              PROVE  jobs'[k].retries = 0
  BY DEF NothingCharged
<1>0. jobs[k] \in Row
  BY DEF TypeOK
<1>1. CASE jobs'[k] = jobs[k]
  BY <1>1 DEF NothingCharged
<1>2. CASE RowMove(jobs[k], jobs'[k])
  BY <1>0, <1>2, MoveFields
<1>3. CASE jobs'[k] = Absent
  BY <1>3 DEF Absent
<1>4. ASSUME NEW w \in Workers, NEW j \in Jobs, GetNextJob(w, j)
      PROVE  jobs'[k] = jobs[k]
  <2>1. k # j
    BY <1>0, <1>4 DEF GetNextJob, TypeOK, ClaimedRow, Row
  <2>. QED
    BY <1>4, <2>1 DEF GetNextJob, TypeOK
<1>5. Pruned => jobs'[k] = jobs[k] \/ jobs'[k] = Absent
  BY DEF Pruned, Prune
<1>. QED
  BY <1>1, <1>2, <1>3, <1>4, <1>5 DEF Moves, Claimed, OneRowMoves

-----------------------------------------------------------------------------
(* The abstract variables.                                                 *)

statusOf  == [j \in Jobs |-> jobs[j].status]
retriesOf == [j \in Jobs |-> jobs[j].retries]
leaseOf   == [j \in Jobs |-> jobs[j].started]

\* A move of one row is the same change of the three functions of the rows.
LEMMA MoveMapped ==
  ASSUME NEW j \in Jobs, \A k \in Jobs \ {j} : jobs'[k] = jobs[k]
  PROVE  /\ statusOf'  = [statusOf EXCEPT ![j] = jobs'[j].status]
         /\ retriesOf' = [retriesOf EXCEPT ![j] = jobs'[j].retries]
         /\ leaseOf'   = [leaseOf EXCEPT ![j] = jobs'[j].started]
BY DEF statusOf, retriesOf, leaseOf

\* A field that is as it was is updated to itself.
LEMMA MoveMappedSame ==
  ASSUME NEW j \in Jobs, \A k \in Jobs \ {j} : jobs'[k] = jobs[k]
  PROVE  /\ jobs'[j].retries = jobs[j].retries => retriesOf' = retriesOf
         /\ jobs'[j].started = jobs[j].started => leaseOf' = leaseOf
BY DEF retriesOf, leaseOf

\* One row moving is one step of its job's life.
LEMMA OneRowStep ==
  ASSUME TypeOK, RowNamesItsClaim, NothingCharged, OneRowMoves, claims' = claims
  PROVE  Lifecycle!Next
<1>1. PICK j \in Jobs : /\ RowMove(jobs[j], jobs'[j])
                        /\ \A k \in Jobs \ {j} : jobs'[k] = jobs[k]
  BY DEF OneRowMoves
<1>2. /\ jobs[j] \in Row
      /\ statusOf[j] = jobs[j].status /\ retriesOf[j] = jobs[j].retries
  BY DEF TypeOK, statusOf, retriesOf
<1>3. CASE jobs[j].status = "absent" /\ jobs'[j] = NewJob
  <2>1. /\ jobs'[j].status = "pending" /\ jobs'[j].retries = jobs[j].retries
        /\ jobs'[j].started = jobs[j].started
    BY <1>3 DEF NewJob, Absent, NothingCharged, RowNamesItsClaim
  <2>2. Lifecycle!Submit(j)
    BY <1>1, <1>2, <1>3, <2>1, MoveMapped, MoveMappedSame
    DEF Lifecycle!Submit, statusOf, retriesOf, leaseOf
  <2>. QED
    BY <2>2 DEF Lifecycle!Next
<1>4. CASE /\ jobs[j].status = "processing"
           /\ \/ \E sum \in Stamp : jobs'[j] = CompletedRow(jobs[j], jobs[j].worker, sum)
              \/ jobs'[j] = FailedRow(jobs[j], jobs[j].worker)
  <2>1. /\ jobs'[j].status \in {"completed", "failed"}
        /\ jobs'[j].retries = jobs[j].retries
        /\ jobs'[j].started = jobs[j].started
    BY <1>2, <1>4 DEF CompletedRow, FailedRow, Row
  <2>2. Lifecycle!Finish(j)
    BY <1>1, <1>2, <1>4, <2>1, MoveMapped, MoveMappedSame
    DEF Lifecycle!Finish, statusOf, retriesOf, leaseOf
  <2>. QED
    BY <2>2 DEF Lifecycle!Next
<1>5. CASE /\ jobs[j].status \in {"pending", "processing"}
           /\ jobs'[j] = CancelledRow(jobs[j])
  <2>1. /\ jobs'[j].status = "cancelled"
        /\ jobs'[j].retries = jobs[j].retries
        /\ jobs'[j].started = jobs[j].started
    BY <1>2, <1>5 DEF CancelledRow, Row
  <2>2. Lifecycle!Cancel(j)
    BY <1>1, <1>2, <1>5, <2>1, MoveMapped, MoveMappedSame
    DEF Lifecycle!Cancel, statusOf, retriesOf, leaseOf
  <2>. QED
    BY <2>2 DEF Lifecycle!Next
<1>6. CASE jobs[j].status # "absent" /\ jobs'[j] = PendingAgain(jobs[j], FALSE)
  <2>1. /\ jobs'[j].status = "pending" /\ jobs'[j].started = 0
        /\ jobs'[j].retries = jobs[j].retries
    BY <1>2, <1>6 DEF PendingAgain, Row
  <2>2. Lifecycle!Requeue(j)
    BY <1>1, <1>2, <1>6, <2>1, MoveMapped
    DEF Lifecycle!Requeue, Lifecycle!PutBack, statusOf, retriesOf, leaseOf
  <2>. QED
    BY <2>2 DEF Lifecycle!Next
<1>7. CASE /\ \/ jobs[j].status = "failed"
              \/ jobs[j].status = "processing" /\ jobs[j].retries < MaxRetries
           /\ jobs'[j] = PendingAgain(jobs[j], TRUE)
  <2>1. /\ jobs'[j].status = "pending" /\ jobs'[j].started = 0
        /\ jobs'[j].retries = jobs[j].retries + 1
    BY <1>7 DEF PendingAgain
  <2>2. Lifecycle!Retry(j)
    BY <1>1, <1>2, <1>7, <2>1, MoveMapped
    DEF Lifecycle!Retry, Lifecycle!PutBack, statusOf, retriesOf, leaseOf
  <2>. QED
    BY <2>2 DEF Lifecycle!Next
<1>. QED
  BY <1>1, <1>3, <1>4, <1>5, <1>6, <1>7 DEF RowMove

\* Pruning rows is pruning their jobs.
LEMMA PruneStep ==
  ASSUME TypeOK, NEW st \in Finished \cup {"all"}, Prune(st), claims' = claims
  PROVE  Lifecycle!Next
<1>1. PICK S \in SUBSET Jobs : S = {j \in Jobs : Prunes(jobs[j], st)}
  OBVIOUS
<1>2. \A j \in S : jobs[j].status \in Finished
  BY <1>1 DEF TypeOK, Row, Prunes, Status, Finished
<1>3. \A j \in Jobs : jobs'[j] = IF j \in S THEN Absent ELSE jobs[j]
  BY <1>1 DEF Prune
<1>4. Lifecycle!Prune(S)
  BY <1>2, <1>3 DEF Lifecycle!Prune, Lifecycle!Terminal, Finished, Absent
<1>. QED
  BY <1>4 DEF Lifecycle!Next

\* A claim is a grant.
LEMMA ClaimStep ==
  ASSUME TypeOK, NEW w \in Workers, NEW j \in Jobs, GetNextJob(w, j)
  PROVE  Lifecycle!Next
<1>1. /\ jobs[j].status = "pending" /\ claims < MaxClaims /\ claims' = claims + 1
      /\ \A k \in Jobs \ {j} : jobs'[k] = jobs[k]
      /\ jobs'[j] = ClaimedRow(jobs[j], w, claims + 1)
  BY DEF GetNextJob, TypeOK, Claim, Stamp
<1>2. /\ jobs'[j].status = "processing" /\ jobs'[j].retries = jobs[j].retries
      /\ jobs'[j].started = claims + 1
  BY <1>1 DEF TypeOK, ClaimedRow, Row
<1>3. Lifecycle!Grant(j)
  BY <1>1, <1>2, MoveMapped, MoveMappedSame
  DEF Lifecycle!Grant, statusOf, retriesOf, leaseOf
<1>. QED
  BY <1>3 DEF Lifecycle!Next

\* The handlers and monitors, acting on rows they have read before, implement
\* a job's life as a state machine with atomic steps.
THEOREM Refinement == Spec => ImplementsLifecycle
<1>1. Init => Lifecycle!Init /\ NothingCharged
  BY DEF Init, Lifecycle!Init, Absent, NothingCharged
<1>2. IInv /\ NothingCharged /\ [Next]_vars => NothingCharged'
  BY NextMoves, MovesChargeNothing DEF IInv
<1>3. IInv /\ NothingCharged /\ [Next]_vars
        => [Lifecycle!Next]_(Lifecycle!vars)
  <2>. SUFFICES ASSUME IInv, NothingCharged, [Next]_vars
                PROVE  Lifecycle!Next \/ UNCHANGED Lifecycle!vars
    OBVIOUS
  <2>1. CASE ClaimsKept /\ jobs' = jobs
    BY <2>1 DEF ClaimsKept, Lifecycle!vars
  <2>2. CASE ClaimsKept /\ OneRowMoves
    BY <2>2, OneRowStep DEF IInv, ClaimsKept
  <2>3. CASE ClaimsKept /\ Pruned
    BY <2>3, PruneStep DEF IInv, ClaimsKept, Pruned
  <2>4. CASE Claimed
    BY <2>4, ClaimStep DEF IInv, Claimed
  <2>. QED
    BY <2>1, <2>2, <2>3, <2>4, NextMoves DEF IInv, Moves
<1>. QED
  BY <1>1, <1>2, <1>3, Invariance, PTL DEF Spec, ImplementsLifecycle, Lifecycle!Spec
=============================================================================
