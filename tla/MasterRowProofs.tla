-------------------------- MODULE MasterRowProofs --------------------------
(***************************************************************************)
(* What happens to a row, and what a goroutine may rely on of a row it has *)
(* read before: proofs for any constants, on top of type correctness.      *)
(*                                                                         *)
(* The argument.  Every step of the master, late as it may act, moves at   *)
(* most one row in one of few ways (RowMove), prunes finished rows, or     *)
(* claims one pending row (NextMoves).  That holds because a remembered    *)
(* row is either out of date, and then the UPDATE's WHERE clause tells,    *)
(* since stamps are never used twice, or still says what the row says      *)
(* (SnapshotsHold).                                                        *)
(***************************************************************************)
EXTENDS MasterServerProofs

USE StoreAssumption, ServerAssumption

-----------------------------------------------------------------------------
(* The inductive invariant.                                                *)

\* What a handler remembers as expected status.
RequestsHold ==
  \A h \in Handlers :
    /\ req[h].op = "retry" => req[h].status = "failed"
    /\ req[h].op = "requeue" => req[h].status # "absent"

\* A row a monitor has read was claimed, and as long as the stamp is the same
\* so is the retry count.
SnapshotHolds(s) ==
  /\ s.started # 0 /\ s.started <= claims
  /\ jobs[s.job].started = s.started => jobs[s.job].retries = s.retries

SnapshotsHold ==
  /\ \A s \in health.todo \cup retrier : SnapshotHolds(s)
  /\ health.at = "stale" => \A s \in health.todo : s.started <= aged
  /\ \A s \in retrier : s.retries < MaxRetries

IInv == TypeOK /\ RowNamesItsClaim /\ RequestsHold /\ SnapshotsHold

-----------------------------------------------------------------------------
(* What a step does to the table.                                          *)

RowMove(old, new) ==
  \/ old.status = "absent" /\ new = NewJob
  \/ /\ old.status = "processing"
     /\ \/ \E sum \in Stamp : new = CompletedRow(old, old.worker, sum)
        \/ new = FailedRow(old, old.worker)
  \/ old.status \in {"pending", "processing"} /\ new = CancelledRow(old)
  \/ old.status # "absent" /\ new = PendingAgain(old, FALSE)
  \/ /\ \/ old.status = "failed"
        \/ old.status = "processing" /\ old.retries < MaxRetries
     /\ new = PendingAgain(old, TRUE)

OneRowMoves ==
  \E j \in Jobs : /\ RowMove(jobs[j], jobs'[j])
                  /\ \A k \in Jobs \ {j} : jobs'[k] = jobs[k]

Pruned == \E status \in Finished \cup {"all"} : Prune(status)

Claimed == \E w \in Workers, j \in Jobs : GetNextJob(w, j)

\* Nothing but a claim touches the counter of claims or what a claim is for.
ClaimsKept ==
  /\ claims' = claims
  /\ \A n \in Claim : /\ attempt'[n].job = attempt[n].job
                      /\ attempt'[n].worker = attempt[n].worker

Moves == Claimed \/ (ClaimsKept /\ (jobs' = jobs \/ OneRowMoves \/ Pruned))

\* A guarded UPDATE that may only move its row so moves the table so.
LEMMA UpdateMoves ==
  ASSUME TypeOK, NEW j \in Jobs, NEW row, NEW matches \in BOOLEAN,
         matches => RowMove(jobs[j], row), Update(j, matches, row)
  PROVE  jobs' = jobs \/ OneRowMoves
<1>1. CASE ~matches
  BY <1>1 DEF Update
<1>2. CASE matches
  <2>1. jobs' = [jobs EXCEPT ![j] = row]
    BY <1>2 DEF Update
  <2>2. jobs'[j] = row /\ \A k \in Jobs \ {j} : jobs'[k] = jobs[k]
    BY <2>1 DEF TypeOK
  <2>. QED
    BY <1>2, <2>2 DEF OneRowMoves
<1>. QED
  BY <1>1, <1>2

\* Whether or not an attempt's phase changes, its job and worker do not.
LEMMA AttemptsUnchanged ==
  ASSUME attempt' = attempt, claims' = claims
  PROVE  ClaimsKept
BY DEF ClaimsKept

\* Answering a request moves at most the row it is about.
LEMMA HandleMoves ==
  ASSUME TypeOK, RequestsHold, NEW h \in Handlers, Handle(h)
  PROVE  ClaimsKept /\ (jobs' = jobs \/ OneRowMoves)
<1>. DEFINE r   == req[h]
            row == jobs[r.job]
<1>1. req[h].op # "idle"
  BY DEF Handle, JobComplete, JobFailed, RetryJob, RequeueJob, CancelJob,
         RequestFails, UploadRename, UploadChecksum, UploadComplete
<1>2. r.job \in Jobs /\ r.sum \in Stamp /\ 0 \in Stamp
  BY <1>1, BusyHasJob DEF Request, Stamp
<1>3. ClaimsKept
  BY AttemptsUnchanged
  DEF Handle, JobComplete, JobFailed, RetryJob, RequeueJob, CancelJob,
      RequestFails, UploadRename, UploadChecksum, UploadComplete
<1>4. \A sum \in Stamp : HeldBy(row, r.worker, r.started) =>
        /\ RowMove(row, CompletedRow(row, r.worker, sum))
        /\ RowMove(row, FailedRow(row, r.worker))
  BY DEF HeldBy, RowMove
<1>5. /\ HeldBy(row, r.worker, r.started) \in BOOLEAN
      /\ ResetMatches(row, r.status, NoWorker, r.started) \in BOOLEAN
      /\ CancelMatches(row, r.started) \in BOOLEAN
  BY DEF HeldBy, ResetMatches, CancelMatches, StartedIs
<1>6. CancelMatches(row, r.started) => RowMove(row, CancelledRow(row))
  BY DEF CancelMatches, RowMove
<1>7. ASSUME r.op = "retry", ResetMatches(row, r.status, NoWorker, r.started)
      PROVE  RowMove(row, PendingAgain(row, TRUE))
  <2>1. row.status = "failed"
    BY <1>7 DEF RequestsHold, ResetMatches
  <2>. QED
    BY <2>1 DEF RowMove
<1>8. ASSUME r.op = "requeue", ResetMatches(row, r.status, NoWorker, r.started)
      PROVE  RowMove(row, PendingAgain(row, FALSE))
  <2>1. row.status # "absent"
    BY <1>8 DEF RequestsHold, ResetMatches
  <2>. QED
    BY <2>1 DEF RowMove
<1>9. CASE JobComplete(h) \/ JobFailed(h) \/ UploadComplete(h)
  BY <1>2, <1>3, <1>4, <1>5, <1>9, UpdateMoves
  DEF JobComplete, JobFailed, UploadComplete
<1>10. CASE RetryJob(h)
  BY <1>2, <1>3, <1>5, <1>7, <1>10, UpdateMoves DEF RetryJob
<1>11. CASE RequeueJob(h)
  BY <1>2, <1>3, <1>5, <1>8, <1>11, UpdateMoves DEF RequeueJob
<1>12. CASE CancelJob(h)
  BY <1>2, <1>3, <1>5, <1>6, <1>12, UpdateMoves DEF CancelJob
<1>13. CASE RequestFails(h) \/ UploadRename(h) \/ UploadChecksum(h)
  BY <1>3, <1>13 DEF RequestFails, UploadRename, UploadChecksum
<1>. QED
  BY <1>9, <1>10, <1>11, <1>12, <1>13 DEF Handle

\* A monitor's UPDATE, on the strength of a row it read earlier, moves at
\* most that row, and counts a retry only if one is left.
LEMMA MonitorMoves ==
  ASSUME TypeOK, SnapshotsHold, HealthStep \/ RetryStep
  PROVE  ClaimsKept /\ (jobs' = jobs \/ OneRowMoves)
<1>1. ClaimsKept
  BY AttemptsUnchanged
  DEF HealthStep, HealthReact, RetryStep, HealthTick, HealthCollect,
      HealthCollectFails, HealthReassign, HealthFindStale, HealthQueryFails, HealthTimeOut, HealthUpdateFails,
      HealthDone, RetryTick, RetrySkipped, RetryFailed
<1>2. health.todo \subseteq Snapshot /\ retrier \subseteq Snapshot
  BY DEF TypeOK, Health
<1>3. ASSUME NEW s \in health.todo, HealthReassign(s)
      PROVE  jobs' = jobs \/ OneRowMoves
  <2>1. ResetMatches(jobs[s.job], "processing", s.worker, s.started)
          => RowMove(jobs[s.job], PendingAgain(jobs[s.job], FALSE))
    BY DEF ResetMatches, RowMove
  <2>2. ResetMatches(jobs[s.job], "processing", s.worker, s.started) \in BOOLEAN
    BY DEF ResetMatches, StartedIs
  <2>. QED
    BY <1>2, <1>3, <2>1, <2>2, SnapshotFields, UpdateMoves DEF HealthReassign
<1>4. ASSUME NEW s \in health.todo, HealthTimeOut(s)
      PROVE  jobs' = jobs \/ OneRowMoves
  <2>. DEFINE row == jobs[s.job]
  <2>1. s.job \in Jobs /\ s.retries \in Nat /\ row \in Row
    BY <1>2, SnapshotFields
  <2>2. CASE s.retries >= MaxRetries
    <3>1. HeldBy(row, s.worker, s.started) => RowMove(row, FailedRow(row, s.worker))
      BY DEF HeldBy, RowMove
    <3>2. HeldBy(row, s.worker, s.started) \in BOOLEAN
      BY DEF HeldBy, StartedIs
    <3>. QED
      BY <1>4, <2>1, <2>2, <3>1, <3>2, UpdateMoves DEF HealthTimeOut
  <2>3. CASE ~(s.retries >= MaxRetries)
    <3>1. ASSUME ResetMatches(row, "processing", s.worker, s.started)
          PROVE  RowMove(row, PendingAgain(row, TRUE))
      <4>1. row.status = "processing" /\ row.started = s.started
        BY <3>1 DEF ResetMatches, StartedIs, SnapshotsHold, SnapshotHolds
      <4>2. row.retries = s.retries
        BY <4>1 DEF SnapshotsHold, SnapshotHolds
      <4>3. row.retries < MaxRetries
        BY <2>1, <2>3, <4>2
      <4>. QED
        BY <4>1, <4>3 DEF RowMove
    <3>2. ResetMatches(row, "processing", s.worker, s.started) \in BOOLEAN
      BY DEF ResetMatches, StartedIs
    <3>. QED
      BY <1>4, <2>1, <2>3, <3>1, <3>2, UpdateMoves DEF HealthTimeOut
  <2>. QED
    BY <2>2, <2>3
<1>5. ASSUME NEW s \in retrier, RetryFailed(s)
      PROVE  jobs' = jobs \/ OneRowMoves
  <2>1. ResetMatches(jobs[s.job], "failed", NoWorker, s.started)
          => RowMove(jobs[s.job], PendingAgain(jobs[s.job], TRUE))
    BY DEF ResetMatches, RowMove
  <2>2. ResetMatches(jobs[s.job], "failed", NoWorker, s.started) \in BOOLEAN
    BY DEF ResetMatches, StartedIs
  <2>. QED
    BY <1>2, <1>5, <2>1, <2>2, SnapshotFields, UpdateMoves DEF RetryFailed
<1>. QED
  BY <1>1, <1>3, <1>4, <1>5
  DEF HealthStep, HealthReact, RetryStep, HealthTick, HealthCollect,
      HealthCollectFails, HealthFindStale, HealthQueryFails, HealthUpdateFails, HealthDone, RetryTick, RetrySkipped

\* Every step claims a row, or moves at most one row, or prunes, and only a
\* claim changes which attempts there are.
LEMMA NextMoves ==
  ASSUME TypeOK, RequestsHold, SnapshotsHold, [Next]_vars
  PROVE  Moves
<1>1. CASE Table
  <2>1. ASSUME NEW j \in Jobs, Submit(j)
        PROVE  ClaimsKept /\ OneRowMoves
    <3>1. jobs'[j] = NewJob /\ \A k \in Jobs \ {j} : jobs'[k] = jobs[k]
      BY <2>1 DEF Submit, TypeOK
    <3>2. RowMove(jobs[j], jobs'[j])
      BY <2>1, <3>1 DEF Submit, RowMove
    <3>. QED
      BY <2>1, <3>1, <3>2, AttemptsUnchanged DEF Submit, OneRowMoves
  <2>2. ASSUME NEW status \in Finished \cup {"all"}, Prune(status)
        PROVE  ClaimsKept /\ Pruned
    BY <2>2, AttemptsUnchanged DEF Prune, Pruned
  <2>3. ASSUME Age
        PROVE  ClaimsKept /\ jobs' = jobs
    BY <2>3, AttemptsUnchanged DEF Age
  <2>. QED
    BY <1>1, <2>1, <2>2, <2>3 DEF Table, Housekeeping, Moves, Claimed
<1>2. ASSUME NEW n \in Claim, EndAttempt(n)
      PROVE  ClaimsKept /\ jobs' = jobs
  BY <1>2 DEF EndAttempt, ClaimsKept, TypeOK, Attempt, Unclaimed
<1>3. ASSUME NEW h \in Handlers, Receive(h)
      PROVE  ClaimsKept /\ jobs' = jobs
  <2>1. ASSUME NEW n \in Claim, RecvFailure(h, n)
        PROVE  ClaimsKept /\ jobs' = jobs
    BY <2>1 DEF RecvFailure, ClaimsKept, TypeOK, Attempt, Unclaimed
  <2>. QED
    BY <1>3, <2>1, AttemptsUnchanged
    DEF Receive, RecvComplete, RecvUpload, RecvRetry, RecvRequeue, RecvCancel
<1>4. CASE Crash
  BY <1>4, AttemptsUnchanged DEF Crash, Moves
<1>5. CASE UNCHANGED vars
  BY <1>5, AttemptsUnchanged DEF vars, Moves
<1>. QED
  BY <1>1, <1>2, <1>3, <1>4, <1>5, HandleMoves, MonitorMoves
  DEF Next, Worker, Moves

-----------------------------------------------------------------------------
(* A row names its claim.                                                  *)

\* What one row owes RowNamesItsClaim.
NamesItsClaim(j) ==
  LET row == jobs[j] IN
  /\ row.status \in {"absent", "pending"} =>
       row.worker = NoWorker /\ row.started = 0
  /\ row.status \in {"processing", "completed", "failed"} => row.started # 0
  /\ row.started # 0 =>
       /\ row.started <= claims
       /\ attempt[row.started].job = j
       /\ attempt[row.started].worker = row.worker

\* RowNamesItsClaim, row by row.
LEMMA RowByRow == RowNamesItsClaim <=> \A j \in Jobs : NamesItsClaim(j)
BY DEF RowNamesItsClaim, NamesItsClaim

\* The three fields that identify the claim, after each move of a row: they
\* stay, or the row is no longer claimed.
LEMMA MoveFields ==
  ASSUME NEW old \in Row, NEW new, RowMove(old, new)
  PROVE  \/ /\ new.worker = old.worker /\ new.started = old.started
            /\ new.retries = old.retries
            /\ \/ /\ old.status = "processing"
                  /\ new.status \in {"completed", "failed"}
               \/ new.status = "cancelled"
         \/ /\ new.status = "pending"
            /\ new.worker = NoWorker /\ new.started = 0
<1>1. CASE old.status = "absent" /\ new = NewJob
  BY <1>1 DEF NewJob, Absent
<1>2. CASE \E sum \in Stamp : old.status = "processing"
                              /\ new = CompletedRow(old, old.worker, sum)
  BY <1>2 DEF CompletedRow, Row
<1>3. CASE old.status = "processing" /\ new = FailedRow(old, old.worker)
  BY <1>3 DEF FailedRow, Row
<1>4. CASE new = CancelledRow(old)
  BY <1>4 DEF CancelledRow, Row
<1>5. CASE new = PendingAgain(old, FALSE) \/ new = PendingAgain(old, TRUE)
  BY <1>5 DEF PendingAgain
<1>. QED
  BY <1>1, <1>2, <1>3, <1>4, <1>5 DEF RowMove

\* No move of the table leaves the stamp of one attempt beside the worker of
\* another.
LEMMA MovesKeepNames ==
  ASSUME TypeOK, RowNamesItsClaim, Moves
  PROVE  RowNamesItsClaim'
<1>. SUFFICES ASSUME NEW k \in Jobs
              PROVE  NamesItsClaim(k)'
  BY DEF RowNamesItsClaim, NamesItsClaim
<1>0. NamesItsClaim(k) /\ jobs[k] \in Row
  BY RowByRow DEF TypeOK
<1>1. jobs[k].started # 0 => jobs[k].started \in Claim
  BY <1>0 DEF Row, Stamp, Claim
<1>2. CASE ClaimsKept /\ jobs' = jobs
  BY <1>0, <1>1, <1>2 DEF NamesItsClaim, ClaimsKept
<1>3. CASE ClaimsKept /\ OneRowMoves
  <2>1. CASE jobs'[k] = jobs[k]
    BY <1>0, <1>1, <1>3, <2>1 DEF NamesItsClaim, ClaimsKept
  <2>2. CASE RowMove(jobs[k], jobs'[k])
    BY <1>0, <1>1, <1>3, <2>2, MoveFields DEF NamesItsClaim, ClaimsKept
  <2>. QED
    BY <1>3, <2>1, <2>2 DEF OneRowMoves
<1>4. CASE ClaimsKept /\ Pruned
  <2>1. jobs'[k] = jobs[k] \/ jobs'[k] = Absent
    BY <1>4 DEF Pruned, Prune
  <2>2. CASE jobs'[k] = jobs[k]
    BY <1>0, <1>1, <1>4, <2>2 DEF NamesItsClaim, ClaimsKept
  <2>3. CASE jobs'[k] = Absent
    BY <2>3 DEF NamesItsClaim, Absent
  <2>. QED
    BY <2>1, <2>2, <2>3
<1>5. CASE Claimed
  <2>1. PICK w \in Workers, j \in Jobs : GetNextJob(w, j)
    BY <1>5 DEF Claimed
  <2>2. /\ claims + 1 \in Claim /\ claims' = claims + 1
        /\ jobs' = [jobs EXCEPT ![j] = ClaimedRow(jobs[j], w, claims + 1)]
    BY <2>1 DEF GetNextJob
  <2>3. PICK p : attempt' = [attempt EXCEPT
                       ![claims + 1] = [job |-> j, worker |-> w, phase |-> p]]
    BY <2>1 DEF GetNextJob
  <2>4. /\ attempt'[claims + 1].job = j /\ attempt'[claims + 1].worker = w
        /\ \A n \in Claim : n # claims + 1 => attempt'[n] = attempt[n]
    BY <2>2, <2>3 DEF TypeOK
  <2>5. CASE k = j
    <3>1. /\ jobs'[k].status = "processing" /\ jobs'[k].worker = w
          /\ jobs'[k].started = claims + 1
      BY <1>0, <2>2, <2>5 DEF ClaimedRow, Row, TypeOK
    <3>. QED
      BY <2>2, <2>4, <2>5, <3>1 DEF NamesItsClaim, Claim
  <2>6. CASE k # j
    <3>1. jobs'[k] = jobs[k]
      BY <2>2, <2>6 DEF TypeOK
    <3>2. claims \in Nat /\ jobs[k].started \in Nat
      BY <1>0 DEF TypeOK, Row, Stamp
    <3>3. jobs[k].started # 0 => jobs[k].started # claims + 1
                                 /\ jobs[k].started <= claims + 1
      BY <1>0, <3>2 DEF NamesItsClaim
    <3>. QED
      BY <1>0, <1>1, <2>2, <2>4, <3>1, <3>3 DEF NamesItsClaim
  <2>. QED
    BY <2>5, <2>6
<1>. QED
  BY <1>2, <1>3, <1>4, <1>5 DEF Moves

-----------------------------------------------------------------------------
(* What goroutines remember stays good enough.                             *)

\* A remembered row either still says what the row says or can be told from
\* it by the stamp, whatever has happened to the row since.
LEMMA SnapshotKept ==
  ASSUME TypeOK, Moves, NEW s \in Snapshot, SnapshotHolds(s)
  PROVE  SnapshotHolds(s)'
<1>. DEFINE j == s.job
<1>0. /\ j \in Jobs /\ jobs[j] \in Row /\ s.started \in Nat /\ claims \in Nat
      /\ s.started # 0 /\ s.started <= claims
      /\ jobs[j].started = s.started => jobs[j].retries = s.retries
  BY SnapshotFields DEF TypeOK, Stamp, SnapshotHolds
<1>. HIDE DEF j
<1>1. ASSUME claims' = claims \/ claims' = claims + 1,
             jobs'[j].started = s.started => jobs'[j].retries = s.retries
      PROVE  SnapshotHolds(s)'
  BY <1>0, <1>1 DEF SnapshotHolds, j
<1>2. CASE ClaimsKept /\ jobs' = jobs
  BY <1>0, <1>1, <1>2 DEF ClaimsKept
<1>3. CASE ClaimsKept /\ OneRowMoves
  <2>1. jobs'[j] = jobs[j] \/ RowMove(jobs[j], jobs'[j])
    BY <1>0, <1>3 DEF OneRowMoves
  <2>. QED
    BY <1>0, <1>1, <1>3, <2>1, MoveFields DEF ClaimsKept
<1>4. CASE ClaimsKept /\ Pruned
  <2>1. jobs'[j] = jobs[j] \/ jobs'[j].started = 0
    BY <1>0, <1>4 DEF Pruned, Prune, Absent
  <2>. QED
    BY <1>0, <1>1, <1>4, <2>1 DEF ClaimsKept
<1>5. CASE Claimed
  <2>1. PICK w \in Workers, k \in Jobs : GetNextJob(w, k)
    BY <1>5 DEF Claimed
  <2>2. /\ claims' = claims + 1
        /\ jobs' = [jobs EXCEPT ![k] = ClaimedRow(jobs[k], w, claims + 1)]
    BY <2>1 DEF GetNextJob
  <2>3. jobs'[j] = jobs[j] \/ jobs'[j].started = claims + 1
    BY <1>0, <2>2 DEF TypeOK, ClaimedRow, Row
  <2>. QED
    BY <1>0, <1>1, <2>2, <2>3
<1>. QED
  BY <1>2, <1>3, <1>4, <1>5 DEF Moves

\* A row with a stamp, read now, holds.
LEMMA SnapshotTaken ==
  ASSUME TypeOK, RowNamesItsClaim, NEW j \in Jobs, jobs[j].started # 0
  PROVE  /\ Snap(j) \in Snapshot
         /\ SnapshotHolds(Snap(j))
BY DEF TypeOK, RowNamesItsClaim, SnapshotHolds, Snap, Snapshot, Row

\* What the health monitor works off is what it had, or what it just read.
LEMMA HealthReads ==
  ASSUME TypeOK, RowNamesItsClaim, SnapshotsHold, HealthStep
  PROVE  /\ \A s \in health'.todo :
              s \in health.todo \/ (jobs' = jobs /\ SnapshotHolds(s))
         /\ health'.at = "stale" => \A s \in health'.todo : s.started <= aged
         /\ UNCHANGED <<claims, aged, retrier, req>>
<1>0. UNCHANGED <<claims, aged, retrier, req>>
  BY DEF HealthStep, HealthReact, HealthTick, HealthCollect, HealthCollectFails,
         HealthReassign, HealthFindStale, HealthQueryFails, HealthTimeOut, HealthUpdateFails, HealthDone
<1>1. ASSUME NEW offline \in SUBSET Workers, HealthTick(offline)
      PROVE  health'.todo = {} /\ health'.at = "offline"
  BY <1>1 DEF HealthTick, HealthIdle
<1>2. ASSUME NEW w \in health.offline, HealthCollect(w)
      PROVE  /\ jobs' = jobs /\ health'.at = "offline"
             /\ \A s \in health'.todo : SnapshotHolds(s)
  <2>1. /\ jobs' = jobs /\ health'.at = "offline"
        /\ health'.todo = {Snap(j) : j \in {k \in Jobs : OfWorker(jobs[k], w)}}
    BY <1>2 DEF HealthCollect, TypeOK, Health
  <2>2. ASSUME NEW j \in Jobs, OfWorker(jobs[j], w)
        PROVE  SnapshotHolds(Snap(j))
    BY <2>2, SnapshotTaken DEF OfWorker, RowNamesItsClaim
  <2>. QED
    BY <2>1, <2>2
<1>3. ASSUME NEW s \in health.todo,
             HealthReassign(s) \/ HealthTimeOut(s) \/ HealthUpdateFails(s)
      PROVE  health'.at = health.at /\ health'.todo \subseteq health.todo
  BY <1>3 DEF HealthReassign, HealthTimeOut, HealthUpdateFails, TypeOK, Health
<1>4. ASSUME HealthFindStale
      PROVE  /\ jobs' = jobs
             /\ \A s \in health'.todo : SnapshotHolds(s) /\ s.started <= aged
  <2>1. /\ jobs' = jobs
        /\ health'.todo = {Snap(j) : j \in {k \in Jobs : TimedOut(jobs[k], aged)}}
    BY <1>4 DEF HealthFindStale, HealthIdle
  <2>2. ASSUME NEW j \in Jobs, TimedOut(jobs[j], aged)
        PROVE  SnapshotHolds(Snap(j)) /\ Snap(j).started <= aged
    BY <2>2, SnapshotTaken DEF TimedOut, Snap
  <2>. QED
    BY <2>1, <2>2
<1>5. ASSUME HealthDone \/ HealthQueryFails
      PROVE  health'.todo = {}
  BY <1>5 DEF HealthDone, HealthQueryFails, HealthIdle
<1>6. ASSUME NEW w \in health.offline, HealthCollectFails(w)
      PROVE  health'.at = health.at /\ health'.todo = health.todo
  BY <1>6 DEF HealthCollectFails, TypeOK, Health
<1>. QED
  BY <1>0, <1>1, <1>2, <1>3, <1>4, <1>5, <1>6
  DEF HealthStep, HealthReact, SnapshotsHold

\* What the failed-job monitor works off is what it had, or what it just
\* read, and has retries left.
LEMMA RetrierReads ==
  ASSUME TypeOK, RowNamesItsClaim, SnapshotsHold, RetryStep
  PROVE  /\ \A s \in retrier' :
              s \in retrier \/ (jobs' = jobs /\ SnapshotHolds(s))
         /\ \A s \in retrier' : s.retries < MaxRetries
         /\ UNCHANGED <<claims, aged, health, req>>
<1>1. CASE RetryTick
  <2>1. /\ jobs' = jobs /\ UNCHANGED <<claims, aged, health, req>>
        /\ retrier' = {Snap(j) : j \in {k \in Jobs : Retryable(jobs[k])}}
    BY <1>1 DEF RetryTick
  <2>2. ASSUME NEW j \in Jobs, Retryable(jobs[j])
        PROVE  SnapshotHolds(Snap(j)) /\ Snap(j).retries < MaxRetries
    BY <2>2, SnapshotTaken DEF Retryable, RowNamesItsClaim, Snap
  <2>. QED
    BY <2>1, <2>2
<1>2. ASSUME NEW s \in retrier, RetrySkipped(s) \/ RetryFailed(s)
      PROVE  retrier' \subseteq retrier /\ UNCHANGED <<claims, aged, health, req>>
  BY <1>2 DEF RetrySkipped, RetryFailed
<1>. QED
  BY <1>1, <1>2 DEF RetryStep, SnapshotsHold

\* The steps that are not a monitor's leave its list alone or throw it away,
\* and no timeout is taken back.
LEMMA OthersKeepLists ==
  ASSUME TypeOK, [Next]_vars, ~HealthStep, ~RetryStep
  PROVE  /\ \/ UNCHANGED <<health, retrier>>
            \/ health' = HealthIdle /\ retrier' = {}
         /\ aged' = aged \/ aged' = aged + 1
<1>1. CASE Table
  BY <1>1 DEF Table, Housekeeping, Submit, Prune, GetNextJob, Age
<1>2. CASE Worker
  BY <1>2 DEF Worker, EndAttempt
<1>3. ASSUME NEW h \in Handlers, Receive(h)
      PROVE  UNCHANGED <<health, retrier, aged>>
  BY <1>3 DEF Receive, RecvComplete, RecvFailure, RecvUpload, RecvRetry,
              RecvRequeue, RecvCancel
<1>4. ASSUME NEW h \in Handlers, Handle(h)
      PROVE  UNCHANGED <<health, retrier, aged>>
  BY <1>4 DEF Handle, JobComplete, JobFailed, RetryJob, RequeueJob, CancelJob,
              RequestFails, UploadRename, UploadChecksum, UploadComplete
<1>5. CASE Crash
  BY <1>5 DEF Crash
<1>6. CASE UNCHANGED vars
  BY <1>6 DEF vars
<1>. QED
  BY <1>1, <1>2, <1>3, <1>4, <1>5, <1>6 DEF Next

\* What the monitors have read holds for as long as they keep it.
LEMMA SnapshotsStayGood ==
  ASSUME IInv, [Next]_vars
  PROVE  SnapshotsHold'
<1>. USE DEF IInv
<1>1. Moves
  BY NextMoves
<1>2. health.todo \subseteq Snapshot /\ retrier \subseteq Snapshot
      /\ aged \in Nat /\ \A s \in Snapshot : s.started \in Nat
  BY DEF TypeOK, Health, Stamp, Snapshot
<1>3. \A s \in health.todo \cup retrier : SnapshotHolds(s)'
  BY <1>1, <1>2, SnapshotKept DEF SnapshotsHold
<1>4. \A s : jobs' = jobs /\ claims' = claims /\ SnapshotHolds(s)
               => SnapshotHolds(s)'
  BY DEF SnapshotHolds
<1>5. CASE HealthStep
  BY <1>3, <1>4, <1>5, HealthReads DEF SnapshotsHold
<1>6. CASE RetryStep
  <2>1. \A s \in retrier' : SnapshotHolds(s)'
    BY <1>3, <1>4, <1>6, RetrierReads
  <2>. QED
    BY <1>3, <1>6, <2>1, RetrierReads DEF SnapshotsHold
<1>7. CASE ~HealthStep /\ ~RetryStep
  <2>1. \A s \in health.todo : s.started <= aged => s.started <= aged'
    BY <1>2, <1>7, OthersKeepLists
  <2>. QED
    BY <1>3, <1>7, <2>1, OthersKeepLists DEF SnapshotsHold, HealthIdle
<1>. QED
  BY <1>5, <1>6, <1>7

\* A handler expects the status it has checked.
LEMMA RequestsStayGood ==
  ASSUME IInv, [Next]_vars
  PROVE  RequestsHold'
<1>. USE DEF IInv
<1>1. CASE Table \/ HealthStep \/ RetryStep \/ Worker \/ UNCHANGED vars
  <2>1. req' = req
    BY <1>1 DEF Table, Housekeeping, Submit, Prune, GetNextJob, Age, Worker, EndAttempt,
         HealthStep, HealthReact, HealthTick, HealthCollect,
         HealthCollectFails, HealthReassign, HealthFindStale, HealthQueryFails, HealthTimeOut, HealthUpdateFails,
         HealthDone,
         RetryStep, RetryTick, RetrySkipped, RetryFailed, vars
  <2>. QED
    BY <2>1 DEF RequestsHold
<1>2. ASSUME NEW h \in Handlers, Receive(h)
      PROVE  RequestsHold'
  BY <1>2 DEF RequestsHold, TypeOK, Receive, Begin, Exists, RecvComplete,
         RecvFailure, RecvUpload, RecvRetry, RecvRequeue, RecvCancel
<1>3. ASSUME NEW h \in Handlers, Handle(h)
      PROVE  RequestsHold'
  <2>1. \/ req' = [req EXCEPT ![h] = Idle]
        \/ req' = [req EXCEPT ![h].op = "renamed"]
        \/ \E sum : req' = [req EXCEPT ![h].op = "summed", ![h].sum = sum]
    BY <1>3 DEF Handle, JobComplete, JobFailed, RetryJob, RequeueJob,
         CancelJob, RequestFails, UploadRename, UploadChecksum,
         UploadComplete, Answer
  <2>2. \A g \in Handlers : req'[g] = req[g]
                            \/ req'[g].op \in {"idle", "renamed", "summed"}
    BY <2>1 DEF TypeOK, Idle, Request
  <2>. QED
    BY <2>2 DEF RequestsHold
<1>4. CASE Crash
  BY <1>4 DEF Crash, RequestsHold, Idle
<1>. QED
  BY <1>1, <1>2, <1>3, <1>4 DEF Next

\* The invariant holds initially and is kept by every step.
THEOREM Invariance == Spec => []IInv
<1>1. Init => RowNamesItsClaim /\ RequestsHold /\ SnapshotsHold
  BY DEF Init, RowNamesItsClaim, Absent, RequestsHold, Idle, SnapshotsHold,
         HealthIdle
<1>2. IInv /\ TypeOK' /\ [Next]_vars => IInv'
  BY NextMoves, MovesKeepNames, RequestsStayGood, SnapshotsStayGood DEF IInv
<1>. QED
  BY InitTypeOK, TypeCorrect, <1>1, <1>2, PTL DEF Spec, IInv

\* No interleaving leaves the stamp of one attempt beside the worker of
\* another: worker_id and started_at always name one claim, of this job.
THEOREM RowsNameTheirClaims == Spec => []RowNamesItsClaim
BY Invariance, PTL DEF IInv
=============================================================================
