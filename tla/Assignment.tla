----------------------------- MODULE Assignment -----------------------------
(***************************************************************************)
(* Who gets the jobs: the workers table, heartbeats, the two pause         *)
(* switches and the check before a claim, composed with MasterServer,      *)
(* whose claim (GetNextJob) and whose health monitor they drive.           *)
(*                                                                         *)
(* A worker's status has three writers (its heartbeat, the health monitor, *)
(* the operator) and is read by two (the poll, before it claims; the       *)
(* monitor, before it marks).  Each statement is a step of its own.        *)
(*                                                                         *)
(* last_heartbeat is abstracted to `recent', whether it is less than two   *)
(* minutes old: the poll and the monitor use the same threshold, and the   *)
(* clocks of workers and database are taken to agree.                      *)
(***************************************************************************)
EXTENDS MasterServer

CONSTANTS
  Pollers,           \* bound: next-job requests in flight at once
  MaxJobsPerWorker,  \* maxJobsPerWorker, 5
  BatchLimit         \* largest `limit' of a next-jobs request

ASSUME AssignmentAssumption ==
  MaxJobsPerWorker \in Nat \ {0} /\ BatchLimit \in Nat \ {0}

VARIABLES
  queuePaused,  \* the server's queuePaused flag, in memory only
  registry,     \* the workers table
  beating,      \* workers whose heartbeats reach the master
  poll,         \* what each next-job request remembers
  scan          \* monitorWorkerHealth up to the list of offline workers

assignment == <<queuePaused, registry, beating, poll, scan>>
allVars == <<vars, assignment>>

-----------------------------------------------------------------------------
(* Types.                                                                  *)

WorkerRow == [status : {"none", "online", "paused", "offline"},
              recent : BOOLEAN,
              active : Nat]

\* No row for this worker.
Unregistered == [status |-> "none", recent |-> FALSE, active |-> 0]

\* `room' is how many jobs the request may still claim.  `barred' is only
\* remembered for a property: the worker was paused when the request began
\* and nobody has resumed or removed it since.
Asking == [at     : {"checking", "claiming"},
           worker : Workers,
           room   : 1 .. BatchLimit,
           barred : BOOLEAN]

NoPoll == [at |-> "idle", worker |-> NoWorker, room |-> 0, barred |-> FALSE]

Scan == [at      : {"idle", "all", "marking"},
         all     : SUBSET Workers,
         offline : SUBSET Workers,
         left    : SUBSET Workers]

NoScan == [at |-> "idle", all |-> {}, offline |-> {}, left |-> {}]

AssignmentTypeOK ==
  /\ TypeOK
  /\ queuePaused \in BOOLEAN
  /\ registry \in [Workers -> WorkerRow]
  /\ beating \subseteq Workers
  /\ poll \in [Pollers -> Asking \cup {NoPoll}]
  /\ scan \in Scan

AssignmentInit ==
  /\ Init
  /\ queuePaused = FALSE
  /\ registry = [w \in Workers |-> Unregistered]
  /\ beating = {}
  /\ poll = [h \in Pollers |-> NoPoll]
  /\ scan = NoScan

-----------------------------------------------------------------------------
(* The workers table.                                                      *)

Registered(w) == registry[w].status # "none"

\* GetActiveWorkers returns it.
Active(w) == Registered(w) /\ registry[w].recent

\* What the worker says it is working on.
Running(w) ==
  Cardinality({n \in Claim : attempt[n].worker = w
                             /\ attempt[n].phase = "running"})

\* UpdateWorkerHeartbeat.  A worker always reports itself "online".
HeartbeatRow_Overwrites(row, active) ==
  [status |-> "online", recent |-> TRUE, active |-> active]
HeartbeatRow_KeepsOffline(row, active) ==
  [status |-> IF row.status \in {"paused", "offline"} THEN row.status
                                                      ELSE "online",
   recent |-> TRUE,
   active |-> active]
HeartbeatRow(row, active) ==
  [status |-> IF row.status = "paused" THEN "paused" ELSE "online",
   recent |-> TRUE,
   active |-> active]

Heartbeat(w) ==
  /\ w \in beating
  /\ registry' = [registry EXCEPT ![w] = HeartbeatRow(@, Running(w))]
  /\ UNCHANGED <<vars, queuePaused, beating, poll, scan>>

\* Two minutes have passed without a heartbeat.
Silent(w) ==
  /\ w \notin beating /\ registry[w].recent
  /\ registry' = [registry EXCEPT ![w].recent = FALSE]
  /\ UNCHANGED <<vars, queuePaused, beating, poll, scan>>

\* The worker, or the network between it and the master, stops or starts
\* working.  Its polls may pass all the same.
Connect(w) ==
  /\ w \notin beating
  /\ beating' = beating \cup {w}
  /\ UNCHANGED <<vars, queuePaused, registry, poll, scan>>

Disconnect(w) ==
  /\ w \in beating
  /\ beating' = beating \ {w}
  /\ UNCHANGED <<vars, queuePaused, registry, poll, scan>>

\* The operator wants w to work, or to be gone.
Unbar(w) ==
  poll' = [h \in Pollers |->
             IF poll[h].worker = w THEN [poll[h] EXCEPT !.barred = FALSE]
                                   ELSE poll[h]]

\* SetWorkerStatus is an UPDATE without an INSERT: of a worker that has not
\* sent a heartbeat yet it changes nothing, and the answer is 200.
PauseWorker(w) ==
  /\ Registered(w)
  /\ registry' = [registry EXCEPT ![w].status = "paused"]
  /\ UNCHANGED <<vars, queuePaused, beating, poll, scan>>

ResumeWorker(w) ==
  /\ Registered(w)
  /\ registry' = [registry EXCEPT ![w].status = "online"]
  /\ Unbar(w)
  /\ UNCHANGED <<vars, queuePaused, beating, scan>>

\* DELETE /api/worker; a worker that lives on registers again.
RemoveWorker(w) ==
  /\ Registered(w)
  /\ registry' = [registry EXCEPT ![w] = Unregistered]
  /\ Unbar(w)
  /\ UNCHANGED <<vars, queuePaused, beating, scan>>

PauseQueue ==
  /\ queuePaused' = TRUE
  /\ UNCHANGED <<vars, registry, beating, poll, scan>>

ResumeQueue ==
  /\ queuePaused' = FALSE
  /\ UNCHANGED <<vars, registry, beating, poll, scan>>

-----------------------------------------------------------------------------
(* A poll: GET next-job (one job) or next-jobs (up to limit).              *)

\* The pause flag of the queue is read first, and only once.
Poll(h, w, limit) ==
  /\ poll[h] = NoPoll
  /\ ~queuePaused
  /\ poll' = [poll EXCEPT ![h] = [at     |-> "checking",
                                  worker |-> w,
                                  room   |-> limit,
                                  barred |-> registry[w].status = "paused"]]
  /\ UNCHANGED <<vars, queuePaused, registry, beating, scan>>

\* The worker's row is looked at only if its last heartbeat is recent.
Refused_WhateverLoad(w) == Active(w) /\ registry[w].status = "paused"
Refused(w) ==
  /\ Active(w)
  /\ registry[w].status = "paused" \/ registry[w].active >= MaxJobsPerWorker

Room(w, limit) ==
  IF Active(w) /\ MaxJobsPerWorker - registry[w].active < limit
    THEN MaxJobsPerWorker - registry[w].active
    ELSE limit

PollRefused(h) ==
  /\ poll[h].at = "checking"
  /\ Refused(poll[h].worker)
  /\ poll' = [poll EXCEPT ![h] = NoPoll]
  /\ UNCHANGED <<vars, queuePaused, registry, beating, scan>>

PollChecked(h) ==
  /\ poll[h].at = "checking"
  /\ ~Refused(poll[h].worker)
  /\ poll' = [poll EXCEPT ![h].at = "claiming",
                          ![h].room = Room(poll[h].worker, @)]
  /\ UNCHANGED <<vars, queuePaused, registry, beating, scan>>

\* "Continue anyway, don't block job assignment".
PollUnchecked(h) ==
  /\ poll[h].at = "checking"
  /\ poll' = [poll EXCEPT ![h].at = "claiming", ![h].barred = FALSE]
  /\ UNCHANGED <<vars, queuePaused, registry, beating, scan>>

\* A batch is one transaction in the code and one claim after the other here.
PollClaim_AnyJob(h, j) ==
  /\ poll[h].at = "claiming"
  /\ claims + 1 \in Claim /\ jobs[j].status \in {"pending", "processing"}
  /\ jobs' = [jobs EXCEPT
                ![j] = ClaimedRow(jobs[j], poll[h].worker, claims + 1)]
  /\ attempt' = [attempt EXCEPT
                   ![claims + 1] = [job |-> j, worker |-> poll[h].worker,
                                    phase |-> "running"]]
  /\ claims' = claims + 1
  /\ poll' = [poll EXCEPT ![h] = NoPoll]
  /\ UNCHANGED <<file, aged, req, health, retrier, crashes,
                 queuePaused, registry, beating, scan>>
PollClaim(h, j) ==
  /\ poll[h].at = "claiming"
  /\ GetNextJob(poll[h].worker, j)
  /\ poll' = [poll EXCEPT ![h] = IF poll[h].room = 1 THEN NoPoll
                                  ELSE [poll[h] EXCEPT !.room = @ - 1]]
  /\ UNCHANGED <<queuePaused, registry, beating, scan>>

\* No job is pending, or the transaction fails.
PollEnds(h) ==
  /\ poll[h].at = "claiming"
  /\ poll' = [poll EXCEPT ![h] = NoPoll]
  /\ UNCHANGED <<vars, queuePaused, registry, beating, scan>>

-----------------------------------------------------------------------------
(* monitorWorkerHealth: two queries, the marking, then what MasterServer   *)
(* has of the tick.                                                        *)

\* GetWorkers
ScanAll ==
  /\ scan = NoScan /\ health = HealthIdle
  /\ scan' = [NoScan EXCEPT !.at = "all",
                            !.all = {w \in Workers : Registered(w)}]
  /\ UNCHANGED <<vars, queuePaused, registry, beating, poll>>

\* GetActiveWorkers: who is in the first answer and not in the second.
ScanActive_OncePerOutage ==
  /\ scan.at = "all"
  /\ LET offline == {w \in scan.all : ~Active(w)
                                      /\ registry[w].status # "offline"}
     IN scan' = [NoScan EXCEPT !.at = "marking", !.offline = offline,
                               !.left = offline]
  /\ UNCHANGED <<vars, queuePaused, registry, beating, poll>>
ScanActive ==
  /\ scan.at = "all"
  /\ LET offline == {w \in scan.all : ~Active(w)}
     IN scan' = [NoScan EXCEPT !.at = "marking", !.offline = offline,
                               !.left = offline]
  /\ UNCHANGED <<vars, queuePaused, registry, beating, poll>>

\* The query fails and the tick is over.
ScanFails ==
  /\ scan.at = "all"
  /\ scan' = NoScan
  /\ UNCHANGED <<vars, queuePaused, registry, beating, poll>>

\* MarkWorkerOffline does not look at what the row says by now; or it fails.
ScanMark(w) ==
  /\ scan.at = "marking" /\ w \in scan.left
  /\ scan' = [scan EXCEPT !.left = @ \ {w}]
  /\ \/ /\ Registered(w)
        /\ registry' = [registry EXCEPT ![w].status = "offline"]
     \/ UNCHANGED registry
  /\ UNCHANGED <<vars, queuePaused, beating, poll>>

ScanHandsOver ==
  /\ scan.at = "marking" /\ scan.left = {}
  /\ HealthTick(scan.offline)
  /\ scan' = NoScan
  /\ UNCHANGED <<queuePaused, registry, beating, poll>>

-----------------------------------------------------------------------------
\* The pause of the queue is forgotten, that of a worker is in the database.
AssignmentCrash ==
  /\ Crash
  /\ queuePaused' = FALSE
  /\ poll' = [h \in Pollers |-> NoPoll]
  /\ scan' = NoScan
  /\ UNCHANGED <<registry, beating>>

Roster(w) ==
  \/ Heartbeat(w) \/ Silent(w) \/ Connect(w) \/ Disconnect(w)
  \/ PauseWorker(w) \/ ResumeWorker(w) \/ RemoveWorker(w)

Polling(h) ==
  \/ \E w \in Workers, limit \in 1 .. BatchLimit : Poll(h, w, limit)
  \/ PollRefused(h) \/ PollChecked(h) \/ PollUnchecked(h) \/ PollEnds(h)
  \/ \E j \in Jobs : PollClaim(h, j)

ScanStep ==
  \/ ScanAll \/ ScanActive \/ ScanFails
  \/ \E w \in scan.left : ScanMark(w)
  \/ ScanHandsOver

\* What MasterServer does besides claiming, ticking and crashing.
Elsewhere ==
  /\ \/ Housekeeping \/ Worker \/ HealthReact \/ RetryStep
     \/ \E h \in Handlers : Receive(h) \/ Handle(h)
  /\ UNCHANGED assignment

AssignmentNext ==
  \/ \E w \in Workers : Roster(w)
  \/ PauseQueue \/ ResumeQueue
  \/ \E h \in Pollers : Polling(h)
  \/ ScanStep
  \/ AssignmentCrash
  \/ Elsewhere

AssignmentSpec == AssignmentInit /\ [][AssignmentNext]_allVars

(* Fairness.  A worker sends heartbeats from a ticker of its own as long   *)
(* as they arrive; two minutes pass; the monitor goroutine keeps going,    *)
(* and its queries and resets do not fail every time.  Nothing is assumed  *)
(* of polls, operators, job timeouts or retries.                           *)
AssignmentFairness ==
  /\ \A w \in Workers :
       /\ WF_allVars(Heartbeat(w))
       /\ WF_allVars(Silent(w))
       /\ SF_allVars(HealthCollect(w) /\ UNCHANGED assignment)
  /\ WF_allVars(ScanStep)
  /\ SF_allVars(ScanActive)
  /\ WF_allVars(HealthReact /\ UNCHANGED assignment)
  /\ \A j \in Jobs :
       SF_allVars(/\ \E s \in health.todo : s.job = j /\ HealthReassign(s)
                  /\ UNCHANGED assignment)

FairAssignment == AssignmentSpec /\ AssignmentFairness

-----------------------------------------------------------------------------
(* Properties.                                                             *)

\* With workers, polls and the monitor's scan in detail, the jobs still only
\* move as MasterServer lets them: everything shown of it holds here.
ImplementsMasterServer == Spec

\* The operator's pause of a worker outlives heartbeats, polls and restarts
\* of the master: only the operator, or the monitor after it has found the
\* worker silent, takes it back.
OnlySilenceUnpauses ==
  [][\A w \in Workers :
       registry[w].status = "paused" /\ registry'[w].status # "paused"
         => \/ ResumeWorker(w) \/ RemoveWorker(w)
            \/ scan.at = "marking" /\ w \in scan.left]_allVars

\* docs/API.md says a pause prevents a worker from fetching new jobs.  It does
\* not while the worker's last heartbeat is more than two minutes old.
PausedWorkerGetsNoJob ==
  [][\A h \in Pollers :
       poll[h].barred /\ poll'[h] # poll[h] => claims' = claims]_allVars

\* A registered worker that is not heard of again keeps no job, long before
\* the job timeout: the monitor finds it silent in every later scan, also
\* when statements failed in this one or the master died.
SilentWorkerFreed ==
  \A w \in Workers, j \in Jobs :
    <>[](w \notin beating /\ Registered(w)) => []<>~OfWorker(jobs[j], w)

\* A worker that is heard of, and that nobody keeps removing, does not stay
\* marked offline by a scan that read the table before it came back.
ReturningWorkerOnline ==
  \A w \in Workers :
    <>[](w \in beating /\ Registered(w))
      => <>[](registry[w].status # "offline")
=============================================================================
