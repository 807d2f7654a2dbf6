-------------------------- MODULE AssignmentProofs --------------------------
(***************************************************************************)
(* Assignment, for any constants: its type invariant, that it implements   *)
(* MasterServer, so that every theorem about that module holds of it, and  *)
(* that a worker's pause is not lost on the way.                           *)
(***************************************************************************)
EXTENDS Assignment, MasterRowProofs, FiniteSetTheorems

USE StoreAssumption, ServerAssumption, AssignmentAssumption

-----------------------------------------------------------------------------
\* A worker reports a number of jobs.
LEMMA RunningIsNat ==
  ASSUME NEW w \in Workers
  PROVE  Running(w) \in Nat
<1>. DEFINE mine == {n \in Claim : attempt[n].worker = w
                                   /\ attempt[n].phase = "running"}
<1>1. IsFiniteSet(Claim)
  BY FS_Interval DEF Claim
<1>2. IsFiniteSet(mine)
  BY <1>1, FS_Subset
<1>. QED
  BY <1>2, FS_CardinalityType DEF Running

\* What each writer leaves in the workers table.
LEMMA RosterTypeOK ==
  ASSUME AssignmentTypeOK, NEW w \in Workers, Roster(w)
  PROVE  /\ UNCHANGED <<vars, queuePaused, scan>>
         /\ registry' \in [Workers -> WorkerRow]
         /\ beating' \subseteq Workers
         /\ poll' \in [Pollers -> Asking \cup {NoPoll}]
<1>. USE DEF AssignmentTypeOK
<1>1. CASE Heartbeat(w)
  <2>1. HeartbeatRow(registry[w], Running(w)) \in WorkerRow
    BY RunningIsNat DEF HeartbeatRow, WorkerRow
  <2>. QED
    BY <1>1, <2>1 DEF Heartbeat
<1>2. /\ Unregistered \in WorkerRow
      /\ \A r \in WorkerRow : /\ [r EXCEPT !.recent = FALSE] \in WorkerRow
                             /\ [r EXCEPT !.status = "paused"] \in WorkerRow
                             /\ [r EXCEPT !.status = "online"] \in WorkerRow
  BY DEF WorkerRow, Unregistered
<1>3. CASE Silent(w)
  BY <1>2, <1>3 DEF Silent
<1>4. CASE PauseWorker(w)
  BY <1>2, <1>4 DEF PauseWorker
<1>5. CASE Connect(w) \/ Disconnect(w)
  BY <1>5 DEF Connect, Disconnect
<1>6. CASE ResumeWorker(w) \/ RemoveWorker(w)
  <2>1. ASSUME NEW h \in Pollers, poll[h].worker = w
        PROVE  [poll[h] EXCEPT !.barred = FALSE] \in Asking
    <3>1. poll[h] # NoPoll
      BY <2>1 DEF NoPoll
    <3>2. poll[h] \in Asking
      BY <3>1
    <3>. QED
      BY <3>2 DEF Asking
  <2>2. Unbar(w)
    BY <1>6 DEF ResumeWorker, RemoveWorker
  <2>3. poll' \in [Pollers -> Asking \cup {NoPoll}]
    BY <2>1, <2>2 DEF Unbar
  <2>4. \/ registry' = [registry EXCEPT ![w].status = "online"]
        \/ registry' = [registry EXCEPT ![w] = Unregistered]
    BY <1>6 DEF ResumeWorker, RemoveWorker
  <2>5. registry \in [Workers -> WorkerRow]
    OBVIOUS
  <2>6. [registry[w] EXCEPT !.status = "online"] \in WorkerRow
    BY <1>2, <2>5
  <2>7. registry' \in [Workers -> WorkerRow]
    BY <1>2, <2>4, <2>5, <2>6
  <2>. QED
    BY <1>6, <2>3, <2>7 DEF ResumeWorker, RemoveWorker
<1>. QED
  BY <1>1, <1>3, <1>4, <1>5, <1>6 DEF Roster

\* A poll may claim at least one job for as long as it lasts.
LEMMA PollingTypeOK ==
  ASSUME AssignmentTypeOK, NEW h \in Pollers, Polling(h)
  PROVE  /\ UNCHANGED <<queuePaused, registry, beating, scan>>
         /\ poll' \in [Pollers -> Asking \cup {NoPoll}]
         /\ \/ UNCHANGED vars
            \/ \E w \in Workers, j \in Jobs : GetNextJob(w, j)
<1>. USE DEF AssignmentTypeOK
<1>0. poll[h].at # "idle" => poll[h] \in Asking
  BY DEF NoPoll
<1>1. ASSUME NEW w \in Workers, NEW limit \in 1 .. BatchLimit, Poll(h, w, limit)
      PROVE  poll' \in [Pollers -> Asking \cup {NoPoll}]
  BY <1>1 DEF Poll, Asking
<1>2. ASSUME PollRefused(h) \/ PollUnchecked(h) \/ PollEnds(h)
      PROVE  poll' \in [Pollers -> Asking \cup {NoPoll}]
  BY <1>0, <1>2 DEF PollRefused, PollUnchecked, PollEnds, Asking
<1>3. ASSUME PollChecked(h)
      PROVE  poll' \in [Pollers -> Asking \cup {NoPoll}]
  <2>1. poll[h] \in Asking
    BY <1>0, <1>3 DEF PollChecked
  <2>2. registry[poll[h].worker] \in WorkerRow
    BY <2>1 DEF Asking
  <2>3. Room(poll[h].worker, poll[h].room) \in 1 .. BatchLimit
    BY <1>3, <2>1, <2>2 DEF PollChecked, Refused, Room, Asking, WorkerRow
  <2>. QED
    BY <1>3, <2>1, <2>3 DEF PollChecked, Asking
<1>4. ASSUME NEW j \in Jobs, PollClaim(h, j)
      PROVE  /\ poll' \in [Pollers -> Asking \cup {NoPoll}]
             /\ \E w \in Workers : GetNextJob(w, j)
  <2>1. poll[h] \in Asking
    BY <1>0, <1>4 DEF PollClaim
  <2>2. poll[h].room # 1 => [poll[h] EXCEPT !.room = poll[h].room - 1] \in Asking
    <3>1. poll[h].room \in 1 .. BatchLimit
      BY <2>1 DEF Asking
    <3>2. poll[h].room # 1 => poll[h].room - 1 \in 1 .. BatchLimit
      BY <3>1
    <3>. QED
      BY <2>1, <3>2 DEF Asking
  <2>3. poll[h].worker \in Workers
    BY <2>1 DEF Asking
  <2>4. poll' = [poll EXCEPT
                   ![h] = IF poll[h].room = 1 THEN NoPoll
                          ELSE [poll[h] EXCEPT !.room = poll[h].room - 1]]
    BY <1>4 DEF PollClaim
  <2>5. poll' \in [Pollers -> Asking \cup {NoPoll}]
    BY <2>2, <2>4
  <2>. QED
    BY <1>4, <2>3, <2>5 DEF PollClaim
<1>. QED
  BY <1>1, <1>2, <1>3, <1>4
  DEF Polling, Poll, PollRefused, PollUnchecked, PollEnds, PollChecked,
      PollClaim

\* Whom the monitor finds offline is a worker.
LEMMA ScanTypeOK ==
  ASSUME AssignmentTypeOK, ScanStep
  PROVE  /\ UNCHANGED <<queuePaused, beating, poll>>
         /\ scan' \in Scan
         /\ registry' \in [Workers -> WorkerRow]
         /\ UNCHANGED vars \/ HealthStep
<1>. USE DEF AssignmentTypeOK
<1>1. CASE ScanAll \/ ScanActive \/ ScanFails
  <2>1. \A all, offline \in SUBSET Workers :
          /\ NoScan \in Scan
          /\ [NoScan EXCEPT !.at = "all", !.all = all] \in Scan
          /\ [NoScan EXCEPT !.at = "marking", !.offline = offline,
                            !.left = offline] \in Scan
    BY DEF NoScan, Scan
  <2>2. {w \in Workers : Registered(w)} \in SUBSET Workers
    OBVIOUS
  <2>3. {w \in scan.all : ~Active(w)} \in SUBSET Workers
    BY DEF Scan
  <2>4. scan' \in Scan
    BY <1>1, <2>1, <2>2, <2>3 DEF ScanAll, ScanActive, ScanFails
  <2>. QED
    BY <1>1, <2>4 DEF ScanAll, ScanActive, ScanFails
<1>2. ASSUME NEW w \in scan.left, ScanMark(w)
      PROVE  /\ UNCHANGED <<vars, queuePaused, beating, poll>>
             /\ scan' \in Scan
             /\ registry' \in [Workers -> WorkerRow]
  <2>1. [registry[w] EXCEPT !.status = "offline"] \in WorkerRow
    BY DEF WorkerRow, Scan
  <2>2. scan' \in Scan
    BY <1>2 DEF ScanMark, Scan
  <2>. QED
    BY <1>2, <2>1, <2>2 DEF ScanMark
<1>3. CASE ScanHandsOver
  <2>1. scan.offline \in SUBSET Workers
    BY DEF Scan
  <2>. QED
    BY <1>3, <2>1 DEF ScanHandsOver, Scan, NoScan, HealthStep
<1>. QED
  BY <1>1, <1>2, <1>3 DEF ScanStep

\* A step of the composition is a step of the master, or no step of it.
LEMMA StepImplements ==
  ASSUME AssignmentTypeOK, [AssignmentNext]_allVars
  PROVE  [Next]_vars
<1>1. CASE \E w \in Workers : Roster(w)
  BY <1>1, RosterTypeOK
<1>2. CASE PauseQueue \/ ResumeQueue
  BY <1>2 DEF PauseQueue, ResumeQueue
<1>3. CASE \E h \in Pollers : Polling(h)
  BY <1>3, PollingTypeOK DEF Next, Table
<1>4. CASE ScanStep
  BY <1>4, ScanTypeOK DEF Next
<1>5. CASE AssignmentCrash
  BY <1>5 DEF AssignmentCrash, Next
<1>6. CASE Elsewhere
  BY <1>6 DEF Elsewhere, Next, Table, HealthStep
<1>7. CASE UNCHANGED allVars
  BY <1>7 DEF allVars
<1>. QED
  BY <1>1, <1>2, <1>3, <1>4, <1>5, <1>6, <1>7 DEF AssignmentNext

\* Every variable keeps its type: the room of a poll that may claim is never
\* empty, whatever load the worker reported.
THEOREM AssignmentTypeCorrect == AssignmentSpec => []AssignmentTypeOK
<1>1. AssignmentInit => AssignmentTypeOK
  <2>1. Unregistered \in WorkerRow /\ NoScan \in Scan
    BY DEF Unregistered, WorkerRow, NoScan, Scan
  <2>. QED
    BY <2>1, InitTypeOK DEF AssignmentInit, AssignmentTypeOK
<1>2. AssignmentTypeOK /\ [AssignmentNext]_allVars => AssignmentTypeOK'
  <2>. SUFFICES ASSUME AssignmentTypeOK, [AssignmentNext]_allVars
                PROVE  AssignmentTypeOK'
    OBVIOUS
  <2>1. TypeOK'
    BY StepImplements, NextTypeOK DEF AssignmentTypeOK
  <2>2. CASE \E w \in Workers : Roster(w)
    BY <2>1, <2>2, RosterTypeOK DEF AssignmentTypeOK
  <2>3. CASE PauseQueue \/ ResumeQueue
    BY <2>1, <2>3 DEF PauseQueue, ResumeQueue, AssignmentTypeOK
  <2>4. CASE \E h \in Pollers : Polling(h)
    BY <2>1, <2>4, PollingTypeOK DEF AssignmentTypeOK
  <2>5. CASE ScanStep
    BY <2>1, <2>5, ScanTypeOK DEF AssignmentTypeOK
  <2>6. CASE AssignmentCrash
    BY <2>1, <2>6 DEF AssignmentCrash, AssignmentTypeOK, NoScan, Scan
  <2>7. CASE Elsewhere \/ UNCHANGED allVars
    BY <2>1, <2>7 DEF Elsewhere, allVars, assignment, AssignmentTypeOK
  <2>. QED
    BY <2>2, <2>3, <2>4, <2>5, <2>6, <2>7 DEF AssignmentNext
<1>. QED
  BY <1>1, <1>2, PTL DEF AssignmentSpec

\* With the workers table, the polls and the scan in detail, the master still
\* implements MasterServer.
THEOREM AssignmentImplements == AssignmentSpec => ImplementsMasterServer
<1>1. AssignmentInit => Init
  BY DEF AssignmentInit
<1>2. AssignmentTypeOK /\ [AssignmentNext]_allVars => [Next]_vars
  BY StepImplements
<1>. QED
  BY <1>1, <1>2, AssignmentTypeCorrect, PTL
  DEF AssignmentSpec, ImplementsMasterServer, Spec

\* Hence rows name their claims here too, and so for the other theorems about
\* MasterServer.
THEOREM ClaimsNamedHere == AssignmentSpec => []RowNamesItsClaim
BY AssignmentImplements, RowsNameTheirClaims, PTL DEF ImplementsMasterServer

\* A heartbeat, a poll or a restart of the master never takes back the pause
\* of a worker.
THEOREM PauseOutlivesHeartbeats == AssignmentSpec => OnlySilenceUnpauses
<1>1. ASSUME AssignmentTypeOK, [AssignmentNext]_allVars, NEW w \in Workers,
             registry[w].status = "paused", registry'[w].status # "paused"
      PROVE  \/ ResumeWorker(w) \/ RemoveWorker(w)
             \/ scan.at = "marking" /\ w \in scan.left
  <2>. USE DEF AssignmentTypeOK
  <2>1. ASSUME NEW v \in Workers, Roster(v)
        PROVE  ResumeWorker(w) \/ RemoveWorker(w)
    <3>1. CASE Heartbeat(v)
      BY <1>1, <3>1 DEF Heartbeat, HeartbeatRow
    <3>2. CASE Silent(v) \/ Connect(v) \/ Disconnect(v) \/ PauseWorker(v)
      BY <1>1, <3>2 DEF Silent, Connect, Disconnect, PauseWorker, WorkerRow
    <3>3. CASE ResumeWorker(v) \/ RemoveWorker(v)
      <4>1. v = w
        BY <1>1, <3>3 DEF ResumeWorker, RemoveWorker
      <4>. QED
        BY <3>3, <4>1
    <3>. QED
      BY <2>1, <3>1, <3>2, <3>3 DEF Roster
  <2>2. ASSUME NEW h \in Pollers, Polling(h)
        PROVE  FALSE
    BY <1>1, <2>2, PollingTypeOK
  <2>3. CASE ScanStep
    BY <1>1, <2>3 DEF ScanStep, ScanAll, ScanActive, ScanFails, ScanMark,
       ScanHandsOver
  <2>4. ~(\/ PauseQueue \/ ResumeQueue \/ AssignmentCrash \/ Elsewhere
          \/ UNCHANGED allVars)
    BY <1>1 DEF PauseQueue, ResumeQueue, AssignmentCrash, Elsewhere, allVars,
       assignment
  <2>. QED
    BY <1>1, <2>1, <2>2, <2>3, <2>4 DEF AssignmentNext
<1>2. AssignmentTypeOK /\ [AssignmentNext]_allVars
        => [\A w \in Workers :
              registry[w].status = "paused" /\ registry'[w].status # "paused"
                => \/ ResumeWorker(w) \/ RemoveWorker(w)
                   \/ scan.at = "marking" /\ w \in scan.left]_allVars
  BY <1>1
<1>. QED
  BY <1>2, AssignmentTypeCorrect, PTL DEF AssignmentSpec, OnlySilenceUnpauses
=============================================================================
