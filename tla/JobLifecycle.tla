---------------------------- MODULE JobLifecycle ----------------------------
(***************************************************************************)
(* What the master promises of a job, without the handlers, monitors and   *)
(* races that bring it about: a state machine with one atomic action per   *)
(* thing that can happen to a job.  Each grant is a new lease; a lease     *)
(* ends once, by its job being finished, cancelled or put back.            *)
(***************************************************************************)
EXTENDS Naturals

CONSTANTS
  Jobs,
  MaxRetries,   \* retries an attempt may be charged before it fails for good
  MaxLeases     \* bound: leases granted in a behaviour

VARIABLES
  status,    \* of each job; "absent" if there is none
  retries,   \* retries charged to each job
  lease,     \* lease a job was last granted, 0 if none since it was pending
  granted    \* leases granted so far

vars == <<status, retries, lease, granted>>

Terminal == {"completed", "failed", "cancelled"}

Init ==
  /\ status = [j \in Jobs |-> "absent"]
  /\ retries = [j \in Jobs |-> 0]
  /\ lease = [j \in Jobs |-> 0]
  /\ granted = 0

Submit(j) ==
  /\ status[j] = "absent"
  /\ status' = [status EXCEPT ![j] = "pending"]
  /\ UNCHANGED <<retries, lease, granted>>

Grant(j) ==
  /\ status[j] = "pending" /\ granted < MaxLeases
  /\ granted' = granted + 1
  /\ status' = [status EXCEPT ![j] = "processing"]
  /\ lease' = [lease EXCEPT ![j] = granted + 1]
  /\ UNCHANGED retries

\* The attempt succeeds or fails; the lease stays on record.
Finish(j) ==
  /\ status[j] = "processing"
  /\ \E s \in {"completed", "failed"} : status' = [status EXCEPT ![j] = s]
  /\ UNCHANGED <<retries, lease, granted>>

Cancel(j) ==
  /\ status[j] \in {"pending", "processing"}
  /\ status' = [status EXCEPT ![j] = "cancelled"]
  /\ UNCHANGED <<retries, lease, granted>>

PutBack(j, r) ==
  /\ status' = [status EXCEPT ![j] = "pending"]
  /\ retries' = [retries EXCEPT ![j] = r]
  /\ lease' = [lease EXCEPT ![j] = 0]
  /\ UNCHANGED granted

\* Charged for an attempt that took too long, or that failed.
Retry(j) ==
  /\ \/ status[j] = "failed"
     \/ status[j] = "processing" /\ retries[j] < MaxRetries
  /\ PutBack(j, retries[j] + 1)

\* Not charged: the worker is lost, or an operator asks for it.
Requeue(j) ==
  /\ status[j] # "absent"
  /\ PutBack(j, retries[j])

Prune(S) ==
  /\ \A j \in S : status[j] \in Terminal
  /\ status' = [j \in Jobs |-> IF j \in S THEN "absent" ELSE status[j]]
  /\ retries' = [j \in Jobs |-> IF j \in S THEN 0 ELSE retries[j]]
  /\ lease' = [j \in Jobs |-> IF j \in S THEN 0 ELSE lease[j]]
  /\ UNCHANGED granted

Next ==
  \/ \E j \in Jobs : \/ Submit(j) \/ Grant(j) \/ Finish(j) \/ Cancel(j)
                     \/ Retry(j) \/ Requeue(j)
  \/ \E S \in SUBSET Jobs : Prune(S)

Spec == Init /\ [][Next]_vars

=============================================================================
