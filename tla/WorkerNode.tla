----------------------------- MODULE WorkerNode -----------------------------
(***************************************************************************)
(* One worker process: internal/worker/worker.go, the download of          *)
(* internal/client/master_client.go and internal/worker/cache_manager.go.  *)
(*                                                                         *)
(* Pollers take a slot of the job semaphore, ask the master for a job and  *)
(* pass the slot on to the goroutine that executes it: an attempt.         *)
(* Attempts of one job share the directory job_<id> of the local cache, so *)
(* two of them run over each other's files when the master hands the job   *)
(* out again before the first has ended.  The periodic cleanup deletes     *)
(* cached files whether or not an attempt is using them, and a killed      *)
(* process leaves its files to the next one.                               *)
(*                                                                         *)
(* The master is external: it answers anything the client distinguishes.   *)
(***************************************************************************)
EXTENDS Naturals, FiniteSets, Sequences

CONSTANTS
  Pollers,      \* processJobs goroutines; the semaphore has as many slots
  Jobs,         \* job ids
  NoJob,        \* names no job
  Blocks,       \* size of a source video, in blocks
  MaxTries,     \* maxRetries of DownloadSourceVideo
  MaxAttempts,  \* bound: jobs handed to this node in a behaviour
  MaxVersions,  \* bound: contents a source has had at the master
  MaxKills      \* bound: processes killed in a behaviour

ASSUME WorkerAssumption ==
  /\ IsFiniteSet(Pollers)
  /\ NoJob \notin Jobs
  /\ Blocks \in Nat \ {0} /\ MaxTries \in Nat \ {0}
  /\ MaxAttempts \in Nat /\ MaxVersions \in Nat \ {0} /\ MaxKills \in Nat

VARIABLES
  up,        \* the process: "up", "stopping" once its context is cancelled, "down"
  poller,    \* where each processJobs goroutine is
  slots,     \* slots of jobSemaphore in use
  attempt,   \* the executeJob goroutines
  disk,      \* the directory job_<id> of each job
  version,   \* content of each source at the master
  resume,    \* enable_resume_download
  checksum,  \* whether jobs carry a source checksum (of the first version)
  leftover,  \* directories that a killed process left behind
  mixed,     \* jobs whose directory twins had been at work in when that happened
  kills      \* processes killed so far

vars == <<up, poller, slots, attempt, disk, version, resume, checksum,
          leftover, mixed, kills>>

-----------------------------------------------------------------------------
(* Types.                                                                  *)

Attempts == 1 .. MaxAttempts
Versions == 1 .. MaxVersions
Garbled  == 0      \* a block that is not what belongs at its place

\* A source file is absent or the versions its blocks came from.
NoFile == [there |-> FALSE, blocks |-> <<>>]
FileOf(s) == [there |-> TRUE, blocks |-> s]

\* An output is the attempt whose ffmpeg opened it last, and whether it is whole.
NoOutput == [by |-> 0, whole |-> FALSE]

NoDir == [made |-> FALSE, source |-> NoFile, output |-> NoOutput]

Phases == {"stat", "asked", "copying", "checked", "converting",
           "uploading", "sending", "failed"}

\* twin: another attempt of the same job has run at the same time, or two had
\* been running in the process whose files it finds.
\* linked: the open file is still the one under its name.
\* whole: what ffmpeg was given was one whole version of the source, and later
\* that what is uploaded is all that came of it.
Attempt == [phase : Phases, job : Jobs, try : 1 .. MaxTries, offset : Nat,
            left : Nat, append : BOOLEAN, linked : BOOLEAN, twin : BOOLEAN,
            whole : BOOLEAN]

Gone(p) == [phase |-> p, job |-> NoJob, try |-> 1, offset |-> 0, left |-> 0,
            append |-> FALSE, linked |-> FALSE, twin |-> FALSE, whole |-> FALSE]

Running(a) == attempt[a].phase \in Phases
RunningFor(j) == {a \in Attempts : Running(a) /\ attempt[a].job = j}

Asking == {p \in Pollers : poller[p] = "asking"}

Files == Jobs \X {"source", "output"}
Exists(f) == IF f[2] = "source" THEN disk[f[1]].source.there
                                ELSE disk[f[1]].output # NoOutput

TypeOK ==
  /\ up \in {"up", "stopping", "down"}
  /\ poller \in [Pollers -> {"idle", "asking", "stopped"}]
  /\ slots \in Nat
  /\ attempt \in [Attempts -> Attempt \cup {Gone("unborn"), Gone("over")}]
  /\ disk \in [Jobs -> [made   : BOOLEAN,
                        source : [there  : BOOLEAN,
                                  blocks : Seq(Versions \cup {Garbled})],
                        output : [by : 0 .. MaxAttempts, whole : BOOLEAN]]]
  /\ version \in [Jobs -> Versions]
  /\ resume \in BOOLEAN /\ checksum \in BOOLEAN
  /\ leftover \subseteq Jobs /\ mixed \subseteq Jobs
  /\ kills \in 0 .. MaxKills

Init ==
  /\ up = "up"
  /\ poller = [p \in Pollers |-> "idle"]
  /\ slots = 0
  /\ attempt = [a \in Attempts |-> Gone("unborn")]
  /\ disk = [j \in Jobs |-> NoDir]
  /\ version = [j \in Jobs |-> 1]
  /\ resume \in BOOLEAN
  /\ checksum \in BOOLEAN
  /\ leftover = {} /\ mixed = {}
  /\ kills = 0

fixed == <<resume, checksum>>
behind == <<leftover, mixed>>
world == <<version, kills, fixed>>

-----------------------------------------------------------------------------
(* The pollers.                                                            *)

\* The loop does not look at the context before it asks again.
Acquire_Regardless(p) ==
  /\ up # "down"
  /\ poller[p] = "idle"
  /\ slots < Cardinality(Pollers)
  /\ poller' = [poller EXCEPT ![p] = "asking"]
  /\ slots' = slots + 1
  /\ UNCHANGED <<up, attempt, disk, behind, world>>

\* A free slot is taken before a job is asked for, never after the context
\* has been seen cancelled at the head of the loop.  The poller then waits for
\* the rate limiter and the answer.
Acquire(p) ==
  /\ up = "up"
  /\ poller[p] = "idle"
  /\ slots < Cardinality(Pollers)
  /\ poller' = [poller EXCEPT ![p] = "asking"]
  /\ slots' = slots + 1
  /\ UNCHANGED <<up, attempt, disk, behind, world>>

\* No job, or no answer: the slot goes back.  How long the poller then waits,
\* the backoff or the check interval, is left out.
NotAnswered(p) ==
  /\ poller[p] = "asking"
  /\ poller' = [poller EXCEPT ![p] = "idle"]
  /\ slots' = slots - 1
  /\ UNCHANGED <<up, attempt, disk, behind, world>>

\* A job: its goroutine takes the slot over.
Answered(p, j, a) ==
  /\ poller[p] = "asking"
  /\ attempt[a].phase = "unborn"
  /\ \A b \in Attempts : b < a => attempt[b].phase # "unborn"
  /\ poller' = [poller EXCEPT ![p] = "idle"]
  /\ LET twins == RunningFor(j) IN
       attempt' = [b \in Attempts |->
                     IF b = a THEN [Gone("stat") EXCEPT !.job  = j,
                                                       !.twin = twins # {} \/ j \in mixed]
                     ELSE IF b \in twins THEN [attempt[b] EXCEPT !.twin = TRUE]
                     ELSE attempt[b]]
  /\ UNCHANGED <<up, slots, disk, behind, world>>

\* The rate limiter's wait returns on shutdown without releasing the slot.
StopPoller_KeepsSlot(p) ==
  /\ up = "stopping"
  /\ poller[p] # "stopped"
  /\ poller' = [poller EXCEPT ![p] = "stopped"]
  /\ UNCHANGED <<up, slots, attempt, disk, behind, world>>

\* Wherever a poller waits it also waits for the context.
StopPoller(p) ==
  /\ up = "stopping"
  /\ poller[p] # "stopped"
  /\ poller' = [poller EXCEPT ![p] = "stopped"]
  /\ slots' = IF poller[p] = "asking" THEN slots - 1 ELSE slots
  /\ UNCHANGED <<up, attempt, disk, behind, world>>

-----------------------------------------------------------------------------
(* Download.                                                               *)

Move(a, phase) == attempt' = [attempt EXCEPT ![a].phase = phase]

unpolled == <<up, poller, slots, behind, world>>

MakeDir(j) == disk' = [disk EXCEPT ![j].made = TRUE]

\* The retry loop forgets its bound.
Retried_ForEver(r) ==
  [r EXCEPT !.phase = "stat", !.try = @ + 1, !.offset = 0, !.left = 0,
            !.append = FALSE, !.linked = FALSE]

\* The attempt of the loop has failed; on the last one, or when the context is
\* cancelled during the backoff, so has the download.
Retried(r) ==
  LET idle == [r EXCEPT !.offset = 0, !.left = 0, !.append = FALSE,
                        !.linked = FALSE]
  IN IF r.try < MaxTries /\ up = "up"
       THEN [idle EXCEPT !.phase = "stat", !.try = @ + 1]
       ELSE [idle EXCEPT !.phase = "failed"]

\* Writers of a file that is deleted go on writing to what has no name.
Unlink(j, who) ==
  [b \in Attempts |-> IF attempt[b].job = j
                        THEN [who[b] EXCEPT !.linked = FALSE] ELSE who[b]]

\* The directory is made; a file that is there already decides where the
\* request will start.
StatPartial(a) ==
  LET j == attempt[a].job IN
  /\ attempt[a].phase = "stat"
  /\ MakeDir(j)
  /\ attempt' = [attempt EXCEPT
       ![a].phase  = "asked",
       ![a].offset = IF resume THEN Len(disk[j].source.blocks) ELSE 0]
  /\ UNCHANGED unpolled

\* What DownloadVideo makes of the header "bytes=<offset>-".  Without an offset
\* there is no header and the whole file is the answer.
Unranged(offset)    == offset = 0
Satisfiable(offset) == offset < Blocks
Remaining(offset)   == Blocks - offset

RequestFails(a) ==
  /\ attempt[a].phase = "asked"
  /\ attempt' = [attempt EXCEPT ![a] = Retried(@)]
  /\ UNCHANGED <<disk, unpolled>>

\* 4xx but 408 and 429: the job is not processing any more, or has no file.
RequestRefused(a) ==
  /\ attempt[a].phase = "asked"
  /\ Move(a, "failed")
  /\ UNCHANGED <<disk, unpolled>>

\* 416: no byte beyond the offset.  The partial file is discarded.
RangeRefused(a) ==
  LET j == attempt[a].job IN
  /\ attempt[a].phase = "asked"
  /\ ~ Unranged(attempt[a].offset) /\ ~ Satisfiable(attempt[a].offset)
  /\ disk' = [disk EXCEPT ![j].source = NoFile]
  /\ attempt' = Unlink(j, [attempt EXCEPT ![a] = Retried(@)])
  /\ UNCHANGED unpolled

\* 200: the file is created, or truncated, and all of it is on its way.
\* Creating it fails when a twin has removed the directory meanwhile.
FullAnswer(a) ==
  LET j == attempt[a].job IN
  /\ attempt[a].phase = "asked"
  /\ Unranged(attempt[a].offset)
  /\ IF disk[j].made
       THEN /\ disk' = [disk EXCEPT ![j].source = FileOf(<<>>)]
            /\ attempt' = [attempt EXCEPT ![a].phase  = "copying",
                                          ![a].left   = Remaining(0),
                                          ![a].append = FALSE,
                                          ![a].linked = TRUE]
       ELSE /\ attempt' = [attempt EXCEPT ![a] = Retried(@)]
            /\ UNCHANGED disk
  /\ UNCHANGED unpolled

\* A resumed download opens its file with O_CREATE.
PartialAnswer_Creates(a) ==
  LET j == attempt[a].job IN
  /\ attempt[a].phase = "asked"
  /\ ~ Unranged(attempt[a].offset) /\ Satisfiable(attempt[a].offset)
  /\ attempt' = [attempt EXCEPT ![a].phase  = "copying",
                                ![a].left   = Remaining(attempt[a].offset),
                                ![a].append = TRUE,
                                ![a].linked = TRUE]
  /\ disk' = [disk EXCEPT ![j].source.there = TRUE]
  /\ UNCHANGED unpolled

\* 206: the rest goes to the end of the file, which must still be there.
PartialAnswer(a) ==
  LET j == attempt[a].job IN
  /\ attempt[a].phase = "asked"
  /\ ~ Unranged(attempt[a].offset) /\ Satisfiable(attempt[a].offset)
  /\ attempt' = [attempt EXCEPT ![a] =
       IF disk[j].source.there
         THEN [@ EXCEPT !.phase = "copying", !.left = Remaining(attempt[a].offset),
                        !.append = TRUE, !.linked = TRUE]
         ELSE Retried(@)]
  /\ UNCHANGED <<disk, unpolled>>

\* s with block b put at position i: bytes never written read as zeroes.
Put(s, i, b) ==
  [k \in 1 .. (IF i > Len(s) THEN i ELSE Len(s)) |->
     IF k = i THEN b ELSE IF k <= Len(s) THEN s[k] ELSE Garbled]

\* io.Copy brings one more block, to the writer's own position or, in append
\* mode, to the end of the file as it is now.
CopyBlock(a) ==
  LET r  == attempt[a]
      s  == disk[r.job].source.blocks
      at == Blocks - r.left + 1
      to == IF r.append THEN Len(s) + 1 ELSE at
      b  == IF to = at THEN version[r.job] ELSE Garbled
  IN /\ r.phase = "copying"
     /\ r.left > 0
     /\ attempt' = [attempt EXCEPT ![a].left = @ - 1]
     /\ disk' = IF r.linked
                  THEN [disk EXCEPT ![r.job].source = FileOf(Put(s, to, b))]
                  ELSE disk
     /\ UNCHANGED unpolled

\* The connection breaks: without resume the file is removed.
CopyFails(a) ==
  LET j == attempt[a].job IN
  /\ attempt[a].phase = "copying"
  /\ IF resume
       THEN /\ attempt' = [attempt EXCEPT ![a] = Retried(@)]
            /\ UNCHANGED disk
       ELSE /\ attempt' = Unlink(j, [attempt EXCEPT ![a] = Retried(@)])
            /\ disk' = [disk EXCEPT ![j].source = NoFile]
  /\ UNCHANGED unpolled

-----------------------------------------------------------------------------
(* Checksum, conversion, upload, report.                                   *)

OneVersion(s, v) == s = [k \in 1 .. Blocks |-> v]

\* As many bytes as announced have been written: that is all the download
\* compares.  VerifyChecksum then reads the file again, if the job has one.
VerifyChecksum(a) ==
  LET file == disk[attempt[a].job].source IN
  /\ attempt[a].phase = "copying"
  /\ attempt[a].left = 0
  /\ attempt' = [attempt EXCEPT
       ![a].phase  = IF checksum => file.there /\ OneVersion(file.blocks, 1)
                       THEN "checked" ELSE "failed",
       ![a].offset = 0, ![a].append = FALSE, ![a].linked = FALSE]
  /\ UNCHANGED <<disk, unpolled>>

\* ffmpeg -y: the input is opened and the output truncated.
StartConversion(a) ==
  LET j == attempt[a].job
      file == disk[j].source
  IN /\ attempt[a].phase = "checked"
     /\ IF file.there
          THEN /\ attempt' = [attempt EXCEPT
                    ![a].phase = "converting",
                    ![a].whole = \E v \in Versions : OneVersion(file.blocks, v)]
               /\ disk' = [disk EXCEPT
                    ![j].made = TRUE,
                    ![j].output = [by |-> a, whole |-> FALSE]]
          ELSE /\ Move(a, "failed")
               /\ disk' = [disk EXCEPT ![j].made = TRUE]
     /\ UNCHANGED unpolled

\* The exit status of ffmpeg is not looked at: the output exists.
ConversionFails_Unnoticed(a) ==
  /\ attempt[a].phase = "converting"
  /\ Move(a, "uploading")
  /\ UNCHANGED <<disk, unpolled>>

ConversionFails(a) ==
  /\ attempt[a].phase = "converting"
  /\ Move(a, "failed")
  /\ UNCHANGED <<disk, unpolled>>

\* ffmpeg has ended well; ValidateOutput asks for a file of some size, and so
\* takes the one a twin has started over meanwhile.
EndConversion(a) ==
  LET j == attempt[a].job IN
  /\ attempt[a].phase = "converting"
  /\ disk' = [disk EXCEPT ![j].output.whole =
                @ \/ (disk[j].output.by = a /\ attempt[a].whole)]
  /\ Move(a, IF disk[j].output # NoOutput THEN "uploading" ELSE "failed")
  /\ UNCHANGED unpolled

\* executeJob returns: os.RemoveAll(job_<id>), deferred.  The failure, if it
\* was one, is reported or the report is lost, and the slot is given back.
EndAttempt(a) ==
  LET j == attempt[a].job IN
  /\ disk' = [disk EXCEPT ![j] = NoDir]
  /\ attempt' = Unlink(j, [attempt EXCEPT ![a] = Gone("over")])
  /\ leftover' = leftover \ {j} /\ mixed' = mixed \ {j}
  /\ slots' = slots - 1
  /\ UNCHANGED <<up, poller, world>>

\* uploadConvertedVideoAttempt opens the output.
OpenOutput(a) ==
  LET output == disk[attempt[a].job].output IN
  /\ attempt[a].phase = "uploading"
  /\ attempt' = [attempt EXCEPT
       ![a].phase = IF output # NoOutput THEN "sending" ELSE "failed",
       ![a].whole = output.whole]
  /\ UNCHANGED <<disk, unpolled>>

EndUpload(a) ==
  /\ attempt[a].phase = "sending"
  /\ EndAttempt(a)

UploadFails(a) ==
  /\ attempt[a].phase = "sending"
  /\ Move(a, "failed")
  /\ UNCHANGED <<disk, unpolled>>

\* Only an attempt that succeeds cleans up behind itself.
EndFailed_KeepsDir(a) ==
  /\ attempt[a].phase = "failed"
  /\ attempt' = [attempt EXCEPT ![a] = Gone("over")]
  /\ slots' = slots - 1
  /\ UNCHANGED <<up, poller, disk, behind, world>>

EndFailed(a) ==
  /\ attempt[a].phase = "failed"
  /\ EndAttempt(a)

-----------------------------------------------------------------------------
(* Cleanup, shutdown, death; the source at the master.                     *)

\* Cleanup has listed the files and decided which are too old or too many;
\* by the time it comes to one, whatever is under that name is removed.
Evict(f) ==
  /\ up # "down"
  /\ Exists(f)
  /\ disk' = IF f[2] = "source" THEN [disk EXCEPT ![f[1]].source = NoFile]
                                ELSE [disk EXCEPT ![f[1]].output = NoOutput]
  /\ attempt' = IF f[2] = "source" THEN Unlink(f[1], attempt) ELSE attempt
  /\ UNCHANGED <<up, poller, slots, behind, world>>

\* SIGTERM: Shutdown cancels the context.
Cancel ==
  /\ up = "up"
  /\ up' = "stopping"
  /\ UNCHANGED <<poller, slots, attempt, disk, behind, world>>

\* All goroutines have ended.
Exit ==
  /\ up = "stopping"
  /\ \A p \in Pollers : poller[p] = "stopped"
  /\ \A a \in Attempts : ~ Running(a)
  /\ up' = "down"
  /\ UNCHANGED <<poller, slots, attempt, disk, behind, world>>

\* The process is killed, or Shutdown has waited its two minutes.
Kill ==
  /\ up # "down"
  /\ kills < MaxKills
  /\ kills' = kills + 1
  /\ up' = "down"
  /\ poller' = [p \in Pollers |-> "stopped"]
  /\ slots' = 0
  /\ attempt' = [a \in Attempts |-> IF Running(a) THEN Gone("over") ELSE attempt[a]]
  /\ leftover' = {j \in Jobs : disk[j].made}
  /\ mixed' = {j \in Jobs : j \in mixed \/ \E a \in RunningFor(j) : attempt[a].twin}
  /\ UNCHANGED <<disk, version, fixed>>

Restart ==
  /\ up = "down"
  /\ \E a \in Attempts : attempt[a].phase = "unborn"
  /\ up' = "up"
  /\ poller' = [p \in Pollers |-> "idle"]
  /\ UNCHANGED <<slots, attempt, disk, behind, world>>

\* The source is overwritten at the master.
ReplaceSource(j) ==
  /\ version[j] < MaxVersions
  /\ version' = [version EXCEPT ![j] = @ + 1]
  /\ UNCHANGED <<up, poller, slots, attempt, disk, behind, kills, fixed>>

PollerStep(p) ==
  \/ Acquire(p)
  \/ NotAnswered(p)
  \/ \E j \in Jobs, a \in Attempts : Answered(p, j, a)
  \/ StopPoller(p)

AttemptStep(a) ==
  \/ StatPartial(a)
  \/ RequestFails(a)
  \/ RequestRefused(a)
  \/ RangeRefused(a)
  \/ FullAnswer(a)
  \/ PartialAnswer(a)
  \/ CopyBlock(a)
  \/ CopyFails(a)
  \/ VerifyChecksum(a)
  \/ StartConversion(a)
  \/ ConversionFails(a)
  \/ EndConversion(a)
  \/ OpenOutput(a)
  \/ EndUpload(a)
  \/ UploadFails(a)
  \/ EndFailed(a)

Next ==
  \/ \E p \in Pollers : PollerStep(p)
  \/ \E a \in Attempts : AttemptStep(a)
  \/ \E f \in Files : Evict(f)
  \/ Cancel
  \/ Exit
  \/ Kill
  \/ Restart
  \/ \E j \in Jobs : ReplaceSource(j)

Spec == Init /\ [][Next]_vars

\* The goroutines go on: requests, transfers and ffmpeg end by their own
\* timeouts, and a poller that waits also waits for the context.  Nothing is
\* assumed of SIGTERM, of kills, or of what the master answers.
Goroutines ==
  \/ \E p \in Pollers : PollerStep(p)
  \/ \E a \in Attempts : AttemptStep(a)
  \/ Exit

Fairness == WF_vars(Goroutines)

FairSpec == Spec /\ Fairness

-----------------------------------------------------------------------------
(* Properties.                                                             *)

\* The slot taken before a job is asked for travels with the job and comes
\* back exactly once, whatever way the attempt or the poller ends: what is in
\* use is what pollers hold and what attempts run on, never more than the
\* configured concurrency (worker.go, "at most 'concurrency' jobs").
SlotsAccounted ==
  /\ slots = Cardinality(Asking) + Cardinality({a \in Attempts : Running(a)})
  /\ slots <= Cardinality(Pollers)

\* What ffmpeg is given is one whole version of the source, unless a second
\* attempt of the job ran at the same time (or two had, in the killed process
\* whose files it finds), or the source was replaced and the job has no
\* checksum: not so after retries, resumed downloads, a cleanup that deletes the
\* file while it is written, or a crash that left half of it.
ConvertsWholeSource ==
  \A a \in Attempts :
    attempt[a].phase = "converting" /\ ~ attempt[a].twin =>
      attempt[a].whole \/ (~ checksum /\ version[attempt[a].job] > 1)

\* The same of what is sent to the master: an output that the cleanup deleted,
\* or that a killed process left unfinished, is never uploaded.
UploadsWholeOutput ==
  \A a \in Attempts :
    attempt[a].phase = "sending" /\ ~ attempt[a].twin =>
      attempt[a].whole \/ (~ checksum /\ version[attempt[a].job] > 1)

\* A job directory belongs to a running attempt of the job or was left behind
\* by a process that was killed: no way of ending an attempt leaves one, even
\* when twins create and remove it under each other.
DirectoriesOwned ==
  \A j \in Jobs : disk[j].made => RunningFor(j) # {} \/ j \in leftover

\* SIGTERM drains: no poller takes another job, no retry goes on for ever, no
\* attempt waits for a slot, and the process exits without being killed.
ShutdownDrains == up = "stopping" ~> up = "down"

=============================================================================
