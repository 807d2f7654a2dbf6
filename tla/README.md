# DarkStream in TLA+

DarkStream distributes video conversions: a master keeps a queue of jobs in
SQLite, workers poll it over HTTP, download the source, convert it with ffmpeg
and upload the result. This directory holds TLA+ specifications of its core
logic, TLC configurations that check them on small instances, and proofs that
hold for all instances.

Paths below are relative to `src/`; `master/` stands for
`video-converter-master/internal/`, `worker/` for
`video-converter-worker/internal/`.

## 1. The system

| Part | State | Operations | Talks to |
|---|---|---|---|
| Job tracker, `master/db/tracker.go` | tables `jobs`, `workers`, `job_progress` | one guarded SQL statement per method; the claim is one `BEGIN IMMEDIATE` transaction | called by the next three |
| HTTP server, `master/server/http.go` | pause flag, rate limiter, metrics; one goroutine per request | next-job, job-complete, job-failed, heartbeat, upload, download, progress; retry, requeue, cancel, prune, priority, pause | tracker, output files, notifier |
| Coordinator, `master/coordinator/coordinator.go` | two monitor goroutines, a scan goroutine, the watcher | detect offline workers, time out and retry jobs, scan | tracker, server, scanner |
| Scanner and watcher, `master/scanner/` | debounce timers, a channel of paths | create jobs for files, skip duplicates | tracker |
| Configuration manager, `master/config/manager.go` | configuration in memory and in a file | get, validated update, save | HTTP server |
| Notifier, `master/notifier/webhook.go` | bounded queue, four sender goroutines | notify, shut down | server, coordinator |
| Worker, `worker/worker/worker.go` | poll loop, semaphore, backoff, cache directories | claim, run a job, heartbeat, shut down | master client, converter |
| Master client, `worker/client/` | one HTTP client, cached configuration | download with resume, streamed upload, report, retries | HTTP server |
| Converter, `worker/converter/` | none | build a command line, run ffmpeg, validate the result | external programs |
| CLI, `video-converter-cli/` | none | one HTTP call per command | HTTP server |
| Web UI, metrics, logging | display only | | |

### Where it is hard

The master has no lock around a job. Every handler and monitor reads a row,
decides, and later issues an UPDATE whose WHERE clause repeats what it has
read: the status, sometimes the worker, and `started_at`, the time of the
claim, which serves as the identity of the attempt. Whether that suffices is
the question of the first modules. A job can be claimed, its worker be declared
offline, the job be claimed again, and only then the first worker's report
arrive; meanwhile an operator may cancel, requeue or prune it and the master
may die. Further difficulties, by part:

* pause flags and worker status are read before the claim, and the status has
  three writers (heartbeat, monitor, operator);
* an upload replaces the output file before it updates the row;
* the worker's cache directory is named for the job, not the attempt;
* download and upload are retried, the upload through a pipe with a second
  goroutine;
* configuration updates write one temporary file, outside the lock, and the
  workers fetch what is in memory while the file is being replaced;
* timers fire while the watcher closes its channel; notifications arrive while
  the notifier drains; the database is closed when the listener returns.

`PROJECT.json` lists each hazard at its line with the properties that cover it.

### What makes the parts correct

* Jobs: a claim has one owner; a failure is counted once; a finished job stays
  finished unless an operator asks; reports count only from the holder; every
  claim ends; every failed job with retries left is retried; recorded output
  exists.
* Assignment: a paused worker or queue gets no job; the limit of jobs per worker.
* Worker: at most `max_concurrent_jobs` at a time, every claimed job reported or
  left to the time-out, caches of running jobs left alone.
* Transfer: what is converted is the source, whole; what is stored is the file
  that was sent, whole.
* Configuration: memory and file agree after every update and a restart.
* Watcher, notifier, shutdown: no send on a closed channel, nothing accepted
  and lost, no use of a closed database.

## 2. What is modelled

### `JobStore`: the jobs table

Constant-level operators on one row of `jobs`. A guarded UPDATE is a pair: the
WHERE clause (`ResetMatches`, `HeldBy`, `CancelMatches`) and the row its SET
clause leaves (`PendingAgain`, `CompletedRow`, `FailedRow`, `CancelledRow`).
`ClaimedRow` is the claim, `Prunes` the DELETE, and `OfWorker`, `TimedOut`,
`Retryable` are the monitors' queries.

`started_at` is abstracted to the number of the claim that wrote it. That takes
for granted that two claims of one job never get the same time stamp (they are
nanosecond times with at least one other transaction between them) and that the
driver gives back the stamp it stored. A batch claim (`GetNextJobs`) gives all
its jobs one time; since stamps are compared within a row only, each of them is
a claim of its own in the model. A checksum is the number of the claim
whose conversion produced the file. Operators named `X_Something` are faulty
variants of `X`; nothing uses them but the mutation of a run.

### `MasterServer`: handlers, monitors, uploads, crashes

| Variable | Code |
|---|---|
| `jobs` | table `jobs` |
| `file` | the file at each job's output path |
| `claims`, `attempt` | claims made so far, and the worker's side of each |
| `aged` | which claims are older than `job_timeout` |
| `req[h]` | locals of a request goroutine between its read and its UPDATE |
| `health`, `retrier` | locals of `monitorWorkerHealth` and `monitorFailedJobs` |
| `crashes` | counts restarts, to bound them |

Each handler is two actions, `Recv...` (the SELECT and the early returns) and
the UPDATE with the answer; `UploadVideo` is four (read, rename, checksum,
update). `RequestFails` is a request that dies of an I/O or SQL error after its
read. The monitors do one statement per step: `HealthTick`, `HealthCollect`,
`HealthReassign`, `HealthFindStale`, `HealthTimeOut`, and `HealthQueryFails`,
`HealthUpdateFails` for errors; `RetryTick`, `RetryFailed`, `RetrySkipped`.
`Crash` empties every goroutine and keeps table and files.

What an environment may do is left free: any set of workers may be found
offline by a tick (the `workers` table is in `Assignment`); an attempt
may vanish, upload twice, or report after its job was taken away; the answer to
a claim may be lost.

Simplifications: a bulk retry or cancel is the corresponding single operation
on each job; the order in which jobs are claimed, progress, metrics and webhooks
are left out; a claim that returns several jobs is several claims.

### `JobLifecycle`: what the master promises

The state machine of a job with atomic steps: submit, grant, finish, cancel,
retry (charged), requeue (not charged), prune. `MasterServer` implements it
under `Lifecycle`, which maps status, retries and stamp of each row and the
claim counter.

### `Assignment`: the workers table and the way to a claim

Extends `MasterServer`, keeps its variables and adds:

| Variable | Code |
|---|---|
| `queuePaused` | the flag of `PauseQueue`, in memory only |
| `registry` | table `workers`: status, whether `last_heartbeat` is recent, reported load |
| `beating` | workers whose heartbeats get through |
| `poll[h]` | locals of `GetNextJob` or `GetNextJobs` between pause flag, check and claim |
| `scan` | locals of `monitorWorkerHealth` between its two queries and the markings |

`PollClaim` takes the claim of `MasterServer`, `ScanHandsOver` its
`HealthTick`, now with the workers the scan has found; the rest of
`MasterServer` runs beside it (`Elsewhere`). So the composition implements
`MasterServer`, which is checked and proved, and whatever is shown of that module
holds here. `GetNextJob` is a poll with limit 1. Polls do not depend on
heartbeats: the two fail independently.

Simplifications: a batch is one claim after the other, where the code has one
transaction, so other steps may come between (more behaviours, none fewer); the
clocks of a worker and of the database agree, since `last_heartbeat` is the
worker's time; two minutes is one threshold for the poll and the monitor, as in the
code. `poll[h].barred` is a history variable: the worker was paused when the
request came, nobody has resumed or removed it since, and the check was made.

### `WorkerNode`: pollers, attempts and the local cache

| Variable | Code |
|---|---|
| `up` | the process and its context |
| `poller[p]`, `slots` | `processJobs` goroutines and `jobSemaphore` |
| `attempt[a]` | `executeJob` goroutines with the locals of the download's retry loop |
| `disk[j]` | the directory `job_<id>`: source and output file |
| `version[j]` | the content of the source at the master |
| `leftover`, `mixed`, `kills` | directories a killed process has left, those in which two attempts were at work, and how often that was |

A file is the sequence of the versions its blocks came from; a block at the
wrong place is `Garbled`. So appending to a file that another goroutine has
truncated, writing to a file that has been unlinked, and resuming at the size
of something else have the effect they have in the file system. `StatPartial`
to `CopyFails` are one attempt of the download with its answers 200, 206, 416,
other 4xx and errors; `VerifyChecksum` to `EndFailed` are the rest of
`executeJob` with its deferred calls. An attempt is a `twin` once another has run
for its job at the same time, or when it finds the files of such twins in the
directory of a killed process (`mixed`). Both are history: the code keeps no
such marks, and the properties about the content of files need them. `Evict` is one `os.Remove` of the cache
cleanup, of any file at any time, so whatever age or size limits choose is
covered. The master is external: it answers anything the client distinguishes
and may hand a job out again while its first attempt is running.

Simplifications: backoffs have no duration; `os.RemoveAll` is one step; the
retries of the upload are in `Upload`; the size of a source never changes; an
ffmpeg that outlives its killed parent is left out; heartbeats are in
`Assignment`.

### `Upload`: one upload

The upload loop of the client (`client`, `try`), the goroutine that writes the
multipart form (`writer`, `told`) into a pipe, what the master has received
(`body`) and its `answer`. The writer's two deferred closes are steps of their
own, in the order in which Go runs them. What a successful upload does to the
table is in `MasterServer`.

### `Configuration`: from an update to the settings of a job

| Variable | Code |
|---|---|
| `config`, `life` | `Manager.config`, and which start of the master this is |
| `update[a]`, `file`, `temp` | requests in `Manager.Update`, and the two files |
| `own`, `boot` | the worker's row in `worker_config`, and its start from `/api/worker/config` |
| `poller[p]`, `cached`, `fresh`, `fetching` | goroutines in `FetchConfig`, and the fetcher |
| `key`, `trouble`, `stopping` | API key; a request of the worker has failed; its context |

`Update` is `UpdateConfig` (lock, validation, memory), `OpenTemp`, `WriteTemp`
and `Rename`; an open handle follows its file when the name moves, and writing
a short file over a long one leaves a torn file. `SaveFails` is a full disk at
either point. `Crash`, `EditFile` and `StartMaster` are the end of the process,
an edit by hand while it is down, and `NewManager`. A fetch is `BeginFetch`,
`GetConfig` at the master, `Receive`, `EndFetch`; `Wait` is the bounded wait of
the others. `FirstFetch` is the fetch of `Worker.Start`, before there is any job:
it is not counted as a fall-back, and `Starts` has its two ends, the worker goes
on, or `Start` returns the error when the worker has no settings of its own (a
worker started with `-url` has those of the master). `StartJob` is a job's
fetch, of a worker that has started. Of the start, `boot` and `own`, the
properties use only that its fetch comes before any poller; its reading of the
settings in two steps is there for what a later version may promise of it.
Versions number the configurations of one life of the master;
fields are not told apart, except valid from invalid and short from long. (The
update replaces the whole record; `docs/API.md:471` speaks of partial updates.)

### `Intake`: from files to jobs

| Variable | Code |
|---|---|
| `disk`, `events` | the files, and notifications not yet read |
| `tracked`, `armed`, `loose` | `pendingFiles`, the timers in it that run, and timers that run for a path no longer in it |
| `proc[p]` | what the scan, the watch loop and each timer callback are doing |
| `seen`, `found` | `seenHashes`, and the list of jobs of the scan under way |
| `channel`, `listener`, `held` | the channel `Jobs` and `listenWatcherEvents` |
| `rows`, `fails`, `unread` | the jobs table: per path, whether there is a job, of what content and with which checksum; how many insertions and readings have failed |
| `doubled`, `missed` | history: contents of which a second job was inserted; contents of files that could not be read or asked about, or changed between the two readings |

`TakeUp`, `MakeJob`, `SendJob` are the parts of `ProcessFile` and `sendJob` that
another goroutine can come between; `BeginCallback` is
`processEventDebounced`, which removes the path from `pendingFiles` also when the
timer there has been started again. `BeginClose` to `CloseChannels` are `Close`.

The errors of duplicate detection are those of the code. When the first reading
fails, nothing is looked up or recorded and the file goes on as new (third case
of `TakeUp`); when the database cannot be asked, the file counts as new; when
the second reading fails, the job is made with an empty checksum, which no later
query finds (third case of `MakeJob`, and `HasJob`). Each is only logged. `Content`
gives each file what it holds when complete; a file still being written holds
something of its own.

Simplifications: `detect_duplicates` is on; a complete file is not overwritten;
a file that exists never fails its `os.Stat`; the table is asked and the file
read again in one step; removed files and directories, jobs that end, and the
filters by name, size and depth are left out.

### `MasterProcess`: start, notifications, shutdown

| Variable | Code |
|---|---|
| `main`, `signal` | `Coordinator.Start`, and the goroutine that waits for the signal |
| `server`, `stopping`, `grace` | `Server.Start`, `http.Server.Shutdown`, its ten seconds |
| `cancelled`, `dbOpen` | the coordinator's context, and the database |
| `actor[a]` | every loop, request and progress stream |
| `notifier[n]` | closed, queued, being delivered: of the server and of the coordinator |
| `job[s]` | the job that stream `s` follows |

`Server.Shutdown` has two callers, the goroutine of the signal and, when the
server has failed, the main one; each of its steps is one action with the caller
as its parameter. `EnterNotify` and `Send` are the two halves of `Notify`,
under the read lock that `Closable` waits for. `ServerReturns` is what `Start` does
when the listener has returned: after a failure it cancels the loops and shuts
the server down itself.

Simplifications: a listener may fail at any time; which events are sent and
with what payload is left out, and a delivery just ends (there is no second
attempt). A handler that ends after its notifier was closed loses its
notification, as in the code.

## 3. Runs

| Run | Instance | Shows |
|---|---|---|
| `master_races` | 2 workers, 1 job, 2 requests, 1 retry, 2 claims | rows name their claim; failures counted once; recorded output exists; no revival; reports only from the holder; automatic retries bounded |
| `master_liveness` | 1 worker, 1 job, 1 request, 1 retry, 2 claims, 1 crash | every claim ends; failed jobs are retried; an old list of the monitor touches listed attempts only, and times out overdue ones only; the refinement of `JobLifecycle` |
| `assignment` | 1 worker, 1 poll of up to 2 jobs, 1 job, 2 claims, 1 crash | a pause is kept; the composition implements `MasterServer`; silent workers lose their jobs; returning workers are not left offline |
| `worker_node` | 2 pollers, 2 attempts at 1 job, 2 blocks, 2 tries, 2 versions, 1 kill | slots; whole sources and outputs; owners of directories; a shutdown drains |
| `configuration` | 2 updates, 2 jobs, 2 tries, 3 versions, 2 lives of the master | the file survives; one fetch at a time; no older settings; fall-back only without the master |
| `intake` | 2 files of one content, one in a directory; 1 callback; channel of 1; 1 failed insertion; 2 failed readings or queries | no send after the close; no duplicates of a content that was read and asked about; the close ends; files get jobs |
| `master_process` | 1 loop, 1 request, 1 stream, queue of 1 | no send on a closed queue; loops end first; accepted notifications are tried; the process ends; streams end |
| `assignment_pause` | 1 worker, 1 poll, 1 job | **violated**: paused workers get no job |
| `master_checksum` | 2 workers, 1 job, 2 requests | **violated**: recorded checksum and file part |
| `upload_terminator` | 2 blocks, 3 tries | **violated**: a complete upload is a complete form |
| `configuration_key` | 1 update, 1 job | **violated**: settings are pulled from the master |
| `master_process_requests` | 1 loop, 1 request, 1 stream | **violated**: requests in flight are waited for |

### Bounds

A race about a job needs an old and a current attempt, hence two claims. Two
requests allow a read to be overtaken by another request, next to the two
monitors, which are always there. `MaxRetries = 1` reaches both sides of the
limit. `master_liveness` has one job; that the refinement holds for many is a
theorem. The runs of `Assignment` leave `Handlers` empty: reports and operators'
commands on jobs do not touch the workers table, and the other runs have them.
Its limit of one job per worker makes both the refused and the shortened batch
happen.

`worker_node`: two attempts at one job are apart, overlap, or come one after the
death of the process; two blocks are the least for which a file can be there in
part, two versions the least for which it can be mixed; the second try is the
one that resumes. A third attempt takes the run with its liveness property beyond
a few minutes; without that property it was checked once, with the inductive
invariants of the proofs (2.8 million states), and it is where a first form of
`ConvertsWholeSource` turned out to be wrong: two attempts at one job garble the
partial file, the process is killed, and a third attempt, alone in the next
process, resumes that file and, if the job has no checksum, converts it. The
code does that; `mixed` excludes it from the property, as twins are. For any
number of attempts the property is a theorem. `configuration`: two updates are enough to share the
temporary file in every way, two lives to start from what a killed master left.
`intake`: a file that is written to and one that arrives with its directory are
the two ways of notification; a channel of one is full at once; one callback at
a time, next to the scan and the watch loop, and the next one after it. Two
failed readings or queries are enough for both files to go undetected; a master that
watches and scans has none (`MCUnread`), since `NoDuplicates` says nothing of
it and errors only make more jobs for `EveryFileGetsJob`; there they would take the
run from three minutes (682196 states) to beyond its limit.
`master_process`: a queue of one is full at once.

Deadlock is not checked in any run: once the bounds are used up, or the process
has ended, the models stop. Symmetry is used for safety only.

### Fairness

`master_liveness`: each monitor is a goroutine that loops over a ticker (weak
fairness of its steps), time passes (`Age`), a job that stays failed is not
skipped for ever, since its failure time is fixed and the backoff is capped at
an hour, and a monitor's statements do not fail every time (strong fairness of
`HealthFindStale` and, per job, of `HealthTimeOut` and `RetryFailed`). Nothing is
assumed of workers, operators or the network.

`assignment`: a worker's heartbeats come from a ticker and, while the worker is
connected, arrive (weak fairness of `Heartbeat`); two minutes pass (`Silent`);
the monitor goroutine goes on (weak fairness of `ScanStep` and `HealthReact`),
and its second query, its query for a worker's jobs and its reset of a job do
not fail every time (strong fairness). `Age` is not fair there: the job timeout
would free the jobs anyway, only later. Both properties are about workers that
stay registered: the jobs of a worker that never sent a heartbeat, or that was
removed, wait for the job timeout.

`worker_node`: some goroutine of the process takes a step as long as one can;
requests, transfers and ffmpeg end by their own time limits. This is the
weakest form: that the shutdown drains under it means that no goroutine can keep
the others waiting by going round in circles. Nothing is assumed of signals, of
kills or of what the master answers.

`intake`: the same, for the goroutines of the master; with periodic scans the
ticker ticks. Nothing is assumed of who writes the files.

`master_process`: goroutines that can run are run; the ten seconds end;
deliveries end by their time limit; a loop that finds both its ticker and its
context ready does not choose the ticker for ever, and the lock of
`Notify` is not taken from `Shutdown` for ever (Go's write lock holds new readers
back), which are the strong conditions. Nothing makes a request end.

### Findings

`README.md:322` calls `output_checksum` the "SHA256 checksum of output file".
`UploadVideo` accepts an upload for any job that is processing and renames it
over the output without excluding other uploads. In the counterexample the
current attempt's upload completes the job after its file was replaced by that
of an earlier attempt, or the other way round; the row keeps the checksum of a
file that is no longer there.

`docs/API.md:447` says that a pause prevents a worker from fetching new jobs.
The poll looks for the worker only among those heard of in the last two
minutes, and gives a job to any other. A paused worker that was down and polls
before its first heartbeat, which it sends only after a full interval, gets one.
Once the health monitor has marked it offline the pause is lost altogether;
`OnlySilenceUnpauses` says that this is the only such way.

`TESTING_DISTRIBUTED.md:23`: "Workers upload converted videos to master". The
goroutine that writes the form defers the close of the form before the close of
the pipe; they run in reverse order, so the closing boundary is written to a
closed pipe and the master meets the end of the body inside the form.

`README.md:746`: "Conversion settings are now pulled dynamically from the master
server". The fetcher's request carries no API key, and the master demands one
when it is configured. In the counterexample the fetch of `Worker.Start` is refused
and only logged, then every attempt of a job's own fetch is refused too, and the
job converts with the settings of the start. A job of a worker without such
settings does not come about: there `Start` returns the error.
`FallbackOnlyWithoutMaster` says that without a key this does not happen.

`http.go:324` and `coordinator.go:201` call the shutdown of the server graceful.
`ListenAndServe` returns when the listener is closed, and `Start` waits only for
that: the process ends under requests in flight, while the goroutine of the
signal is still waiting for them.

## 4. Proofs

Checked by TLAPS, for all sets of workers, jobs, request goroutines and so on and
all values of the bounds, from the named assumptions on the constants alone.

* `MasterServerProofs`: `TypeCorrect`, `Spec => []TypeOK`, one lemma per group
  of actions.
* `MasterRowProofs`: `Invariance`, `Spec => []IInv`, and `RowsNameTheirClaims`,
  `Spec => []RowNamesItsClaim`.

`RowNamesItsClaim` and type correctness do not say what a goroutine may
rely on, so the invariant adds it. `SnapshotsHold`: a row a monitor remembers
was claimed, its stamp is not of the future, and as long as the row has that
stamp its retry count is the one remembered. It is stable because stamps are
never reused, and it turns "decide on what was read, update if the stamp still
matches" into "decide on what is there". `RequestsHold` does the same for the
status a handler expects. With them, `NextMoves` shows that every step claims
one pending row, prunes, or moves at most one row in one of six ways
(`RowMove`), and the invariants are checked against those moves instead of
against two dozen actions.

* `MasterStepProofs`: `NoRevival`, `ReportsFromHolders`, `ListedAttemptsOnly`
  and `RetriesBounded`, the four action properties of the runs. Each follows
  from `IInv` and from what one group of actions may touch (`HandleTouches`,
  `HealthTouches`, `RetryTouches`, `TableTouches`).
  Also two invariants the runs check. `RetriesCountedOnce`: a row accounts for
  its retries and the attempt it still names (`Account`); a reset trades the
  attempt for at most one retry, only a claim adds to the account, and it adds
  one attempt to the set that is counted. `OutputsHaveProvenance`: the
  strengthening is what an upload in progress remembers (`UploadHolds`), that a
  file once there stays, and that a checksum enters a row only by the UPDATE at
  the end of an upload of that job (`SumsKept`).
  And `Refinement`, `Spec => ImplementsLifecycle`: each case of `RowMove` is a
  step of `JobLifecycle` on one job (`MoveMapped`); a small second invariant (`NothingCharged`) says that a row that is absent has no
  retries on record, which `Submit` and `Prune` of the abstract machine need.

* `AssignmentProofs`: `AssignmentTypeCorrect`; `AssignmentImplements`,
  `AssignmentSpec => Spec`, which needs the types because a scan may only hand
  workers to `HealthTick`; with it `ClaimsNamedHere` carries
  `RowNamesItsClaim` over, and the other theorems follow alike;
  `PauseOutlivesHeartbeats`, `AssignmentSpec => OnlySilenceUnpauses`.

* `MasterProcessProofs`: `TypesCorrect`, `QueueOpenWhileSending`,
  `LoopsOutlived`, `NothingAcceptedIsLost`. The order in which `Start` takes the
  parts down is `EndsInOrder`. `AcceptedIsTried` needs more: that the
  coordinator's notifier stays settled after it was found so (`EventsSettled`),
  and which of the two callers of `Server.Shutdown` closes the server's notifier
  and waits for it (`ServerSettled`): the goroutine of the signal, or, when the
  server has failed before that got there, main. The one exception is in the
  property: the server fails while the goroutine of the signal is waiting for the
  deliveries; main's own `Shutdown` then finds the notifier closed, does not wait,
  and the process may end under them.

* `ConfigurationProofs`: `TypesCorrect`, `OneFetchAtATime`,
  `FileAlwaysWhole`, `MasterSettingsUsed`, `CacheNeverOlder`. `HandlesValid`: a handle on the
  temporary file means that there is one, and a master that is down has none.
  `FirstFetchAlone`: the fetch of the start runs before any job, which is why a
  job finds either a cache or trouble (`SettingsOrTrouble`). `AnswersInOrder`:
  an answer under way is never older than the cache, because of
  `SingleFlight`, which is inductive together with the flag.
  `FileAlwaysWhole` is `AloneIsAtomic`, for any number of updates, crashes and
  failed writes. `SavesAlone` says that before two updates have overlapped at most one
  is being saved, and `Alone` how far that one has come: while it writes, the
  temporary file is empty and its handle is on it, and when it renames that file
  holds the configuration in memory.

* `WorkerNodeProofs`: `TypesCorrect`, `SlotsNeverLost`, `NoDirectoryLeft`,
  `ConvertsWhole`, `UploadsWhole`.
  `SlotsAccounted` counts two sets, so it is proved from what each group of
  steps does to them: an attempt that goes on keeps who is running (`Keeps`) and
  makes no directory but its own (`MakesOwn`), one that ends (`Ends`) leaves the
  set and gives back one slot. That slots never fall below zero, a part of the
  types, follows from the count and not the other way round.
  The other two, for a source of any number of blocks, rest on `WholeFiles`. An
  attempt that is no twin runs alone in a directory without a mixed past
  (`Lonely`), so it may rely on its file between two steps (`Progress`): a
  request resumes at the end of what is there, the blocks written and those
  to come are the whole source as long as the file has its name, what was
  checked is one version, and the output is its own or gone. Without a checksum the
  blocks themselves must be right from the beginning (`BlocksRight`), which has
  to hold of a directory with no attempt in it too, since the next one resumes
  what a killed one left; that is why `mixed` is remembered. The cleanup keeps
  `Progress` because it takes the file away as a whole, from its name and from
  who has it open.

* `IntakeProofs`: `TypesCorrect`, `NobodySendsAfterClose`, `ContentHasOneJob`, for
  any set of files, callbacks and size of the channel. `SendersGone`: once the
  channel is closed nobody is in the middle of a send, because `Close` has waited
  for those who were. `NoDuplicates` follows from `Tokens`, which says `OneJob(h)` of
  every content `h` that was not missed, each for itself, so that a content whose
  detection failed takes no other with it. A job of `h` on its way to the table
  sits at one of four places, with a goroutine that took the file up, in the list
  of the scan, in the channel or with the listener, and there only once (`Once`);
  its hash has been seen (`Seen`), so that nobody takes up a second; once the
  database was asked it has no row (`NoRowYet`); and its checksum is the content,
  which is why the answer of the database can be relied on (`Read`).
  That `seen` may be emptied by the start of a scan is sound because then none of
  these places holds anything, which is `Regime`: without the periodic scan
  there is one scan, before the watcher starts, and without the watcher
  nobody else is at work.

So each safety and action property of a passing run is a theorem. Model-checked
only are the liveness properties, which the prover does not handle:
`EveryClaimEnds`, `FailedJobRetried`, `SilentWorkerFreed`,
`ReturningWorkerOnline`, `ShutdownDrains`, `CloseEnds`, `EveryFileGetsJob`,
`ShutdownEnds`, `StreamEnds`. The properties of the runs that expect a violation
are false. `Upload` has a run of that kind alone and no theorem.

## 5. Not modelled

* Progress reports: nothing reads them to decide. A report of an earlier attempt
  is shown until the next of the current one.
* The rate limiter of the server, statistics, health and validation endpoints,
  the web page, metrics, logging, diagnostics, command line formatting: no
  state that another part reads.
* `UpdateJobPriority` and the order of claims: the claim is a free choice among
  the pending jobs, so the order changes no property above.
* Database migrations and the text format of times. Times are compared as text
  in UTC against text with a zone offset; the models let every time-out happen
  or not, so they cannot tell.
* ffmpeg's command line, Vulkan detection, metadata: they choose arguments.
* Removed and renamed files in the watcher, output paths and `replace_source`.
* Bandwidth throttling and batch requests of the worker (no caller).

Limits of what is modelled, where the code promises nothing:

* a pause that comes between the check and the claim of a request in flight
  does not stop the claim;
* several polls between two heartbeats may together exceed the limit of jobs
  per worker;
* two configuration updates saved at the same time may leave the file behind
  the memory, or torn;
* two attempts at one job on one worker share their files: without a checksum
  the job may convert a mixed source, and so may a later attempt that resumes
  what they left when their process was killed;
* a cache directory that `os.RemoveAll` fails to remove stays: the code only logs a
  warning (`worker.go:722-732`), and the model has no such failure; a worker that
  gives up its shutdown after two minutes is a `Kill`;
* a file that could not be read, about which the database could not be asked, or
  whose job has no checksum because the second reading failed, may get a second
  job for its content (`scanner.go:237-242`, `263-268`, `284-287`), though
  `docs/CONFIGURATION.md:45` has duplicates detected and skipped: the three
  errors are only logged. `NoDuplicates` exempts such a content, and one
  of a file written to between its two readings;
* scan and watcher running together may create two jobs of one content, though
  the same line of the docs speaks against it: a scan that starts forgets the hashes of the files the watcher is about to send; and
  without periodic scans a file whose insertion failed waits for the next start,
  as does a file that arrives between the first scan and the start of the
  watcher;
* a signal before `Server.Start` has assigned its server finds nothing to shut
  down; `ShutdownEnds` leaves that window out. The server then listens until the
  process is killed, since a second SIGINT or SIGTERM is swallowed
  (`coordinator.go:186-197`: the channel stays registered and nobody reads it).
