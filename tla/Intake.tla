------------------------------ MODULE Intake ------------------------------
(***************************************************************************)
(* How files become jobs: internal/scanner/scanner.go and watcher.go, with *)
(* the scans and the watcher's listener of internal/coordinator.           *)
(*                                                                         *)
(* The initial scan runs alone.  Afterwards the periodic scan, the watch   *)
(* loop (which itself walks a directory that appears) and the callbacks of *)
(* the debounce timers process files at the same time: each reads the      *)
(* file's hash, records it among the hashes seen, asks the database for a  *)
(* job with that checksum, reads the file again for the job's checksum,    *)
(* and hands the job on: a scan keeps a list and inserts it at its end,    *)
(* the others send to the channel that the listener inserts from.  On      *)
(* shutdown the listener closes the watcher under all of them.  Readings,  *)
(* queries and insertions fail.                                            *)
(*                                                                         *)
(* detect_duplicates is on.  (Without it a file is handled as one whose    *)
(* first reading fails: nothing is looked up or recorded.)  Removed files  *)
(* and directories, jobs that end, and the filters by name and size are    *)
(* left out.                                                               *)
(***************************************************************************)
EXTENDS Naturals, Sequences, FiniteSets

CONSTANTS
  Files,      \* paths of video files
  InDir,      \* those in a directory that is moved into the tree as a whole
  Contents,   \* what files may hold in the end
  Content,    \* what each file holds once it is complete
  Callbacks,  \* bound: callbacks of debounce timers that run at a time
  Capacity,   \* of the Jobs channel
  MaxFails,   \* bound: insertions that fail for another reason than a conflict
  MaxUnread   \* bound: steps in which a reading or a query fails, for a master
              \* that both watches and scans periodically, and for the others

ASSUME IntakeAssumption ==
  /\ InDir \subseteq Files
  /\ Content \in [Files -> Contents]
  /\ {"loop", "scan"} \cap Callbacks = {}
  /\ Capacity \in Nat \ {0} /\ MaxFails \in Nat
  /\ MaxUnread \in [BOOLEAN -> Nat]

VARIABLES
  watch,      \* enable_watch
  periodic,   \* scan_interval is not 0
  disk,       \* what is at each path
  started,    \* the initial scan is done, and the watcher started
  events,     \* notifications that the watch loop has not read
  tracked,    \* paths in pendingFiles
  armed,      \* those whose timer there is running
  loose,      \* timers running for a path that is no longer in pendingFiles
  proc,       \* what each goroutine that processes files is doing
  seen,       \* hashes in seenHashes
  found,      \* jobs of the scan that is running
  channel,    \* the Jobs channel
  listener,   \* listenWatcherEvents: receiving, inserting a job, or closing
  held,       \* the job it inserts
  rows,       \* the jobs table
  fails,      \* insertions that have failed
  unread,     \* steps in which a reading or a query has failed
  cancelled,  \* the coordinator's context
  missed,     \* contents of files whose detection failed or that changed meanwhile
  doubled,    \* contents for which a job was inserted while another had one
  panicked    \* a send on the closed channel

config  == <<watch, periodic>>
timers  == <<tracked, armed, loose>>
intake  == <<channel, listener, held>>
table   == <<rows, fails, doubled>>
failing == <<unread, missed>>
flags   == <<failing, panicked>>
vars    == <<config, disk, started, events, timers, proc, seen, found, intake,
             table, cancelled, flags>>

-----------------------------------------------------------------------------
(* Types.                                                                  *)

Procs == {"loop", "scan"} \cup Callbacks

\* A file that is still being written has content of its own.
Hashes  == ({"whole"} \X Contents) \cup ({"part"} \X Files)
NoHash  == <<>>

Whole(f)  == <<"whole", Content[f]>>
HashOf(f) == IF disk[f] = "whole" THEN Whole(f) ELSE <<"part", f>>

\* content: what the file held when it was read last.  sum: what that reading
\* found, NoHash if it failed.
Job   == [path : Files, content : Hashes, sum : Hashes \cup {NoHash}]
NoJob == [path |-> "none", content |-> NoHash, sum |-> NoHash]

Row   == [there : BOOLEAN, content : Hashes \cup {NoHash}, sum : Hashes \cup {NoHash}]
NoRow == [there |-> FALSE, content |-> NoHash, sum |-> NoHash]

\* todo: the files still to be walked.  job: of the file at hand.
Idle == [pc |-> "idle", todo |-> {}, job |-> NoJob]

TypeOK ==
  /\ watch \in BOOLEAN /\ periodic \in BOOLEAN
  /\ disk \in [Files -> {"absent", "part", "whole"}]
  /\ started \in BOOLEAN
  /\ events \in Seq({<<"written", f>> : f \in Files} \cup {<<"directory">>})
  /\ armed \subseteq tracked /\ tracked \subseteq Files /\ loose \subseteq Files
  /\ proc \in [Procs -> [pc   : {"idle", "begin", "walk", "check", "send", "sending",
                                 "insert", "exited"},
                         todo : SUBSET Files,
                         job  : [path : Files, content : Hashes \cup {NoHash},
                                 sum : Hashes \cup {NoHash}] \cup {NoJob}]]
  /\ seen \subseteq Hashes
  /\ found \subseteq Job
  /\ channel \in Seq(Job) /\ Len(channel) <= Capacity
  /\ listener \in {"on", "insert", "closing", "stopped", "waited", "closed"}
  /\ held \in Job \cup {NoJob}
  /\ rows \in [Files -> Row]
  /\ fails \in 0 .. MaxFails /\ unread \in 0 .. MaxUnread[watch /\ periodic]
  /\ missed \subseteq Hashes /\ doubled \subseteq Hashes
  /\ cancelled \in BOOLEAN /\ panicked \in BOOLEAN

There(f) == disk[f] # "absent"

Init ==
  /\ watch \in BOOLEAN /\ periodic \in BOOLEAN
  /\ disk = [f \in Files |-> "absent"]
  /\ started = FALSE
  /\ events = <<>>
  /\ tracked = {} /\ armed = {} /\ loose = {}
  /\ proc = [p \in Procs |-> Idle]
  /\ seen = {} /\ found = {}
  /\ channel = <<>> /\ listener = "on" /\ held = NoJob
  /\ rows = [f \in Files |-> NoRow] /\ fails = 0 /\ unread = 0
  /\ missed = {} /\ doubled = {}
  /\ cancelled = FALSE /\ panicked = FALSE

-----------------------------------------------------------------------------
(* The files.                                                              *)

Notify(e) == events' = IF watch /\ started /\ listener \in {"on", "insert"}
                       THEN Append(events, e) ELSE events

rest == <<config, started, timers, proc, seen, found, intake, table, cancelled, flags>>

CreateFile(f) ==
  /\ f \notin InDir /\ disk[f] = "absent"
  /\ disk' = [disk EXCEPT ![f] = "part"]
  /\ Notify(<<"written", f>>)
  /\ UNCHANGED rest

FinishFile(f) ==
  /\ disk[f] = "part"
  /\ disk' = [disk EXCEPT ![f] = "whole"]
  /\ Notify(<<"written", f>>)
  /\ UNCHANGED rest

MoveDirectoryIn ==
  /\ InDir # {} /\ \A f \in InDir : disk[f] = "absent"
  /\ disk' = [f \in Files |-> IF f \in InDir THEN "whole" ELSE disk[f]]
  /\ Notify(<<"directory">>)
  /\ UNCHANGED rest

-----------------------------------------------------------------------------
(* ProcessFile, by the goroutine p.                                        *)

Sets(p, state) == proc' = [proc EXCEPT ![p] = state]
At(p, pc)      == proc[p].pc = pc
Path(p)        == proc[p].job.path

outside == <<config, disk, started, events, timers, table, cancelled>>

Unread == unread < MaxUnread[watch /\ periodic] /\ unread' = unread + 1

\* p has nothing more to do with the file at hand.
Done(p) == IF p \in Callbacks THEN Idle ELSE [proc[p] EXCEPT !.pc = "walk", !.job = NoJob]

Skips(p, left) == Sets(p, [Done(p) EXCEPT !.todo = left])

\* p goes on with f, whose first reading has found sum.
GoesOn(p, f, sum, left) ==
  Sets(p, [pc |-> "check", todo |-> left,
           job |-> [path |-> f, content |-> HashOf(f), sum |-> sum]])

\* Mutant: the hash is looked up and not recorded.
TakeUp_Forgets(p, f, left) ==
  /\ IF There(f) /\ HashOf(f) \notin seen THEN GoesOn(p, f, HashOf(f), left)
                                          ELSE Skips(p, left)
  /\ UNCHANGED <<seen, failing>>

\* p takes up the file f.  One that is not there or has a hash that has been seen
\* is skipped; a new hash has been seen from now on.  A file that cannot be read
\* goes on without a hash.
TakeUp(p, f, left) ==
  \/ /\ There(f) => HashOf(f) \in seen
     /\ Skips(p, left)
     /\ UNCHANGED <<seen, failing>>
  \/ /\ There(f) /\ HashOf(f) \notin seen
     /\ GoesOn(p, f, HashOf(f), left)
     /\ seen' = seen \cup {HashOf(f)}
     /\ UNCHANGED failing
  \/ /\ There(f) /\ Unread
     /\ GoesOn(p, f, NoHash, left)
     /\ missed' = missed \cup {HashOf(f)}
     /\ seen' = seen

Walk(p) ==
  /\ At(p, "walk")
  /\ \E f \in proc[p].todo : TakeUp(p, f, proc[p].todo \ {f})
  /\ UNCHANGED <<outside, found, intake, panicked>>

\* HasJobWithSourceChecksum: an empty checksum is not looked for.
HasJob(h) == h # NoHash /\ \E f \in Files : rows[f].there /\ rows[f].sum = h

\* The rest of ProcessFile, with the checksum that the second reading finds.
Makes(p, sum) ==
  LET job == [path |-> Path(p), content |-> HashOf(Path(p)), sum |-> sum] IN
  IF p = "scan"
  THEN found' = found \cup {job} /\ Sets(p, Done(p))
  ELSE found' = found /\ Sets(p, [proc[p] EXCEPT !.pc = "send", !.job = job])

\* The database is asked, and the file read again for the job's checksum.  A file
\* without an answer is taken as new, a job without the checksum is made too.
MakeJob(p) ==
  LET first  == proc[p].job
      second == HashOf(Path(p))
  IN /\ At(p, "check")
     /\ \/ /\ HasJob(first.sum)
           /\ Sets(p, Done(p)) /\ UNCHANGED <<found, failing>>
        \/ /\ ~HasJob(first.sum)
           /\ Makes(p, second) /\ unread' = unread
           /\ missed' = IF second = first.content THEN missed ELSE missed \cup {second}
        \/ /\ \E sum \in {second, NoHash} : Makes(p, sum)
           /\ Unread /\ missed' = missed \cup {second}
     /\ UNCHANGED <<outside, seen, intake, panicked>>

Put(p) ==
  /\ Len(channel) < Capacity
  /\ channel' = Append(channel, proc[p].job)
  /\ panicked' = (panicked \/ listener = "closed")
  /\ Sets(p, Done(p))

\* Mutant: sendJob does not look whether the channel is closed.
SendJob_Unchecked(p) ==
  /\ At(p, "send")
  /\ \/ Put(p)
     \/ /\ Len(channel) = Capacity
        /\ Sets(p, [proc[p] EXCEPT !.pc = "sending"])
        /\ UNCHANGED <<channel, panicked>>
  /\ UNCHANGED <<outside, seen, found, listener, held, failing>>

\* sendJob: with the read lock taken, the channel is open until the job is sent
\* or given up.
SendJob(p) ==
  /\ At(p, "send")
  /\ \/ listener = "closed" /\ Sets(p, Done(p)) /\ UNCHANGED <<channel, panicked>>
     \/ listener # "closed" /\ Put(p)
     \/ /\ listener # "closed" /\ Len(channel) = Capacity
        /\ Sets(p, [proc[p] EXCEPT !.pc = "sending"])
        /\ UNCHANGED <<channel, panicked>>
  /\ UNCHANGED <<outside, seen, found, listener, held, failing>>

Send(p) ==
  /\ At(p, "sending")
  /\ Put(p)
  /\ UNCHANGED <<outside, seen, found, listener, held, failing>>

\* Mutant: a send on the full channel waits for a receiver only.
GiveUpSend_Never(p) == FALSE /\ Sets(p, Done(p)) /\ UNCHANGED <<outside, seen, found, intake, flags>>

\* Close has cancelled the watcher's context.
GiveUpSend(p) ==
  /\ At(p, "sending") /\ listener \notin {"on", "insert"}
  /\ Sets(p, Done(p))
  /\ UNCHANGED <<outside, seen, found, intake, flags>>

Process(p) == Walk(p) \/ MakeJob(p) \/ SendJob(p) \/ Send(p) \/ GiveUpSend(p)

-----------------------------------------------------------------------------
(* The watcher.                                                            *)

\* A path that is written to has a timer, new or started again.
Debounce(f) ==
  IF listener \in {"stopped", "waited", "closed"} THEN UNCHANGED timers
  ELSE /\ tracked' = tracked \cup {f}
       /\ armed' = armed \cup {f}
       /\ loose' = loose

\* watchLoop reads a notification.
HandleEvent ==
  /\ At("loop", "idle") /\ events # <<>>
  /\ events' = Tail(events)
  /\ LET e == Head(events) IN
       IF e = <<"directory">>
       THEN /\ Sets("loop", [Idle EXCEPT !.pc = "walk",
                                         !.todo = {f \in InDir : There(f)}])
            /\ UNCHANGED timers
       ELSE Debounce(e[2]) /\ proc' = proc
  /\ UNCHANGED <<config, disk, started, seen, found, intake, table, cancelled, flags>>

DirectoryDone ==
  /\ At("loop", "walk") /\ proc["loop"].todo = {}
  /\ Sets("loop", Idle)
  /\ UNCHANGED <<config, disk, started, events, timers, seen, found, intake, table, cancelled, flags>>

ExitLoop ==
  /\ At("loop", "idle") /\ listener \notin {"on", "insert"}
  /\ Sets("loop", [Idle EXCEPT !.pc = "exited"])
  /\ UNCHANGED <<config, disk, started, events, timers, seen, found, intake, table, cancelled, flags>>

\* A timer fires: processEventDebounced runs in a goroutine of its own.
Fire(k, f) ==
  /\ At(k, "idle") /\ f \in armed \cup loose
  /\ \/ f \in armed /\ armed' = armed \ {f} /\ loose' = loose
     \/ f \in loose /\ loose' = loose \ {f} /\ armed' = armed
  /\ Sets(k, [Idle EXCEPT !.pc = "begin", !.job = [path |-> f, content |-> NoHash, sum |-> NoHash]])
  /\ UNCHANGED <<config, disk, started, events, tracked, seen, found, intake, table, cancelled, flags>>

\* It takes the path out of pendingFiles, also when the timer there has been
\* started again since: that one now runs loose.
BeginCallback(k) ==
  LET f == Path(k) IN
  /\ At(k, "begin")
  /\ tracked' = tracked \ {f} /\ armed' = armed \ {f}
  /\ loose' = loose \cup (armed \cap {f})
  /\ TakeUp(k, f, {})
  /\ UNCHANGED <<config, disk, started, events, found, intake, table, cancelled, panicked>>

-----------------------------------------------------------------------------
(* The scans.                                                              *)

\* Mutant: the hashes seen are kept from scan to scan.
BeginScan_KeepsSeen ==
  /\ At("scan", "idle")
  /\ ~started \/ (periodic /\ ~cancelled)
  /\ seen' = seen
  /\ Sets("scan", [Idle EXCEPT !.pc = "walk", !.todo = {f \in Files : There(f)}])
  /\ UNCHANGED <<config, disk, started, events, timers, found, intake, table, cancelled, flags>>

BeginScan ==
  /\ At("scan", "idle")
  /\ ~started \/ (periodic /\ ~cancelled)
  /\ seen' = {}
  /\ Sets("scan", [Idle EXCEPT !.pc = "walk", !.todo = {f \in Files : There(f)}])
  /\ UNCHANGED <<config, disk, started, events, timers, found, intake, table, cancelled, flags>>

ScanDone ==
  /\ At("scan", "walk") /\ proc["scan"].todo = {}
  /\ Sets("scan", [Idle EXCEPT !.pc = "insert"])
  /\ UNCHANGED <<config, disk, started, events, timers, seen, found, intake, table, cancelled, flags>>

HasContent(h) == \E f \in Files : rows[f].there /\ rows[f].content = h

\* CreateJob: INSERT OR IGNORE.
Inserts(j) ==
  /\ fails' = fails
  /\ IF rows[j.path].there
     THEN UNCHANGED <<rows, doubled>>
     ELSE /\ rows' = [rows EXCEPT ![j.path] = [there |-> TRUE, content |-> j.content,
                                               sum |-> j.sum]]
          /\ doubled' = IF HasContent(j.content) THEN doubled \cup {j.content} ELSE doubled

InsertFails == fails < MaxFails /\ fails' = fails + 1 /\ UNCHANGED <<rows, doubled>>

InsertFound ==
  /\ At("scan", "insert")
  /\ \E j \in found :
       /\ found' = found \ {j}
       /\ Inserts(j) \/ InsertFails
  /\ UNCHANGED <<config, disk, started, events, timers, proc, seen, intake, cancelled, flags>>

EndScan ==
  /\ At("scan", "insert") /\ found = {}
  /\ Sets("scan", Idle)
  /\ started' = TRUE
  /\ UNCHANGED <<config, disk, events, timers, seen, found, intake, table, cancelled, flags>>

-----------------------------------------------------------------------------
(* listenWatcherEvents, and Close, which it calls at its end.              *)

Receive ==
  /\ listener = "on" /\ channel # <<>>
  /\ held' = Head(channel) /\ channel' = Tail(channel)
  /\ listener' = "insert"
  /\ UNCHANGED <<config, disk, started, events, timers, proc, seen, found, table, cancelled, flags>>

InsertReceived ==
  /\ listener = "insert"
  /\ Inserts(held) \/ InsertFails
  /\ held' = NoJob /\ listener' = "on"
  /\ UNCHANGED <<config, disk, started, events, timers, proc, seen, found, channel, cancelled, flags>>

\* A signal: the coordinator's context is cancelled.
Cancel ==
  /\ started /\ ~cancelled
  /\ cancelled' = TRUE
  /\ UNCHANGED <<config, disk, started, events, timers, proc, seen, found, intake, table, flags>>

BeginClose ==
  /\ listener = "on" /\ watch /\ cancelled
  /\ listener' = "closing" /\ events' = <<>>
  /\ UNCHANGED <<config, disk, started, timers, proc, seen, found, channel, held, table, cancelled, flags>>

\* Mutant: pendingFiles is emptied without stopping its timers.
StopTimers_LeavesArmed ==
  /\ listener = "closing"
  /\ listener' = "stopped"
  /\ tracked' = {} /\ armed' = armed /\ loose' = loose
  /\ UNCHANGED <<config, disk, started, events, proc, seen, found, channel, held, table, cancelled, flags>>

StopTimers ==
  /\ listener = "closing"
  /\ listener' = "stopped"
  /\ tracked' = {} /\ armed' = {} /\ loose' = loose
  /\ UNCHANGED <<config, disk, started, events, proc, seen, found, channel, held, table, cancelled, flags>>

WaitLoop ==
  /\ listener = "stopped" /\ At("loop", "exited")
  /\ listener' = "waited"
  /\ UNCHANGED <<config, disk, started, events, timers, proc, seen, found, channel, held, table, cancelled, flags>>

\* The write lock: no goroutine is sending.
CloseChannels ==
  /\ listener = "waited" /\ \A p \in Procs : ~At(p, "sending")
  /\ listener' = "closed"
  /\ UNCHANGED <<config, disk, started, events, timers, proc, seen, found, channel, held, table, cancelled, flags>>

-----------------------------------------------------------------------------
Storage == \E f \in Files : CreateFile(f) \/ FinishFile(f)

Watcher == HandleEvent \/ DirectoryDone \/ ExitLoop
           \/ \E k \in Callbacks : BeginCallback(k) \/ \E f \in Files : Fire(k, f)

Scan == BeginScan \/ ScanDone \/ InsertFound \/ EndScan

Listener == Receive \/ InsertReceived \/ BeginClose \/ StopTimers \/ WaitLoop \/ CloseChannels

System == (\E p \in Procs : Process(p)) \/ Watcher \/ Scan \/ Listener

Next == System \/ Storage \/ MoveDirectoryIn \/ Cancel

Spec == Init /\ [][Next]_vars

\* The goroutines that can go on are not all held up for ever, and the ticker of
\* the periodic scan ticks.
FairSpec == Spec /\ WF_vars(System)

-----------------------------------------------------------------------------
(* Properties.                                                             *)

\* No callback of a debounce timer sends on the channel after Close has closed
\* it, not even one of a timer that Close could not stop.
NoSendAfterClose == ~panicked

\* With the periodic scan or the watcher alone, two jobs never convert the same
\* content, whichever goroutines see the two files first, unless a file of that
\* content could not be read, the database could not be asked about it, or the
\* file was written to between its two readings.
NoDuplicates == ~(watch /\ periodic) => doubled \subseteq missed

\* Close ends, with the channel full and nobody receiving too.
CloseEnds == (cancelled /\ watch) ~> (listener = "closed")

\* With periodic scans a file that is complete gets a job, or a file of the same
\* content has one, whatever was lost of its notification, its insertion or the
\* listener's queue, as long as the master runs.
EveryFileGetsJob ==
  \A f \in Files :
    (periodic /\ disk[f] = "whole") ~>
      (\/ cancelled
       \/ \E g \in Files : /\ rows[g].there
                           /\ Whole(f) \in {rows[g].content, HashOf(g)})

=============================================================================
