---------------------------- MODULE IntakeProofs ----------------------------
(***************************************************************************)
(* Proofs about Intake, for any files, contents, callbacks and capacity:   *)
(* types, that nobody sends on the closed channel, and that no two jobs    *)
(* convert a content whose files could all be read and asked about.  A job *)
(* on its way to the table is a token: it sits with the goroutine that     *)
(* took the file up, in the list of the scan, in the channel, or with the  *)
(* listener.  Of such a content there is one token at most, it is among    *)
(* the hashes seen, and once the database has been asked it has no row.    *)
(***************************************************************************)
EXTENDS Intake, TLAPS

USE IntakeAssumption

-----------------------------------------------------------------------------
(* Types.                                                                  *)

State == [pc   : {"idle", "begin", "walk", "check", "send", "sending",
                  "insert", "exited"},
          todo : SUBSET Files,
          job  : [path : Files, content : Hashes \cup {NoHash},
                  sum : Hashes \cup {NoHash}] \cup {NoJob}]

\* What a goroutine needs for its next step.
Fits(s) ==
  /\ s \in State
  /\ s.pc \in {"check", "send", "sending"} => s.job \in Job
  /\ s.pc = "begin" => s.job.path \in Files

\* The types, with a job in every place a step takes one from.
Typed ==
  /\ TypeOK
  /\ \A p \in Procs : Fits(proc[p])
  /\ listener = "insert" => held \in Job

\* Nobody is sending on a channel that has been closed.
SendersGone == listener = "closed" => \A p \in Procs : ~At(p, "sending")

-----------------------------------------------------------------------------
(* Who is at work when.                                                    *)

\* Neither the watcher nor the listener has anything to do.
Quiet ==
  /\ events = <<>> /\ armed = {} /\ loose = {}
  /\ \A p \in Procs \ {"scan"} : At(p, "idle")
  /\ channel = <<>> /\ listener = "on"

\* The initial scan runs alone, and so does every scan of a master that does not
\* watch.  One that watches and has no periodic scan never scans again.
Regime ==
  /\ cancelled => started
  /\ proc["scan"].pc \in {"idle", "walk", "check", "insert"}
  /\ At("scan", "idle") => found = {}
  /\ ~(started /\ watch) => Quiet
  /\ started /\ watch /\ ~periodic => At("scan", "idle")

-----------------------------------------------------------------------------
(* Tokens.                                                                 *)

\* Where a job of the content h is on its way to the table.
Busy(p, h)   == proc[p].pc \in {"check", "send", "sending"} /\ proc[p].job.content = h
Made(p, h)   == proc[p].pc \in {"send", "sending"} /\ proc[p].job.content = h
InHand(h)    == \E p \in Procs : Busy(p, h)
InFound(h)   == \E j \in found : j.content = h
InChannel(h) == \E i \in DOMAIN channel : channel[i].content = h
Held(h)      == listener = "insert" /\ held.content = h

\* It is there once.
Once(h) ==
  /\ \A p, q \in Procs : Busy(p, h) /\ Busy(q, h) => p = q
  /\ \A j, k \in found : j.content = h /\ k.content = h => j = k
  /\ \A i, k \in DOMAIN channel : channel[i].content = h /\ channel[k].content = h => i = k
  /\ InHand(h) => ~InFound(h) /\ ~InChannel(h) /\ ~Held(h)
  /\ InFound(h) => ~InChannel(h) /\ ~Held(h)
  /\ InChannel(h) => ~Held(h)

\* It has been seen.
Seen(h) == InHand(h) \/ InFound(h) \/ InChannel(h) \/ Held(h) => h \in seen

\* When the database has been asked about it, it has no row.
NoRowYet(h) ==
  /\ \A p \in Procs : Made(p, h) => ~HasContent(h)
  /\ InFound(h) \/ InChannel(h) \/ Held(h) => ~HasContent(h)

\* Its checksum has been found by every reading, so that the database is asked
\* for what the rows hold.
Read(h) ==
  /\ \A p \in Procs : Busy(p, h) => proc[p].job.sum = h
  /\ \A j \in found : j.content = h => j.sum = h
  /\ \A i \in DOMAIN channel : channel[i].content = h => channel[i].sum = h
  /\ Held(h) => held.sum = h
  /\ \A f \in Files : rows[f].there /\ rows[f].content = h => rows[f].sum = h

OneJob(h) == Once(h) /\ Seen(h) /\ NoRowYet(h) /\ Read(h) /\ h \notin doubled

\* Without both of the two that scan, and for the contents that were not missed.
Tokens == ~(watch /\ periodic) => \A h \in Hashes \ missed : OneJob(h)

-----------------------------------------------------------------------------
(* The types are kept.                                                     *)

LEMMA HashesFit == ASSUME TypeOK, NEW f \in Files PROVE HashOf(f) \in Hashes
<1>1. Content[f] \in Contents
  OBVIOUS
<1>. QED
  BY <1>1 DEF HashOf, Whole, Hashes

LEMMA DoneFits == ASSUME Typed, NEW p \in Procs PROVE Fits(Done(p))
BY DEF Typed, Fits, State, Done, Idle, NoJob

\* A goroutine that moves on to a state that fits.
LEMMA SetsFits ==
  ASSUME Typed, NEW p \in Procs, NEW s, Fits(s), Sets(p, s)
  PROVE  /\ proc' \in [Procs -> State]
         /\ \A q \in Procs : Fits(proc'[q])
BY DEF Typed, TypeOK, State, Fits, Sets

LEMMA TakeUpFits ==
  ASSUME Typed, NEW p \in Procs, NEW f \in Files, NEW left \in SUBSET Files,
         TakeUp(p, f, left)
  PROVE  /\ proc' \in [Procs -> State]
         /\ \A q \in Procs : Fits(proc'[q])
         /\ seen' \subseteq Hashes /\ missed' \subseteq Hashes
         /\ unread' \in 0 .. MaxUnread[watch /\ periodic]
<1>. DEFINE new(sum) == [pc |-> "check", todo |-> left,
                         job |-> [path |-> f, content |-> HashOf(f), sum |-> sum]]
            skip == [Done(p) EXCEPT !.todo = left]
<1>1. HashOf(f) \in Hashes /\ Fits(Done(p))
  BY HashesFit, DoneFits DEF Typed
<1>2. Fits(new(HashOf(f))) /\ Fits(new(NoHash))
  BY <1>1 DEF Fits, State, Job
<1>3. Fits(skip)
  BY <1>1 DEF Fits, State
<1>4. Sets(p, skip) \/ Sets(p, new(HashOf(f))) \/ Sets(p, new(NoHash))
  BY DEF TakeUp, Skips, GoesOn
<1>5. seen' \subseteq Hashes /\ missed' \subseteq Hashes
  BY <1>1 DEF TakeUp, Typed, TypeOK, failing
<1>6. unread' \in 0 .. MaxUnread[watch /\ periodic]
  <2>1. MaxUnread[watch /\ periodic] \in Nat /\ unread \in 0 .. MaxUnread[watch /\ periodic]
    BY DEF Typed, TypeOK
  <2>. QED
    BY <2>1 DEF TakeUp, Unread, failing
<1>. HIDE DEF new, skip
<1>. QED
  BY <1>2, <1>3, <1>4, <1>5, <1>6, SetsFits

\* The types of what is not a goroutine's.
PlacesTyped ==
  /\ watch \in BOOLEAN /\ periodic \in BOOLEAN
  /\ disk \in [Files -> {"absent", "part", "whole"}]
  /\ started \in BOOLEAN
  /\ events \in Seq({<<"written", f>> : f \in Files} \cup {<<"directory">>})
  /\ armed \subseteq tracked /\ tracked \subseteq Files /\ loose \subseteq Files
  /\ seen \subseteq Hashes
  /\ found \subseteq Job
  /\ channel \in Seq(Job) /\ Len(channel) <= Capacity
  /\ listener \in {"on", "insert", "closing", "stopped", "waited", "closed"}
  /\ held \in Job \cup {NoJob}
  /\ listener = "insert" => held \in Job
  /\ rows \in [Files -> Row]
  /\ fails \in 0 .. MaxFails /\ unread \in 0 .. MaxUnread[watch /\ periodic]
  /\ missed \subseteq Hashes /\ doubled \subseteq Hashes
  /\ cancelled \in BOOLEAN /\ panicked \in BOOLEAN

LEMMA TypedParts ==
  Typed <=> /\ PlacesTyped /\ proc \in [Procs -> State]
            /\ \A p \in Procs : Fits(proc[p])
BY DEF Typed, TypeOK, PlacesTyped, State

\* The same of the state after a step.
LEMMA TypedLater ==
  ASSUME PlacesTyped', proc' \in [Procs -> State], \A p \in Procs : Fits(proc'[p])
  PROVE  Typed'
BY DEF Typed, TypeOK, PlacesTyped, State, Fits

LEMMA PutTyped ==
  ASSUME Typed, NEW p \in Procs, proc[p].job \in Job, Put(p)
  PROVE  /\ channel' \in Seq(Job) /\ Len(channel') <= Capacity
         /\ panicked' \in BOOLEAN
         /\ proc' \in [Procs -> State]
         /\ \A q \in Procs : Fits(proc'[q])
BY DoneFits, SetsFits DEF Put, Typed, TypeOK

LEMMA ProcessTyped ==
  ASSUME Typed, NEW p \in Procs, Process(p)
  PROVE  Typed'
<1>. USE DEF outside, config, timers, intake, table, flags, failing
<1>0. PlacesTyped /\ Fits(proc[p]) /\ Fits(Done(p))
  BY TypedParts, DoneFits
<1>1. CASE Walk(p)
  <2>1. PICK f \in proc[p].todo : TakeUp(p, f, proc[p].todo \ {f})
    BY <1>1 DEF Walk
  <2>2. f \in Files /\ proc[p].todo \ {f} \in SUBSET Files
    BY <1>0 DEF Fits, State
  <2>3. /\ proc' \in [Procs -> State] /\ seen' \subseteq Hashes
        /\ missed' \subseteq Hashes /\ unread' \in 0 .. MaxUnread[watch /\ periodic]
        /\ \A q \in Procs : Fits(proc'[q])
    BY <2>1, <2>2, TakeUpFits
  <2>4. PlacesTyped'
    BY <1>0, <1>1, <2>3 DEF Walk, PlacesTyped
  <2>. QED
    BY <2>3, <2>4, TypedLater
<1>2. CASE MakeJob(p)
  <2>. DEFINE job(sum) == [path |-> Path(p), content |-> HashOf(Path(p)), sum |-> sum]
              sent(sum) == [proc[p] EXCEPT !.pc = "send", !.job = job(sum)]
              sums == {HashOf(Path(p)), NoHash}
  <2>1. proc[p].job \in Job /\ \A sum \in sums : job(sum) \in Job
    BY <1>0, <1>2, HashesFit DEF MakeJob, At, Fits, Job, Path, Typed
  <2>2. \A sum \in sums : Fits(sent(sum))
    BY <1>0, <2>1 DEF Fits, State, Job
  <2>3. UNCHANGED <<outside, seen, intake, panicked>>
    BY <1>2 DEF MakeJob
  <2>4. \/ Sets(p, Done(p)) /\ found' = found
        \/ \E sum \in sums : (Sets(p, Done(p)) /\ found' = found \cup {job(sum)})
                            \/ (Sets(p, sent(sum)) /\ found' = found)
    BY <1>2 DEF MakeJob, Makes
  <2>5. \/ UNCHANGED failing
        \/ /\ unread' = unread \/ Unread
           /\ missed' = missed \/ missed' = missed \cup {HashOf(Path(p))}
    BY <1>2 DEF MakeJob
  <2>. HIDE DEF job, sent, sums
  <2>6. proc' \in [Procs -> State] /\ \A q \in Procs : Fits(proc'[q])
    BY <1>0, <2>2, <2>4, SetsFits
  <2>7. PlacesTyped'
    <3>1. found' \subseteq Job
      BY <1>0, <2>1, <2>4 DEF PlacesTyped
    <3>2. HashOf(Path(p)) \in Hashes
      BY <2>1, HashesFit DEF Job, Path, Typed
    <3>3. missed' \subseteq Hashes
      BY <1>0, <2>5, <3>2 DEF PlacesTyped
    <3>4. unread' \in 0 .. MaxUnread[watch /\ periodic]
      <4>1. /\ MaxUnread[watch /\ periodic] \in Nat
            /\ unread \in 0 .. MaxUnread[watch /\ periodic]
        BY <1>0 DEF PlacesTyped
      <4>. QED
        BY <2>5, <4>1 DEF Unread
    <3>. QED
      BY <1>0, <2>3, <3>1, <3>3, <3>4 DEF PlacesTyped
  <2>. QED
    BY <2>6, <2>7, TypedLater
<1>3. CASE SendJob(p) \/ Send(p)
  <2>1. proc[p].job \in Job
    BY <1>0, <1>3 DEF SendJob, Send, At, Fits
  <2>2. Fits([proc[p] EXCEPT !.pc = "sending"])
    BY <1>0, <2>1 DEF Fits, State
  <2>3. /\ channel' \in Seq(Job) /\ Len(channel') <= Capacity
        /\ panicked' \in BOOLEAN
        /\ proc' \in [Procs -> State]
        /\ \A q \in Procs : Fits(proc'[q])
    BY <1>0, <1>3, <2>1, <2>2, PutTyped, SetsFits DEF SendJob, Send, PlacesTyped
  <2>4. PlacesTyped'
    BY <1>0, <1>3, <2>3 DEF SendJob, Send, PlacesTyped
  <2>. QED
    BY <2>3, <2>4, TypedLater
<1>4. CASE GiveUpSend(p)
  <2>1. proc' \in [Procs -> State] /\ \A q \in Procs : Fits(proc'[q])
    BY <1>0, <1>4, SetsFits DEF GiveUpSend
  <2>2. PlacesTyped'
    BY <1>0, <1>4 DEF GiveUpSend, PlacesTyped
  <2>. QED
    BY <2>1, <2>2, TypedLater
<1>. QED
  BY <1>1, <1>2, <1>3, <1>4 DEF Process

\* The source files and their notifications.
LEMMA DiskTyped ==
  ASSUME Typed, Storage \/ MoveDirectoryIn
  PROVE  Typed'
<1>0. PlacesTyped
  BY TypedParts
<1>1. PICK e \in {<<"written", f>> : f \in Files} \cup {<<"directory">>} :
           Notify(e) /\ UNCHANGED rest
  BY DEF Storage, MoveDirectoryIn, CreateFile, FinishFile
<1>2. events' \in Seq({<<"written", f>> : f \in Files} \cup {<<"directory">>})
  BY <1>0, <1>1 DEF Notify, PlacesTyped
<1>3. disk' \in [Files -> {"absent", "part", "whole"}]
  BY <1>0 DEF Storage, MoveDirectoryIn, CreateFile, FinishFile, PlacesTyped
<1>4. PlacesTyped' /\ proc' = proc
  BY <1>0, <1>1, <1>2, <1>3
  DEF rest, config, timers, intake, table, flags, failing, PlacesTyped
<1>. QED
  BY <1>4, TypedParts, TypedLater

LEMMA WatcherTyped ==
  ASSUME Typed, Watcher
  PROVE  Typed'
<1>. USE DEF config, timers, intake, table, flags, failing
<1>0. PlacesTyped /\ proc \in [Procs -> State] /\ \A p \in Procs : Fits(proc[p])
  BY TypedParts
<1>1. ASSUME NEW p \in Procs, NEW s, Fits(s), Sets(p, s)
      PROVE  proc' \in [Procs -> State] /\ \A q \in Procs : Fits(proc'[q])
  BY <1>1, SetsFits
<1>2. "loop" \in Procs /\ Callbacks \subseteq Procs
  BY DEF Procs
<1>3. CASE HandleEvent
  <2>. DEFINE todo == {f \in InDir : There(f)}
  <2>0. /\ Head(events) \in {<<"written", f>> : f \in Files} \cup {<<"directory">>}
        /\ events' \in Seq({<<"written", f>> : f \in Files} \cup {<<"directory">>})
    BY <1>0, <1>3 DEF HandleEvent, PlacesTyped
  <2>1. Head(events) # <<"directory">> => Head(events)[2] \in Files
    BY <2>0
  <2>2. Fits([Idle EXCEPT !.pc = "walk", !.todo = todo])
    BY DEF Fits, State, Idle, NoJob
  <2>3. proc' \in [Procs -> State] /\ \A q \in Procs : Fits(proc'[q])
    BY <1>0, <1>1, <1>2, <1>3, <2>2 DEF HandleEvent
  <2>4. armed' \subseteq tracked' /\ tracked' \subseteq Files /\ loose' \subseteq Files
    BY <1>0, <1>3, <2>1 DEF HandleEvent, Debounce, PlacesTyped
  <2>5. PlacesTyped'
    BY <1>0, <1>3, <2>0, <2>4 DEF HandleEvent, PlacesTyped
  <2>. QED
    BY <2>3, <2>5, TypedLater
<1>4. CASE DirectoryDone \/ ExitLoop
  <2>1. Fits(Idle) /\ Fits([Idle EXCEPT !.pc = "exited"])
    BY DEF Fits, State, Idle, NoJob
  <2>2. proc' \in [Procs -> State] /\ \A q \in Procs : Fits(proc'[q])
    BY <1>1, <1>2, <1>4, <2>1 DEF DirectoryDone, ExitLoop
  <2>3. PlacesTyped'
    BY <1>0, <1>4 DEF DirectoryDone, ExitLoop, PlacesTyped
  <2>. QED
    BY <2>2, <2>3, TypedLater
<1>5. ASSUME NEW k \in Callbacks, BeginCallback(k)
      PROVE  Typed'
  <2>1. Path(k) \in Files
    BY <1>0, <1>2, <1>5 DEF BeginCallback, At, Path, Fits
  <2>2. /\ proc' \in [Procs -> State] /\ seen' \subseteq Hashes
        /\ missed' \subseteq Hashes /\ unread' \in 0 .. MaxUnread[watch /\ periodic]
        /\ \A q \in Procs : Fits(proc'[q])
    BY <1>2, <1>5, <2>1, TakeUpFits DEF BeginCallback
  <2>3. armed' \subseteq tracked' /\ tracked' \subseteq Files /\ loose' \subseteq Files
    BY <1>0, <1>5, <2>1 DEF BeginCallback, PlacesTyped
  <2>4. PlacesTyped'
    BY <1>0, <1>5, <2>2, <2>3 DEF BeginCallback, PlacesTyped
  <2>. QED
    BY <2>2, <2>4, TypedLater
<1>6. ASSUME NEW k \in Callbacks, NEW f \in Files, Fire(k, f)
      PROVE  Typed'
  <2>1. Fits([Idle EXCEPT !.pc = "begin", !.job = [path |-> f, content |-> NoHash, sum |-> NoHash]])
    BY DEF Fits, State, Idle, Job
  <2>2. proc' \in [Procs -> State] /\ \A q \in Procs : Fits(proc'[q])
    BY <1>1, <1>2, <1>6, <2>1 DEF Fire
  <2>3. PlacesTyped'
    BY <1>0, <1>6 DEF Fire, PlacesTyped
  <2>. QED
    BY <2>2, <2>3, TypedLater
<1>. QED
  BY <1>3, <1>4, <1>5, <1>6 DEF Watcher

\* A row is made of a job.
LEMMA InsertTyped ==
  ASSUME PlacesTyped, NEW j \in Job, Inserts(j) \/ InsertFails
  PROVE  rows' \in [Files -> Row] /\ fails' \in 0 .. MaxFails /\ doubled' \subseteq Hashes
<1>1. CASE Inserts(j)
  <2>1. [there |-> TRUE, content |-> j.content, sum |-> j.sum] \in Row
    BY DEF Job, Row
  <2>2. rows' \in [Files -> Row] /\ fails' \in 0 .. MaxFails
    BY <1>1, <2>1 DEF Inserts, PlacesTyped
  <2>3. doubled' \subseteq Hashes
    BY <1>1 DEF Inserts, PlacesTyped, Job
  <2>. QED
    BY <2>2, <2>3
<1>2. CASE InsertFails
  BY <1>2 DEF InsertFails, PlacesTyped
<1>. QED
  BY <1>1, <1>2

LEMMA ScanTyped ==
  ASSUME Typed, Scan
  PROVE  Typed'
<1>. USE DEF config, timers, intake, table, flags, failing
<1>0. PlacesTyped /\ proc \in [Procs -> State] /\ \A p \in Procs : Fits(proc[p])
  BY TypedParts
<1>1. CASE InsertFound
  <2>1. PICK j \in found : found' = found \ {j} /\ (Inserts(j) \/ InsertFails)
    BY <1>1 DEF InsertFound
  <2>2. rows' \in [Files -> Row] /\ fails' \in 0 .. MaxFails /\ doubled' \subseteq Hashes
    BY <1>0, <2>1, InsertTyped DEF PlacesTyped
  <2>3. PlacesTyped' /\ proc' = proc
    BY <1>0, <1>1, <2>1, <2>2 DEF InsertFound, PlacesTyped
  <2>. QED
    BY <1>0, <2>3, TypedLater
<1>2. CASE BeginScan \/ ScanDone \/ EndScan
  <2>. DEFINE todo == {f \in Files : There(f)}
  <2>1. /\ Fits([Idle EXCEPT !.pc = "walk", !.todo = todo]) /\ Fits(Idle)
        /\ Fits([Idle EXCEPT !.pc = "insert"])
    BY DEF Fits, State, Idle, NoJob
  <2>2. "scan" \in Procs
    BY DEF Procs
  <2>. HIDE DEF todo
  <2>3. ASSUME NEW s, Fits(s), Sets("scan", s)
        PROVE  proc' \in [Procs -> State] /\ \A q \in Procs : Fits(proc'[q])
    BY <2>2, <2>3, SetsFits
  <2>4. \/ Sets("scan", [Idle EXCEPT !.pc = "walk", !.todo = todo])
        \/ Sets("scan", [Idle EXCEPT !.pc = "insert"])
        \/ Sets("scan", Idle)
    BY <1>2 DEF BeginScan, ScanDone, EndScan, todo
  <2>5. proc' \in [Procs -> State] /\ \A q \in Procs : Fits(proc'[q])
    BY <2>1, <2>3, <2>4
  <2>6. PlacesTyped'
    <3>1. ASSUME BeginScan PROVE PlacesTyped'
      BY <1>0, <3>1 DEF BeginScan, PlacesTyped
    <3>2. ASSUME ScanDone PROVE PlacesTyped'
      BY <1>0, <3>2 DEF ScanDone, PlacesTyped
    <3>3. ASSUME EndScan PROVE PlacesTyped'
      BY <1>0, <3>3 DEF EndScan, PlacesTyped
    <3>. QED
      BY <1>2, <3>1, <3>2, <3>3
  <2>. QED
    BY <2>5, <2>6, TypedLater
<1>. QED
  BY <1>1, <1>2 DEF Scan

LEMMA ListenerTyped ==
  ASSUME Typed, Listener
  PROVE  Typed'
<1>. USE DEF config, timers, intake, table, flags, failing
<1>0. PlacesTyped /\ proc \in [Procs -> State] /\ \A p \in Procs : Fits(proc[p])
  BY TypedParts
<1>1. CASE Receive
  BY <1>0, <1>1, TypedLater DEF Receive, PlacesTyped
<1>2. CASE InsertReceived
  <2>1. rows' \in [Files -> Row] /\ fails' \in 0 .. MaxFails /\ doubled' \subseteq Hashes
    BY <1>0, <1>2, InsertTyped DEF InsertReceived, PlacesTyped
  <2>2. PlacesTyped' /\ proc' = proc
    BY <1>0, <1>2, <2>1 DEF InsertReceived, PlacesTyped
  <2>. QED
    BY <1>0, <2>2, TypedLater
<1>3. CASE BeginClose \/ StopTimers \/ WaitLoop \/ CloseChannels
  <2>1. ASSUME BeginClose PROVE PlacesTyped'
    BY <1>0, <2>1 DEF BeginClose, PlacesTyped
  <2>2. ASSUME StopTimers PROVE PlacesTyped'
    BY <1>0, <2>2 DEF StopTimers, PlacesTyped
  <2>3. ASSUME WaitLoop \/ CloseChannels PROVE PlacesTyped'
    BY <1>0, <2>3 DEF WaitLoop, CloseChannels, PlacesTyped
  <2>4. proc' = proc
    BY <1>3 DEF BeginClose, StopTimers, WaitLoop, CloseChannels
  <2>5. PlacesTyped'
    BY <1>3, <2>1, <2>2, <2>3
  <2>. QED
    BY <1>0, <2>4, <2>5, TypedLater
<1>. QED
  BY <1>1, <1>2, <1>3 DEF Listener

LEMMA TypedKept == ASSUME Typed, [Next]_vars PROVE Typed'
<1>1. CASE Cancel \/ UNCHANGED vars
  <2>. USE DEF config, timers, intake, table, flags, failing
  <2>1. ASSUME Cancel PROVE PlacesTyped' /\ proc' = proc
    BY <2>1, TypedParts DEF Cancel, PlacesTyped
  <2>2. ASSUME UNCHANGED vars PROVE PlacesTyped' /\ proc' = proc
    BY <2>2, TypedParts DEF vars, PlacesTyped
  <2>. QED
    BY <1>1, <2>1, <2>2, TypedParts, TypedLater
<1>. QED
  BY <1>1, DiskTyped, ProcessTyped, WatcherTyped, ScanTyped, ListenerTyped
  DEF Next, System

LEMMA TypedInit == Init => Typed
<1>. SUFFICES ASSUME Init PROVE Typed
  OBVIOUS
<1>1. Fits(Idle) /\ NoRow \in Row
  BY DEF Fits, State, Idle, NoJob, NoRow, Row
<1>2. /\ events \in Seq({<<"written", f>> : f \in Files} \cup {<<"directory">>})
      /\ channel \in Seq(Job) /\ Len(channel) <= Capacity
      /\ fails \in 0 .. MaxFails
      /\ MaxUnread[watch /\ periodic] \in Nat
      /\ unread \in 0 .. MaxUnread[watch /\ periodic]
  BY DEF Init
<1>3. /\ disk \in [Files -> {"absent", "part", "whole"}]
      /\ rows \in [Files -> Row]
  BY <1>1 DEF Init
<1>4. PlacesTyped
  BY <1>2, <1>3 DEF Init, PlacesTyped
<1>. QED
  BY <1>1, <1>4, TypedParts DEF Init, Fits

\* Whatever the goroutines, the timers and the listener do at the same time, each
\* variable keeps its type, and every job that is sent, received or inserted is
\* one that was made.
THEOREM TypesCorrect == Spec => []TypeOK
<1>1. Typed => TypeOK
  BY DEF Typed
<1>. QED
  BY <1>1, TypedInit, TypedKept, PTL DEF Spec

-----------------------------------------------------------------------------
(* The channel.                                                            *)

\* p takes up content that nobody has seen, a file that it cannot read, or has
\* nothing to do with the file.
LEMMA TakeUpMoves ==
  ASSUME Typed, NEW p \in Procs, NEW f \in Files, NEW left \in SUBSET Files,
         TakeUp(p, f, left)
  PROVE  /\ \A q \in Procs \ {p} : proc'[q] = proc[q]
         /\ \/ /\ HashOf(f) \notin seen /\ seen' = seen \cup {HashOf(f)}
               /\ proc'[p].pc = "check"
               /\ proc'[p].job.content = HashOf(f) /\ proc'[p].job.sum = HashOf(f)
            \/ /\ HashOf(f) \in missed' /\ seen' = seen
               /\ proc'[p].pc = "check" /\ proc'[p].job.content = HashOf(f)
            \/ proc'[p].pc = Done(p).pc /\ seen' = seen
         /\ missed \subseteq missed'
<1>. DEFINE new(sum) == [pc |-> "check", todo |-> left,
                         job |-> [path |-> f, content |-> HashOf(f), sum |-> sum]]
            skip == [Done(p) EXCEPT !.todo = left]
<1>1. proc \in [Procs -> State] /\ Done(p) \in State
  BY DoneFits DEF Typed, TypeOK, State, Fits
<1>2. skip.pc = Done(p).pc
  BY <1>1 DEF State
<1>3. \A sum : /\ new(sum).pc = "check"
               /\ new(sum).job.content = HashOf(f) /\ new(sum).job.sum = sum
  OBVIOUS
<1>4. \A s : Sets(p, s) => proc'[p] = s /\ \A q \in Procs \ {p} : proc'[q] = proc[q]
  BY <1>1 DEF Sets
<1>5. \/ Sets(p, skip) /\ UNCHANGED <<seen, failing>>
      \/ /\ Sets(p, new(HashOf(f))) /\ HashOf(f) \notin seen
         /\ seen' = seen \cup {HashOf(f)} /\ UNCHANGED failing
      \/ /\ Sets(p, new(NoHash)) /\ seen' = seen
         /\ missed' = missed \cup {HashOf(f)}
  BY DEF TakeUp, Skips, GoesOn
<1>. HIDE DEF new, skip
<1>. QED
  BY <1>2, <1>3, <1>4, <1>5 DEF failing

LEMMA DonePlace ==
  ASSUME Typed, NEW p \in Procs
  PROVE  Done(p).pc = IF p \in Callbacks THEN "idle" ELSE "walk"
BY DEF Typed, Fits, State, Done, Idle

\* Nothing starts to send, and the channel stays as open as it is.
LEMMA SendersStay ==
  ASSUME SendersGone, NoSendAfterClose, panicked' = panicked,
         listener' = "closed" => listener = "closed",
         \A p \in Procs : At(p, "sending")' => At(p, "sending")
  PROVE  SendersGone' /\ NoSendAfterClose'
BY DEF SendersGone, NoSendAfterClose

LEMMA SendersKept ==
  ASSUME Typed, SendersGone, NoSendAfterClose, [Next]_vars
  PROVE  SendersGone' /\ NoSendAfterClose'
<1>. USE DEF At, config, timers, intake, table, flags, failing
<1>0. proc \in [Procs -> State]
  BY TypedParts
<1>1. ASSUME NEW p \in Procs, Process(p)
      PROVE  SendersGone' /\ NoSendAfterClose'
  <2>1. Done(p).pc # "sending"
    BY DonePlace
  <2>2. CASE Walk(p)
    <3>1. PICK f \in Files : TakeUp(p, f, proc[p].todo \ {f})
      BY <1>0, <2>2 DEF Walk, State
    <3>2. proc[p].todo \ {f} \in SUBSET Files
      BY <1>0 DEF State
    <3>3. \A q \in Procs : At(q, "sending")' => At(q, "sending")
      BY <2>1, <3>1, <3>2, TakeUpMoves
    <3>. QED
      BY <2>2, <3>3, SendersStay DEF Walk
  <2>3. CASE MakeJob(p)
    <3>1. \A q \in Procs : At(q, "sending")' => At(q, "sending")
      BY <1>0, <2>1, <2>3 DEF MakeJob, Makes, Sets, State
    <3>. QED
      BY <2>3, <3>1, SendersStay DEF MakeJob
  <2>4. CASE SendJob(p)
    <3>1. CASE Put(p) \/ Sets(p, Done(p))
      <4>1. \A q \in Procs : At(q, "sending")' => At(q, "sending")
        BY <1>0, <2>1, <3>1 DEF Put, Sets
      <4>2. listener' = listener /\ (panicked' = panicked \/ listener # "closed")
        BY <2>4, <3>1 DEF SendJob, Put
      <4>3. CASE listener = "closed"
        BY <4>1, <4>2, <4>3, SendersStay
      <4>4. CASE listener # "closed"
        <5>1. panicked' = panicked
          BY <2>4, <3>1, <4>4, TypedParts DEF SendJob, Put, PlacesTyped
        <5>. QED
          BY <4>2, <4>4, <5>1 DEF SendersGone, NoSendAfterClose
      <4>. QED
        BY <4>3, <4>4
    <3>2. CASE listener # "closed" /\ UNCHANGED <<channel, panicked>>
      <4>1. listener' = listener
        BY <2>4 DEF SendJob
      <4>. QED
        BY <3>2, <4>1 DEF SendersGone, NoSendAfterClose
    <3>. QED
      BY <2>4, <3>1, <3>2 DEF SendJob
  <2>5. CASE Send(p) \/ GiveUpSend(p)
    <3>1. \A q \in Procs : At(q, "sending")' => At(q, "sending")
      BY <1>0, <2>1, <2>5 DEF Send, Put, GiveUpSend, Sets
    <3>2. listener # "closed"
      BY <2>5 DEF Send, GiveUpSend, SendersGone
    <3>3. panicked' = panicked /\ listener' = listener
      BY <2>5, <3>2, TypedParts DEF Send, Put, GiveUpSend, PlacesTyped
    <3>. QED
      BY <3>1, <3>3, SendersStay
  <2>. QED
    BY <1>1, <2>2, <2>3, <2>4, <2>5 DEF Process
<1>2. CASE Watcher
  <2>1. /\ listener' = listener /\ panicked' = panicked
        /\ \A q \in Procs : At(q, "sending")' => At(q, "sending")
    <3>1. ASSUME NEW s, s.pc # "sending", proc' = proc \/ Sets("loop", s)
          PROVE  \A q \in Procs : At(q, "sending")' => At(q, "sending")
      BY <1>0, <3>1 DEF Sets
    <3>2. CASE HandleEvent
      <4>1. [Idle EXCEPT !.pc = "walk", !.todo = {f \in InDir : There(f)}].pc # "sending"
        BY DEF Idle
      <4>. QED
        BY <3>1, <3>2, <4>1 DEF HandleEvent
    <3>3. CASE DirectoryDone \/ ExitLoop
      <4>1. Idle.pc # "sending" /\ [Idle EXCEPT !.pc = "exited"].pc # "sending"
        BY DEF Idle
      <4>. QED
        BY <3>1, <3>3, <4>1 DEF DirectoryDone, ExitLoop
    <3>4. ASSUME NEW k \in Callbacks, BeginCallback(k)
          PROVE  <2>1!:
      <4>1. k \in Procs /\ Path(k) \in Files /\ Done(k).pc # "sending"
        BY <3>4, DonePlace DEF BeginCallback, Procs, Path, Typed, Fits
      <4>. QED
        BY <3>4, <4>1, TakeUpMoves DEF BeginCallback
    <3>5. ASSUME NEW k \in Callbacks, NEW f \in Files, Fire(k, f)
          PROVE  <2>1!:
      BY <1>0, <3>5 DEF Fire, Idle, State, Sets, Procs
    <3>. QED
      BY <1>2, <3>2, <3>3, <3>4, <3>5 DEF Watcher
  <2>. QED
    BY <2>1, SendersStay
<1>3. CASE Scan
  <2>1. ASSUME NEW s, s.pc # "sending", proc' = proc \/ Sets("scan", s)
        PROVE  \A q \in Procs : At(q, "sending")' => At(q, "sending")
    BY <1>0, <2>1 DEF Sets
  <2>2. /\ Idle.pc # "sending" /\ [Idle EXCEPT !.pc = "insert"].pc # "sending"
        /\ [Idle EXCEPT !.pc = "walk", !.todo = {f \in Files : There(f)}].pc # "sending"
    BY DEF Idle
  <2>3. \A q \in Procs : At(q, "sending")' => At(q, "sending")
    BY <1>3, <2>1, <2>2 DEF Scan, BeginScan, ScanDone, InsertFound, EndScan
  <2>. QED
    BY <1>3, <2>3, SendersStay DEF Scan, BeginScan, ScanDone, InsertFound, EndScan
<1>4. CASE Listener
  <2>1. CASE CloseChannels
    BY <2>1 DEF CloseChannels, SendersGone, NoSendAfterClose
  <2>2. CASE Receive \/ InsertReceived \/ BeginClose \/ StopTimers \/ WaitLoop
    BY <2>2, SendersStay DEF Receive, InsertReceived, BeginClose, StopTimers, WaitLoop
  <2>. QED
    BY <1>4, <2>1, <2>2 DEF Listener
<1>5. CASE Storage \/ MoveDirectoryIn \/ Cancel \/ UNCHANGED vars
  BY <1>5, SendersStay
  DEF Storage, CreateFile, FinishFile, MoveDirectoryIn, rest, Cancel, vars
<1>. QED
  BY <1>1, <1>2, <1>3, <1>4, <1>5 DEF Next, System

\* Nobody sends on the closed channel: who is sending keeps Close waiting, and who
\* comes later finds it closed, the callback of a loose timer too.
THEOREM NobodySendsAfterClose == Spec => []NoSendAfterClose
<1>1. Init => Typed /\ SendersGone /\ NoSendAfterClose
  BY TypedInit DEF Init, SendersGone, NoSendAfterClose
<1>. QED
  BY <1>1, TypedKept, SendersKept, PTL DEF Spec

-----------------------------------------------------------------------------
(* Who is at work when.                                                    *)

\* A goroutine that the quiet keeps idle does not process files.
LEMMA QuietScan ==
  ASSUME Typed, Regime, NEW p \in Procs, Process(p), ~(started /\ watch)
  PROVE  p = "scan"
BY DEF Process, Walk, MakeJob, SendJob, Send, GiveUpSend, At, Regime, Quiet

\* What a goroutine that processes files does to the others and to itself.
LEMMA ProcessMoves ==
  ASSUME Typed, NEW p \in Procs, Process(p)
  PROVE  /\ UNCHANGED outside
         /\ \A q \in Procs \ {p} : proc'[q] = proc[q]
         /\ proc[p].pc = "walk" => proc'[p].pc \in {"idle", "walk", "check"}
         /\ p = "scan" /\ proc[p].pc = "check" => proc'[p].pc = "walk"
         /\ proc[p].pc \in {"walk", "check", "send", "sending"}
         /\ p # "scan" => found' = found
         /\ proc[p].pc \in {"walk", "check"} => UNCHANGED intake
         /\ UNCHANGED <<listener, held>>
         /\ proc'[p].pc = "idle" => p \in Callbacks
<1>. USE DEF At
<1>0. /\ proc \in [Procs -> State]
      /\ Done(p).pc = IF p \in Callbacks THEN "idle" ELSE "walk"
  BY TypedParts, DonePlace
<1>s. "scan" \notin Callbacks
  BY DEF Procs
<1>1. CASE Walk(p)
  <2>1. PICK f \in Files : TakeUp(p, f, proc[p].todo \ {f})
    BY <1>0, <1>1 DEF Walk, State
  <2>2. proc[p].todo \ {f} \in SUBSET Files
    BY <1>0 DEF State
  <2>3. /\ \A q \in Procs \ {p} : proc'[q] = proc[q]
        /\ proc'[p].pc = "check" \/ proc'[p].pc = Done(p).pc
    BY <2>1, <2>2, TakeUpMoves
  <2>. QED
    BY <1>0, <1>1, <1>s, <2>3 DEF Walk, intake
<1>2. CASE MakeJob(p)
  <2>. DEFINE sent(sum) ==
                [proc[p] EXCEPT !.pc = "send",
                   !.job = [path |-> Path(p), content |-> HashOf(Path(p)), sum |-> sum]]
  <2>0. \A sum : sent(sum).pc = "send"
    BY <1>0 DEF State
  <2>1. Sets(p, Done(p)) \/ \E sum : Sets(p, sent(sum)) /\ p # "scan"
    BY <1>2 DEF MakeJob, Makes
  <2>. HIDE DEF sent
  <2>2. PICK s : Sets(p, s) /\ \/ s = Done(p)
                               \/ s.pc = "send" /\ p # "scan"
    BY <2>0, <2>1
  <2>3. p # "scan" => found' = found
    BY <1>2 DEF MakeJob, Makes
  <2>. QED
    BY <1>0, <1>2, <1>s, <2>2, <2>3 DEF MakeJob, Sets, intake
<1>3. CASE SendJob(p)
  <2>1. PICK s : Sets(p, s) /\ (s = Done(p) \/ s.pc = "sending")
    BY <1>0, <1>3 DEF SendJob, Put, State
  <2>. QED
    BY <1>0, <1>3, <1>s, <2>1 DEF SendJob, Sets
<1>4. CASE Send(p) \/ GiveUpSend(p)
  BY <1>0, <1>4, <1>s DEF Send, Put, GiveUpSend, Sets, intake
<1>. QED
  BY <1>1, <1>2, <1>3, <1>4 DEF Process

LEMMA ProcessRegime ==
  ASSUME Typed, Regime, NEW p \in Procs, Process(p)
  PROVE  Regime'
<1>. USE DEF At, outside, config, timers, table, intake
<1>s. "scan" \in Procs /\ "scan" \notin Callbacks
  BY DEF Procs
<1>1. UNCHANGED <<watch, periodic, started, cancelled, events, armed, loose>>
  BY ProcessMoves
<1>2. /\ proc'["scan"].pc \in {"idle", "walk", "check", "insert"}
      /\ At("scan", "idle")' <=> At("scan", "idle")
  <2>1. CASE p = "scan"
    BY <1>s, <2>1, ProcessMoves DEF Regime
  <2>2. CASE p # "scan"
    BY <1>s, <2>2, ProcessMoves DEF Regime
  <2>. QED
    BY <2>1, <2>2
<1>3. At("scan", "idle")' => found' = {}
  <2>1. CASE p = "scan"
    BY <1>2, <2>1, ProcessMoves
  <2>2. CASE p # "scan"
    BY <1>2, <2>2, ProcessMoves DEF Regime
  <2>. QED
    BY <2>1, <2>2
<1>4. ~(started /\ watch) => Quiet'
  <2>. SUFFICES ASSUME ~(started /\ watch) PROVE Quiet'
    OBVIOUS
  <2>1. p = "scan" /\ Quiet /\ UNCHANGED intake
    BY QuietScan, ProcessMoves DEF Regime
  <2>. QED
    BY <1>1, <2>1, ProcessMoves DEF Quiet
<1>. QED
  BY <1>1, <1>2, <1>3, <1>4 DEF Regime

LEMMA WatcherRegime ==
  ASSUME Typed, Regime, Watcher
  PROVE  Regime'
<1>. USE DEF At, config, timers, intake, table, flags, failing
<1>0. proc \in [Procs -> State] /\ Callbacks \subseteq Procs /\ "loop" \in Procs
      /\ "loop" \notin Callbacks /\ "scan" \notin Callbacks
  BY TypedParts DEF Procs
<1>1. ~Quiet
  BY <1>0 DEF Watcher, HandleEvent, DirectoryDone, ExitLoop, BeginCallback, Fire, Quiet
<1>2. UNCHANGED <<watch, periodic, started, cancelled, found>>
  BY DEF Watcher, HandleEvent, DirectoryDone, ExitLoop, BeginCallback, Fire
<1>3. proc'["scan"] = proc["scan"]
  <2>1. CASE HandleEvent \/ DirectoryDone \/ ExitLoop
    <3>1. proc' = proc \/ \E s : Sets("loop", s)
      BY <2>1 DEF HandleEvent, DirectoryDone, ExitLoop
    <3>. QED
      BY <1>0, <3>1 DEF Sets, Procs
  <2>2. ASSUME NEW k \in Callbacks, BeginCallback(k)
        PROVE  <1>3!:
    <3>1. Path(k) \in Files
      BY <1>0, <2>2 DEF BeginCallback, Path, Typed, Fits
    <3>. QED
      BY <1>0, <2>2, <3>1, TakeUpMoves DEF BeginCallback, Procs
  <2>3. ASSUME NEW k \in Callbacks, NEW f \in Files, Fire(k, f)
        PROVE  <1>3!:
    BY <1>0, <2>3 DEF Fire, Sets
  <2>. QED
    BY <2>1, <2>2, <2>3 DEF Watcher
<1>. QED
  BY <1>1, <1>2, <1>3 DEF Regime

LEMMA ScanRegime ==
  ASSUME Typed, Regime, Scan
  PROVE  Regime'
<1>. USE DEF At, config, timers, intake, table, flags, failing
<1>0. proc \in [Procs -> State] /\ "scan" \in Procs
  BY TypedParts DEF Procs
<1>1. /\ UNCHANGED <<watch, periodic, cancelled, events, armed, loose, channel, listener>>
      /\ \A q \in Procs \ {"scan"} : proc'[q] = proc[q]
  BY <1>0 DEF Scan, BeginScan, ScanDone, InsertFound, EndScan, Sets
<1>2. Quiet => Quiet'
  BY <1>1 DEF Quiet
<1>3. CASE BeginScan
  <2>1. proc'["scan"].pc = "walk"
    BY <1>0, <1>3 DEF BeginScan, Sets, Idle
  <2>. QED
    BY <1>1, <1>2, <1>3, <2>1 DEF BeginScan, Regime
<1>4. CASE ScanDone
  <2>1. proc'["scan"].pc = "insert" /\ UNCHANGED started /\ ~At("scan", "idle")
    BY <1>0, <1>4 DEF ScanDone, Sets, Idle
  <2>. QED
    BY <1>1, <1>2, <2>1 DEF Regime
<1>5. CASE InsertFound
  <2>1. proc' = proc /\ UNCHANGED started /\ ~At("scan", "idle")
    BY <1>5 DEF InsertFound
  <2>. QED
    BY <1>1, <1>2, <2>1 DEF Regime
<1>6. CASE EndScan
  <2>1. proc'["scan"].pc = "idle" /\ started' /\ found' = {} /\ ~At("scan", "idle")
    BY <1>0, <1>6 DEF EndScan, Sets, Idle
  <2>. QED
    BY <1>1, <1>2, <2>1 DEF Regime
<1>. QED
  BY <1>3, <1>4, <1>5, <1>6 DEF Scan

LEMMA RegimeKept == ASSUME Typed, Regime, [Next]_vars PROVE Regime'
<1>. USE DEF At, config, timers, intake, table, flags, failing
<1>1. CASE Listener
  <2>1. ~Quiet \/ (started /\ watch)
    BY <1>1 DEF Listener, Receive, InsertReceived, BeginClose, StopTimers, WaitLoop,
                CloseChannels, Quiet, Regime
  <2>2. UNCHANGED <<watch, periodic, started, cancelled, found, proc>>
    BY <1>1 DEF Listener, Receive, InsertReceived, BeginClose, StopTimers, WaitLoop,
                CloseChannels
  <2>. QED
    BY <2>1, <2>2 DEF Regime
<1>2. CASE Storage \/ MoveDirectoryIn
  <2>1. /\ UNCHANGED rest
        /\ ~(started /\ watch) => events' = events
    BY <1>2 DEF Storage, CreateFile, FinishFile, MoveDirectoryIn, Notify
  <2>. QED
    BY <2>1 DEF rest, Regime, Quiet
<1>3. CASE Cancel
  BY <1>3 DEF Cancel, Regime, Quiet
<1>4. CASE UNCHANGED vars
  BY <1>4 DEF vars, Regime, Quiet
<1>. QED
  BY <1>1, <1>2, <1>3, <1>4, ProcessRegime, WatcherRegime, ScanRegime DEF Next, System

-----------------------------------------------------------------------------
(* A content h moves from place to place.                                  *)

\* What the other goroutines have in hand stays there.
LEMMA OthersStay ==
  ASSUME NEW p \in Procs, NEW h, \A q \in Procs \ {p} : proc'[q] = proc[q]
  PROVE  \A q \in Procs \ {p} : /\ Busy(q, h)' = Busy(q, h) /\ Made(q, h)' = Made(q, h)
                                /\ proc'[q].job = proc[q].job
BY DEF Busy, Made

\* A goroutine goes on with a job that it has, drops it, or takes up what nobody
\* has seen.
LEMMA GoroutineMoves ==
  ASSUME NEW h, OneJob(h), NEW p \in Procs, \A q \in Procs \ {p} : proc'[q] = proc[q],
         UNCHANGED <<found, intake, rows, doubled>>, seen \subseteq seen',
         Busy(p, h)' =>
           /\ \/ Busy(p, h) /\ (Made(p, h)' => Made(p, h) \/ ~HasContent(h))
              \/ h \notin seen /\ h \in seen' /\ ~Made(p, h)'
           /\ proc'[p].job.sum = h
  PROVE  OneJob(h)'
<1>. USE DEF OneJob, intake
<1>1. /\ InFound(h)' = InFound(h) /\ InChannel(h)' = InChannel(h) /\ Held(h)' = Held(h)
      /\ HasContent(h)' = HasContent(h)
  BY DEF InFound, InChannel, Held, HasContent
<1>2. ASSUME Busy(p, h)'
      PROVE  /\ \A q \in Procs \ {p} : ~Busy(q, h)
             /\ ~InFound(h) /\ ~InChannel(h) /\ ~Held(h) /\ h \in seen'
  BY <1>2 DEF Once, Seen, InHand
<1>3. Once(h)'
  BY <1>1, <1>2, OthersStay DEF Once, InHand
<1>4. Seen(h)'
  BY <1>1, <1>2, OthersStay DEF Seen, InHand
<1>5. NoRowYet(h)'
  <2>1. \A q \in Procs : Made(q, h)' => ~HasContent(h)
    BY OthersStay DEF NoRowYet, Made, Busy
  <2>. QED
    BY <1>1, <2>1 DEF NoRowYet
<1>6. Read(h)'
  <2>1. \A q \in Procs : Busy(q, h)' => proc'[q].job.sum = h
    BY OthersStay DEF Read
  <2>. QED
    BY <1>1, <2>1 DEF Read
<1>. QED
  BY <1>3, <1>4, <1>5, <1>6

\* What a goroutine has in hand is nowhere else, and no other has it afterwards.
LEMMA GoroutineLeaves ==
  ASSUME NEW h, OneJob(h), NEW p \in Procs, \A q \in Procs \ {p} : proc'[q] = proc[q],
         Busy(p, h), ~Busy(p, h)'
  PROVE  /\ \A q \in Procs : ~Busy(q, h)' /\ ~Made(q, h)'
         /\ ~InHand(h)' /\ ~InFound(h) /\ ~InChannel(h) /\ ~Held(h)
         /\ h \in seen
<1>1. \A q \in Procs \ {p} : ~Busy(q, h)
  BY DEF OneJob, Once
<1>2. \A q \in Procs : ~Busy(q, h)' /\ ~Made(q, h)'
  BY <1>1, OthersStay DEF Busy, Made
<1>. QED
  BY <1>2 DEF OneJob, Once, Seen, InHand

\* The scan adds a job to its list.
LEMMA JobListed ==
  ASSUME NEW h, OneJob(h), NEW p \in Procs, \A q \in Procs \ {p} : proc'[q] = proc[q],
         ~Busy(p, h)', NEW j, found' = found \cup {j},
         j.content = h => Busy(p, h) /\ j.sum = h /\ ~HasContent(h),
         UNCHANGED <<intake, rows, doubled, seen>>
  PROVE  OneJob(h)'
<1>. USE DEF OneJob, intake
<1>1. /\ InChannel(h)' = InChannel(h) /\ Held(h)' = Held(h)
      /\ HasContent(h)' = HasContent(h)
  BY DEF InChannel, Held, HasContent
<1>2. \A q \in Procs : /\ Busy(q, h)' => Busy(q, h) /\ q # p
                       /\ Made(q, h)' => Made(q, h)
                       /\ Busy(q, h)' => proc'[q].job = proc[q].job
  BY OthersStay DEF Busy, Made
<1>3. CASE j.content = h
  <2>1. /\ \A q \in Procs : ~Busy(q, h)' /\ ~Made(q, h)'
        /\ ~InHand(h)' /\ ~InFound(h) /\ ~InChannel(h) /\ ~Held(h)
        /\ h \in seen
    BY <1>3, GoroutineLeaves
  <2>2. \A k \in found' : k.content = h => k = j
    BY <2>1 DEF InFound
  <2>. QED
    BY <1>1, <1>3, <2>1, <2>2 DEF Once, Seen, NoRowYet, Read
<1>4. CASE j.content # h
  <2>1. InFound(h)' = InFound(h) /\ (InHand(h)' => InHand(h))
    BY <1>2, <1>4 DEF InFound, InHand
  <2>. QED
    BY <1>1, <1>2, <1>4, <2>1 DEF Once, Seen, NoRowYet, Read
<1>. QED
  BY <1>3, <1>4

\* A goroutine sends its job.
LEMMA JobSent ==
  ASSUME Typed, NEW h, OneJob(h), NEW p \in Procs,
         \A q \in Procs \ {p} : proc'[q] = proc[q],
         Made(p, proc[p].job.content), ~Busy(p, h)',
         channel' = Append(channel, proc[p].job),
         UNCHANGED <<found, listener, held, rows, doubled, seen>>
  PROVE  OneJob(h)'
<1>. USE DEF OneJob
<1>0. channel \in Seq(Job) /\ proc[p].job \in Job
  BY DEF Typed, TypeOK, Fits, Made
<1>1. /\ InFound(h)' = InFound(h) /\ Held(h)' = Held(h)
      /\ HasContent(h)' = HasContent(h)
  BY DEF InFound, Held, HasContent
<1>2. \A q \in Procs : /\ Busy(q, h)' => Busy(q, h) /\ q # p
                       /\ Made(q, h)' => Made(q, h)
                       /\ Busy(q, h)' => proc'[q].job = proc[q].job
  BY OthersStay DEF Busy, Made
<1>3. /\ DOMAIN channel' = DOMAIN channel \cup {Len(channel) + 1}
      /\ \A i \in DOMAIN channel : channel'[i] = channel[i]
      /\ channel'[Len(channel) + 1] = proc[p].job
  BY <1>0
<1>4. CASE proc[p].job.content = h
  <2>1. Busy(p, h) /\ Made(p, h)
    BY <1>4 DEF Busy, Made
  <2>2. /\ \A q \in Procs : ~Busy(q, h)' /\ ~Made(q, h)'
        /\ ~InHand(h)' /\ ~InFound(h) /\ ~InChannel(h) /\ ~Held(h)
        /\ h \in seen
    BY <2>1, GoroutineLeaves
  <2>3. \A i \in DOMAIN channel' : channel'[i].content = h => i = Len(channel) + 1
    BY <1>3, <2>2 DEF InChannel
  <2>. QED
    BY <1>1, <1>3, <2>1, <2>2, <2>3 DEF Once, Seen, NoRowYet, Read
<1>5. CASE proc[p].job.content # h
  <2>1. \A i \in DOMAIN channel' :
          channel'[i].content = h => i \in DOMAIN channel /\ channel'[i] = channel[i]
    BY <1>3, <1>5
  <2>2. (InChannel(h)' => InChannel(h)) /\ (InHand(h)' => InHand(h))
    BY <1>2, <2>1 DEF InChannel, InHand
  <2>. QED
    BY <1>1, <1>2, <2>1, <2>2 DEF Once, Seen, NoRowYet, Read
<1>. QED
  BY <1>4, <1>5

\* The listener takes the oldest job from the channel.
LEMMA JobReceived ==
  ASSUME Typed, NEW h, OneJob(h), Receive
  PROVE  OneJob(h)'
<1>. USE DEF OneJob, Receive, table
<1>0. channel \in Seq(Job) /\ channel # <<>>
  BY DEF Typed, TypeOK
<1>1. /\ Len(channel') = Len(channel) - 1 /\ Len(channel) \in Nat \ {0}
      /\ \A i \in 1 .. Len(channel) - 1 : channel'[i] = channel[i + 1]
      /\ DOMAIN channel = 1 .. Len(channel)
      /\ DOMAIN channel' = 1 .. Len(channel) - 1
      /\ held' = channel[1]
  BY <1>0
<1>2. /\ 1 \in DOMAIN channel
      /\ \A i \in DOMAIN channel' : i + 1 \in DOMAIN channel /\ i + 1 # 1
                                    /\ channel'[i] = channel[i + 1]
  BY <1>1
<1>3. /\ InFound(h)' = InFound(h) /\ InHand(h)' = InHand(h)
      /\ HasContent(h)' = HasContent(h)
      /\ \A q \in Procs : Busy(q, h)' = Busy(q, h) /\ Made(q, h)' = Made(q, h)
  BY DEF InFound, InHand, Busy, Made, HasContent
<1>4. /\ Held(h)' => channel[1].content = h /\ InChannel(h)
      /\ InChannel(h)' => InChannel(h)
  BY <1>1, <1>2 DEF Held, InChannel
<1>5. ~(Held(h)' /\ InChannel(h)')
  BY <1>1, <1>2 DEF Held, InChannel, Once
<1>6. \A i, k \in DOMAIN channel' :
        channel'[i].content = h /\ channel'[k].content = h => i = k
  <2>1. ASSUME NEW i \in DOMAIN channel', NEW k \in DOMAIN channel',
               channel'[i].content = h, channel'[k].content = h
        PROVE  i = k
    <3>1. i + 1 = k + 1
      BY <1>2, <2>1 DEF Once
    <3>. QED
      BY <1>1, <3>1
  <2>. QED
    BY <2>1
<1>7. Once(h)'
  BY <1>3, <1>4, <1>5, <1>6 DEF Once
<1>8. Seen(h)' /\ NoRowYet(h)'
  BY <1>3, <1>4 DEF Seen, NoRowYet
<1>9. Read(h)'
  BY <1>1, <1>2, <1>3, <1>4 DEF Read
<1>. QED
  BY <1>7, <1>8, <1>9

\* A job that is inserted has left its place, and its content gets a row.
LEMMA JobInserted ==
  ASSUME Typed, NEW h, OneJob(h), NEW j \in Job, Inserts(j) \/ InsertFails,
         UNCHANGED <<proc, channel, seen>>,
         \/ j \in found /\ found' = found \ {j} /\ UNCHANGED <<listener, held>>
         \/ j = held /\ listener = "insert" /\ listener' # "insert" /\ found' = found
  PROVE  OneJob(h)'
<1>. USE DEF OneJob
<1>1. /\ InChannel(h)' = InChannel(h) /\ InHand(h)' = InHand(h)
      /\ \A q \in Procs : Busy(q, h)' = Busy(q, h) /\ Made(q, h)' = Made(q, h)
  BY DEF InChannel, InHand, Busy, Made
<1>2. /\ InFound(h)' => InFound(h)
      /\ Held(h)' => Held(h) /\ held' = held
      /\ \A k \in found' : k \in found
  BY DEF InFound, Held
<1>3. CASE j.content = h
  <2>1. /\ InFound(h) \/ Held(h)
        /\ ~InHand(h) /\ ~InChannel(h) /\ j.sum = h
    BY <1>3 DEF InFound, Held, Once, Read
  <2>2. ~InFound(h)' /\ ~Held(h)'
    BY <1>3 DEF InFound, Held, Once
  <2>3. ~HasContent(h)
    BY <2>1 DEF NoRowYet
  <2>4. /\ h \notin doubled'
        /\ \A f \in Files : rows'[f].there /\ rows'[f].content = h => rows'[f].sum = h
    BY <1>3, <2>1, <2>3 DEF Inserts, InsertFails, Typed, TypeOK, Read
  <2>5. \A q \in Procs : ~Busy(q, h) /\ ~Made(q, h)
    BY <2>1 DEF InHand, Busy, Made
  <2>. QED
    BY <1>1, <1>2, <2>1, <2>2, <2>4, <2>5 DEF Once, Seen, NoRowYet, Read, InFound, InChannel
<1>4. CASE j.content # h
  <2>1. /\ h \notin doubled' /\ (HasContent(h)' => HasContent(h))
        /\ \A f \in Files : rows'[f].there /\ rows'[f].content = h => rows'[f].sum = h
    <3>1. h \notin doubled'
      BY <1>4 DEF Inserts, InsertFails
    <3>2. \A f \in Files : rows'[f].there /\ rows'[f].content = h =>
                             rows[f].there /\ rows[f] = rows'[f]
      BY <1>4 DEF Inserts, InsertFails, Typed, TypeOK
    <3>. QED
      BY <3>1, <3>2 DEF HasContent, Read
  <2>2. Once(h)' /\ Seen(h)'
    BY <1>1, <1>2 DEF Once, Seen
  <2>3. NoRowYet(h)'
    BY <1>1, <1>2, <2>1 DEF NoRowYet
  <2>4. Read(h)'
    BY <1>1, <1>2, <2>1 DEF Read
  <2>. QED
    BY <2>1, <2>2, <2>3, <2>4
<1>. QED
  BY <1>3, <1>4

\* Nothing of the content moves.
LEMMA ContentStays ==
  ASSUME NEW h, OneJob(h), UNCHANGED <<found, channel, rows, doubled, seen>>,
         Held(h)' = Held(h), Held(h) => held' = held,
         \A q \in Procs : /\ Busy(q, h)' = Busy(q, h) /\ Made(q, h)' = Made(q, h)
                          /\ Busy(q, h) => proc'[q].job = proc[q].job
  PROVE  OneJob(h)'
<1>1. /\ InFound(h)' = InFound(h) /\ InChannel(h)' = InChannel(h)
      /\ InHand(h)' = InHand(h) /\ HasContent(h)' = HasContent(h)
  BY DEF InFound, InChannel, InHand, HasContent
<1>2. Once(h)' /\ Seen(h)'
  BY <1>1 DEF OneJob, Once, Seen
<1>3. NoRowYet(h)' /\ Read(h)'
  BY <1>1 DEF OneJob, NoRowYet, Read
<1>. QED
  BY <1>2, <1>3 DEF OneJob

-----------------------------------------------------------------------------
(* No content has two jobs.                                                *)

\* A goroutine that sets its state leaves the others alone.
LEMMA SetsMoves ==
  ASSUME Typed, NEW p \in Procs, NEW s, Sets(p, s)
  PROVE  proc'[p] = s /\ \A q \in Procs \ {p} : proc'[q] = proc[q]
BY DEF Typed, TypeOK, Sets

\* Content that the database was asked about and did not find has no row.
LEMMA NotFound ==
  ASSUME NEW h \in Hashes, OneJob(h), ~HasJob(h)
  PROVE  ~HasContent(h)
<1>1. h # NoHash
  <2>1. \E a, b : h = <<a, b>>
    BY DEF Hashes
  <2>2. \A a, b : DOMAIN <<a, b>> = 1 .. 2 /\ 1 \in 1 .. 2
    OBVIOUS
  <2>3. DOMAIN NoHash = {}
    BY DEF NoHash
  <2>. QED
    BY <2>1, <2>2, <2>3
<1>. QED
  BY <1>1 DEF OneJob, Read, HasJob, HasContent

LEMMA MakeJobTokens ==
  ASSUME Typed, NEW h \in Hashes, h \notin missed', OneJob(h),
         NEW p \in Procs, MakeJob(p)
  PROVE  OneJob(h)'
<1>. DEFINE second    == HashOf(Path(p))
            job(sum)  == [path |-> Path(p), content |-> second, sum |-> sum]
            sent(sum) == [proc[p] EXCEPT !.pc = "send", !.job = job(sum)]
<1>0. /\ proc \in [Procs -> State]
      /\ Done(p).pc \notin {"check", "send", "sending"}
  BY TypedParts, DonePlace
<1>1. \A sum : /\ sent(sum).pc = "send" /\ sent(sum).job = job(sum)
               /\ job(sum).content = second /\ job(sum).sum = sum
  BY <1>0 DEF State
<1>2. /\ At(p, "check")
      /\ UNCHANGED <<intake, rows, doubled, seen>>
  BY DEF MakeJob, outside, table
<1>3. \/ Sets(p, Done(p)) /\ found' = found
      \/ \E sum : /\ \/ (Sets(p, Done(p)) /\ found' = found \cup {job(sum)})
                     \/ (Sets(p, sent(sum)) /\ found' = found)
                  /\ \/ sum = second /\ ~HasJob(proc[p].job.sum)
                        /\ (second = proc[p].job.content \/ second \in missed')
                     \/ second \in missed'
  BY DEF MakeJob, Makes
<1>. HIDE DEF second, job, sent
<1>4. CASE Sets(p, Done(p)) /\ found' = found
  <2>1. ~Busy(p, h)' /\ \A q \in Procs \ {p} : proc'[q] = proc[q]
    BY <1>0, <1>4, SetsMoves DEF Busy
  <2>. QED
    BY <1>2, <1>4, <2>1, GoroutineMoves
<1>5. ASSUME NEW sum,
             \/ (Sets(p, Done(p)) /\ found' = found \cup {job(sum)})
             \/ (Sets(p, sent(sum)) /\ found' = found),
             \/ sum = second /\ ~HasJob(proc[p].job.sum)
                /\ (second = proc[p].job.content \/ second \in missed')
             \/ second \in missed'
      PROVE  OneJob(h)'
  <2>1. second = h => Busy(p, h) /\ sum = h /\ ~HasContent(h)
    <3>. SUFFICES ASSUME second = h PROVE Busy(p, h) /\ sum = h /\ ~HasContent(h)
      OBVIOUS
    <3>1. sum = h /\ ~HasJob(proc[p].job.sum) /\ proc[p].job.content = h
      BY <1>5
    <3>2. Busy(p, h)
      BY <1>2, <3>1 DEF At, Busy
    <3>3. proc[p].job.sum = h
      BY <3>2 DEF OneJob, Read
    <3>. QED
      BY <3>1, <3>2, <3>3, NotFound
  <2>2. CASE Sets(p, Done(p)) /\ found' = found \cup {job(sum)}
    <3>1. ~Busy(p, h)' /\ \A q \in Procs \ {p} : proc'[q] = proc[q]
      BY <1>0, <2>2, SetsMoves DEF Busy
    <3>2. job(sum).content = h => Busy(p, h) /\ job(sum).sum = h /\ ~HasContent(h)
      BY <1>1, <2>1
    <3>. QED
      BY <1>2, <2>2, <3>1, <3>2, JobListed
  <2>3. CASE Sets(p, sent(sum)) /\ found' = found
    <3>1. proc'[p] = sent(sum) /\ \A q \in Procs \ {p} : proc'[q] = proc[q]
      BY <2>3, SetsMoves
    <3>2. Busy(p, h)' => Busy(p, h) /\ proc'[p].job.sum = h /\ ~HasContent(h)
      BY <1>1, <2>1, <3>1 DEF Busy
    <3>. QED
      BY <1>2, <2>3, <3>1, <3>2, GoroutineMoves
  <2>. QED
    BY <1>5, <2>2, <2>3
<1>. QED
  BY <1>3, <1>4, <1>5

LEMMA ProcessTokens ==
  ASSUME Typed, NEW h \in Hashes, h \notin missed', OneJob(h),
         NEW p \in Procs, Process(p)
  PROVE  OneJob(h)'
<1>. USE DEF At, outside, table, intake
<1>0. /\ proc \in [Procs -> State]
      /\ Done(p).pc \notin {"check", "send", "sending"}
  BY TypedParts, DonePlace
<1>1. \A q \in Procs \ {p} : proc'[q] = proc[q]
  BY ProcessMoves
<1>2. CASE Walk(p)
  <2>1. PICK f \in Files : TakeUp(p, f, proc[p].todo \ {f})
    BY <1>0, <1>2 DEF Walk, State
  <2>2. proc[p].todo \ {f} \in SUBSET Files
    BY <1>0 DEF State
  <2>3. \/ /\ HashOf(f) \notin seen /\ seen' = seen \cup {HashOf(f)}
           /\ proc'[p].pc = "check"
           /\ proc'[p].job.content = HashOf(f) /\ proc'[p].job.sum = HashOf(f)
        \/ /\ HashOf(f) \in missed' /\ seen' = seen
           /\ proc'[p].pc = "check" /\ proc'[p].job.content = HashOf(f)
        \/ proc'[p].pc = Done(p).pc /\ seen' = seen
    BY <2>1, <2>2, TakeUpMoves
  <2>4. /\ seen \subseteq seen'
        /\ Busy(p, h)' => /\ h \notin seen /\ h \in seen' /\ ~Made(p, h)'
                          /\ proc'[p].job.sum = h
    BY <1>0, <2>3 DEF Busy, Made
  <2>. QED
    BY <1>1, <1>2, <2>4, GoroutineMoves DEF Walk
<1>3. CASE MakeJob(p)
  BY <1>3, MakeJobTokens
<1>4. CASE (SendJob(p) \/ Send(p)) /\ Put(p)
  <2>1. Made(p, proc[p].job.content) /\ ~Busy(p, h)'
    BY <1>0, <1>4, SetsMoves DEF SendJob, Send, Put, Made, Busy
  <2>2. /\ channel' = Append(channel, proc[p].job)
        /\ UNCHANGED <<found, listener, held, rows, doubled, seen>>
    BY <1>4 DEF SendJob, Send, Put
  <2>. QED
    BY <1>1, <2>1, <2>2, JobSent
<1>5. CASE (SendJob(p) \/ GiveUpSend(p)) /\ Sets(p, Done(p)) /\ channel' = channel
  <2>1. ~Busy(p, h)'
    BY <1>0, <1>5, SetsMoves DEF Busy
  <2>. QED
    BY <1>1, <1>5, <2>1, GoroutineMoves DEF SendJob, GiveUpSend
<1>6. CASE SendJob(p) /\ Sets(p, [proc[p] EXCEPT !.pc = "sending"])
           /\ channel' = channel
  <2>1. proc'[p].pc = "sending" /\ proc'[p].job = proc[p].job
    BY <1>0, <1>6, SetsMoves DEF State
  <2>2. Busy(p, h)' => Busy(p, h) /\ Made(p, h)
    BY <1>6, <2>1 DEF SendJob, Busy, Made
  <2>3. Busy(p, h)' => proc'[p].job.sum = h
    BY <2>1, <2>2 DEF OneJob, Read
  <2>. QED
    BY <1>1, <1>6, <2>2, <2>3, GoroutineMoves DEF SendJob
<1>. QED
  BY <1>2, <1>3, <1>4, <1>5, <1>6 DEF Process, SendJob, Send, GiveUpSend

LEMMA WatcherTokens ==
  ASSUME Typed, NEW h \in Hashes, h \notin missed', OneJob(h), Watcher
  PROVE  OneJob(h)'
<1>. USE DEF At, table, intake, config, timers
<1>0. proc \in [Procs -> State] /\ "loop" \in Procs /\ Callbacks \subseteq Procs
  BY TypedParts DEF Procs
<1>1. ASSUME NEW p \in Procs, NEW s, s.pc \notin {"check", "send", "sending"},
             proc[p].pc \notin {"check", "send", "sending"},
             proc' = proc \/ Sets(p, s),
             UNCHANGED <<found, intake, rows, doubled, seen>>
      PROVE  OneJob(h)'
  <2>1. Held(h)' = Held(h) /\ held' = held
    BY <1>1 DEF Held
  <2>2. \A q \in Procs : /\ Busy(q, h)' = Busy(q, h) /\ Made(q, h)' = Made(q, h)
                         /\ Busy(q, h) => proc'[q].job = proc[q].job
    BY <1>0, <1>1, SetsMoves DEF Busy, Made
  <2>. QED
    BY <1>1, <2>1, <2>2, ContentStays
<1>2. CASE HandleEvent
  <2>1. [Idle EXCEPT !.pc = "walk", !.todo = {f \in InDir : There(f)}].pc = "walk"
    BY DEF Idle
  <2>. QED
    BY <1>0, <1>1, <1>2, <2>1 DEF HandleEvent
<1>3. CASE DirectoryDone \/ ExitLoop
  <2>1. Idle.pc = "idle" /\ [Idle EXCEPT !.pc = "exited"].pc = "exited"
    BY DEF Idle
  <2>. QED
    BY <1>0, <1>1, <1>3, <2>1 DEF DirectoryDone, ExitLoop
<1>4. ASSUME NEW k \in Callbacks, BeginCallback(k)
      PROVE  OneJob(h)'
  <2>1. Path(k) \in Files /\ Done(k).pc = "idle"
    BY <1>0, <1>4, DonePlace DEF BeginCallback, Path, Typed, Fits
  <2>2. /\ \A q \in Procs \ {k} : proc'[q] = proc[q]
        /\ \/ /\ HashOf(Path(k)) \notin seen /\ seen' = seen \cup {HashOf(Path(k))}
              /\ proc'[k].pc = "check"
              /\ proc'[k].job.content = HashOf(Path(k))
              /\ proc'[k].job.sum = HashOf(Path(k))
           \/ /\ HashOf(Path(k)) \in missed' /\ seen' = seen
              /\ proc'[k].pc = "check" /\ proc'[k].job.content = HashOf(Path(k))
           \/ proc'[k].pc = "idle" /\ seen' = seen
    BY <1>0, <1>4, <2>1, TakeUpMoves DEF BeginCallback
  <2>3. /\ seen \subseteq seen'
        /\ Busy(k, h)' => /\ h \notin seen /\ h \in seen' /\ ~Made(k, h)'
                          /\ proc'[k].job.sum = h
    BY <2>2 DEF Busy, Made
  <2>. QED
    BY <1>0, <1>4, <2>2, <2>3, GoroutineMoves DEF BeginCallback
<1>5. ASSUME NEW k \in Callbacks, NEW f \in Files, Fire(k, f)
      PROVE  OneJob(h)'
  <2>1. [Idle EXCEPT !.pc = "begin", !.job = [path |-> f, content |-> NoHash,
                                              sum |-> NoHash]].pc = "begin"
    BY DEF Idle
  <2>. QED
    BY <1>0, <1>1, <1>5, <2>1 DEF Fire
<1>. QED
  BY <1>2, <1>3, <1>4, <1>5 DEF Watcher

LEMMA ScanTokens ==
  ASSUME Typed, Regime, NEW h \in Hashes, OneJob(h), ~(watch /\ periodic), Scan
  PROVE  OneJob(h)'
<1>. USE DEF At, table, intake, config, timers
<1>0. proc \in [Procs -> State] /\ "scan" \in Procs
  BY TypedParts DEF Procs
<1>1. CASE BeginScan
  <2>1. proc'["scan"].pc = "walk" /\ \A q \in Procs \ {"scan"} : proc'[q] = proc[q]
    BY <1>0, <1>1 DEF BeginScan, Sets, Idle
  <2>2. Quiet /\ found = {}
    BY <1>1 DEF BeginScan, Regime, Typed, TypeOK
  <2>3. \A q \in Procs : ~Busy(q, h)' /\ ~Made(q, h)'
    BY <2>1, <2>2 DEF Quiet, Busy, Made
  <2>4. ~InHand(h)' /\ ~InFound(h)' /\ ~InChannel(h)' /\ ~Held(h)'
    BY <1>1, <2>2, <2>3 DEF BeginScan, Quiet, InHand, InFound, InChannel, Held
  <2>5. UNCHANGED <<rows, doubled, found, channel>>
    BY <1>1 DEF BeginScan
  <2>. QED
    BY <2>2, <2>3, <2>4, <2>5
    DEF Quiet, OneJob, Once, Seen, NoRowYet, Read
<1>2. CASE ScanDone \/ EndScan
  <2>1. PICK s : Sets("scan", s) /\ s.pc \in {"idle", "insert"}
    <3>1. Idle.pc = "idle" /\ [Idle EXCEPT !.pc = "insert"].pc = "insert"
      BY DEF Idle
    <3>. QED
      BY <1>2, <3>1 DEF ScanDone, EndScan
  <2>2. UNCHANGED <<found, channel, listener, held, rows, doubled, seen>>
        /\ proc["scan"].pc \in {"walk", "insert"}
    BY <1>2 DEF ScanDone, EndScan
  <2>3. Held(h)' = Held(h)
    BY <2>2 DEF Held
  <2>4. \A q \in Procs : /\ Busy(q, h)' = Busy(q, h) /\ Made(q, h)' = Made(q, h)
                         /\ Busy(q, h) => proc'[q].job = proc[q].job
    BY <1>0, <2>1, <2>2, SetsMoves DEF Busy, Made
  <2>. QED
    BY <2>2, <2>3, <2>4, ContentStays
<1>3. CASE InsertFound
  <2>1. PICK j \in found : found' = found \ {j} /\ (Inserts(j) \/ InsertFails)
    BY <1>3 DEF InsertFound
  <2>2. j \in Job
    BY DEF Typed, TypeOK
  <2>. QED
    BY <1>3, <2>1, <2>2, JobInserted DEF InsertFound
<1>. QED
  BY <1>1, <1>2, <1>3 DEF Scan

LEMMA ListenerTokens ==
  ASSUME Typed, NEW h \in Hashes, OneJob(h), Listener
  PROVE  OneJob(h)'
<1>. USE DEF table, intake, config, timers
<1>1. CASE Receive
  BY <1>1, JobReceived
<1>2. CASE InsertReceived
  <2>1. held \in Job
    BY <1>2 DEF InsertReceived, Typed
  <2>. QED
    BY <1>2, <2>1, JobInserted DEF InsertReceived
<1>3. CASE BeginClose \/ StopTimers \/ WaitLoop \/ CloseChannels
  <2>1. /\ UNCHANGED <<found, channel, rows, doubled, seen, proc, held>>
        /\ listener # "insert" /\ listener' # "insert"
    BY <1>3 DEF BeginClose, StopTimers, WaitLoop, CloseChannels
  <2>2. Held(h)' = Held(h)
    BY <2>1 DEF Held
  <2>3. \A q \in Procs : Busy(q, h)' = Busy(q, h) /\ Made(q, h)' = Made(q, h)
    BY <2>1 DEF Busy, Made
  <2>. QED
    BY <2>1, <2>2, <2>3, ContentStays
<1>. QED
  BY <1>1, <1>2, <1>3 DEF Listener

\* A content that is missed stays one, and the configuration is what it was.
LEMMA MissedStays ==
  ASSUME Typed, [Next]_vars
  PROVE  missed \subseteq missed' /\ UNCHANGED config
<1>. USE DEF config, table, intake, timers, flags, failing, outside
<1>1. ASSUME NEW p \in Procs, Process(p)
      PROVE  missed \subseteq missed' /\ UNCHANGED config
  <2>1. UNCHANGED config
    BY <1>1 DEF Process, Walk, MakeJob, SendJob, Send, GiveUpSend
  <2>2. CASE Walk(p)
    BY <2>2 DEF Walk, TakeUp
  <2>3. CASE MakeJob(p)
    BY <2>3 DEF MakeJob
  <2>4. CASE SendJob(p) \/ Send(p) \/ GiveUpSend(p)
    BY <2>4 DEF SendJob, Send, GiveUpSend
  <2>. QED
    BY <1>1, <2>1, <2>2, <2>3, <2>4 DEF Process
<1>2. CASE Watcher
  BY <1>2
  DEF Watcher, HandleEvent, DirectoryDone, ExitLoop, BeginCallback, Fire, TakeUp
<1>3. CASE Scan \/ Listener
  BY <1>3
  DEF Scan, BeginScan, ScanDone, InsertFound, EndScan,
      Listener, Receive, InsertReceived, BeginClose, StopTimers, WaitLoop, CloseChannels
<1>4. CASE Storage \/ MoveDirectoryIn \/ Cancel \/ UNCHANGED vars
  BY <1>4 DEF Storage, CreateFile, FinishFile, MoveDirectoryIn, rest, Cancel, vars
<1>. QED
  BY <1>1, <1>2, <1>3, <1>4 DEF Next, System

LEMMA TokensKept ==
  ASSUME Typed, Regime, Tokens, [Next]_vars
  PROVE  Tokens'
<1>. SUFFICES ASSUME ~(watch /\ periodic)', NEW h \in Hashes, h \notin missed'
              PROVE  OneJob(h)'
  BY DEF Tokens
<1>1. OneJob(h) /\ ~(watch /\ periodic)
  BY MissedStays DEF Tokens, config
<1>2. CASE Storage \/ MoveDirectoryIn \/ Cancel \/ UNCHANGED vars
  <2>1. UNCHANGED <<found, intake, rows, doubled, seen, proc>>
    BY <1>2 DEF Storage, CreateFile, FinishFile, MoveDirectoryIn, rest, Cancel, vars,
                table
  <2>2. Held(h)' = Held(h) /\ UNCHANGED <<channel, held>>
    BY <2>1 DEF Held, intake
  <2>3. \A q \in Procs : Busy(q, h)' = Busy(q, h) /\ Made(q, h)' = Made(q, h)
    BY <2>1 DEF Busy, Made
  <2>. QED
    BY <1>1, <2>1, <2>2, <2>3, ContentStays
<1>. QED
  BY <1>1, <1>2, ProcessTokens, WatcherTokens, ScanTokens, ListenerTokens
  DEF Next, System

\* Two files of the same content never get two jobs, in whichever order the
\* goroutines that see them ask the database and the listener or the scan
\* inserts, whatever insertions fail and whatever becomes of other contents.  The
\* exceptions: watcher and periodic scan both on, a file of that content that
\* could not be read, a query about one that failed, or one that was written to
\* between its two readings.
THEOREM ContentHasOneJob == Spec => []NoDuplicates
<1>1. Init => Regime /\ Tokens
  <2>. SUFFICES ASSUME Init PROVE Regime /\ Tokens
    OBVIOUS
  <2>1. \A p \in Procs : proc[p].pc = "idle"
    BY DEF Init, Idle
  <2>2. Regime
    BY <2>1 DEF Init, Regime, Quiet, At, Procs
  <2>3. ASSUME NEW h PROVE OneJob(h)
    <3>1. \A p \in Procs : ~Busy(p, h) /\ ~Made(p, h)
      BY <2>1 DEF Busy, Made
    <3>2. ~InHand(h) /\ ~InFound(h) /\ ~InChannel(h) /\ ~Held(h) /\ DOMAIN channel = {}
      BY <3>1 DEF Init, InHand, InFound, InChannel, Held
    <3>3. \A f \in Files : ~rows[f].there
      BY DEF Init, NoRow
    <3>. QED
      BY <3>1, <3>2, <3>3 DEF Init, OneJob, Once, Seen, NoRowYet, Read
  <2>. QED
    BY <2>2, <2>3 DEF Tokens
<1>2. Typed /\ Tokens => NoDuplicates
  BY DEF Typed, TypeOK, Tokens, OneJob, NoDuplicates
<1>. QED
  BY <1>1, <1>2, TypedInit, TypedKept, RegimeKept, TokensKept, PTL DEF Spec
=============================================================================
