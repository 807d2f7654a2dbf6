--------------------------- MODULE Configuration ---------------------------
(***************************************************************************)
(* The settings of the cluster: internal/config/manager.go of the master,  *)
(* the handlers that change and hand out settings, the worker's start from *)
(* them and the ConfigFetcher of internal/client/config.go.                *)
(*                                                                         *)
(* An update changes the configuration in memory under the manager's lock  *)
(* and writes the file outside of it, through one temporary name that all  *)
(* updates share; an open handle follows its file when the name moves.     *)
(* The worker starts with settings of the master and keeps them as its     *)
(* fallback; each job asks the fetcher, which lets one goroutine refresh   *)
(* the cache while the others use what it holds.                           *)
(***************************************************************************)
EXTENDS Integers, FiniteSets

CONSTANTS
  Settings,    \* settings that pass validation
  Invalid,     \* settings that do not
  Default,     \* the settings of the YAML file
  None,        \* no settings
  Length,      \* how long the JSON of each settings is
  Admins,      \* requests that change the configuration
  Pollers,     \* goroutines of the worker that execute jobs
  MaxRetries,  \* attempts of one fetch
  MaxWaits,    \* maxFetchWaitRetries
  MaxVersion,  \* bound: versions of the configuration
  MaxLives     \* bound: times the master runs

ASSUME ConfigurationAssumption ==
  /\ Default \in Settings
  /\ Invalid \notin Settings
  /\ None \notin Settings \cup {Invalid}
  /\ Length \in [Settings \cup {Invalid} -> Nat]
  /\ MaxRetries \in Nat \ {0} /\ MaxWaits \in Nat
  /\ MaxVersion \in Nat \ {0} /\ MaxLives \in Nat \ {0}

VARIABLES
  key,       \* the master requires an API key
  config,    \* Manager.config, its settings None while the master is down
  life,      \* how often the master has been started
  update,    \* requests to change the configuration
  file,      \* what filePath holds
  temp,      \* what filePath.tmp holds
  overlap,   \* two updates have been saved at the same time in this life
  unsaved,   \* the save of an update has failed in this life
  own,       \* worker_config has a row for the worker
  boot,      \* how far the worker's start is
  poller,    \* where each job's FetchConfig is
  cached,    \* cachedConfig
  fresh,     \* the cache is younger than the refresh interval
  fetching,  \* the flag of that name
  fellBack,  \* a job has used the settings the worker started with
  trouble,   \* a request of the worker has failed on its way, or it is stopping
  stopping   \* the worker's context is cancelled

manager == <<config, life>>
disk    == <<file, temp>>
saving  == <<update, disk, overlap, unsaved>>
master  == <<key, manager, saving, own>>
fetcher == <<poller, cached, fresh, fetching, fellBack>>
worker  == <<boot, fetcher, trouble, stopping>>
vars    == <<master, worker>>

-----------------------------------------------------------------------------
(* Types.                                                                  *)

Versions == 1 .. MaxVersion
Lives    == 1 .. MaxLives

Config(s, v) == [settings |-> s, version |-> v]
ConfigOf(S)  == [settings : S, version : Versions]
Down         == Config(None, 0)

\* What a fetch brings: the version, and in which life of the master it was
\* current.  The settings come with it.
Answers  == [version : Versions, life : Lives]
NoAnswer == [version |-> 0, life |-> 0]

\* Beside a whole configuration a file is empty or ends in a rest of another.
Empty  == Config(None, 0)
Torn   == Config(None, 1)
NoFile == Config(None, 2)
Contents == ConfigOf(Settings \cup {Invalid}) \cup {Empty, Torn}
Whole(c) == c.settings # None

\* opened: the name under which the file is that the update has opened.
NoUpdate == [pc |-> "idle", data |-> Down, opened |-> "none"]
Updates  == [pc : {"open", "write", "rename"}, data : ConfigOf(Settings),
             opened : {"none", "temp", "file", "deleted"}]

Idle == [pc |-> "idle", try |-> 0, wait |-> 0, answer |-> NoAnswer]

TypeOK ==
  /\ key \in BOOLEAN
  /\ config \in ConfigOf(Settings) \cup {Down}
  /\ life \in Lives
  /\ update \in [Admins -> Updates \cup {NoUpdate}]
  /\ file \in Contents /\ temp \in Contents \cup {NoFile}
  /\ overlap \in BOOLEAN /\ unsaved \in BOOLEAN
  /\ own \in BOOLEAN
  /\ boot \in {"off", "conversion", "shared", "read", "starting", "started"}
  /\ poller \in [Pollers -> [pc : {"idle", "look", "request", "answer", "release"},
                             try : 0 .. MaxRetries - 1, wait : 0 .. MaxWaits,
                             answer : Answers \cup {NoAnswer}]]
  /\ cached \in Answers \cup {NoAnswer}
  /\ fresh \in BOOLEAN /\ fetching \in BOOLEAN
  /\ fellBack \in BOOLEAN
  /\ trouble \in BOOLEAN /\ stopping \in BOOLEAN

Up == config # Down

\* The master has started for the first time, without a file.
Init ==
  /\ key \in BOOLEAN
  /\ config = Config(Default, 1)
  /\ life = 1
  /\ update = [a \in Admins |-> NoUpdate]
  /\ file = Config(Default, 1) /\ temp = NoFile
  /\ overlap = FALSE /\ unsaved = FALSE
  /\ own = FALSE
  /\ boot = "off"
  /\ poller = [p \in Pollers |-> Idle]
  /\ cached = NoAnswer
  /\ fresh = FALSE /\ fetching = FALSE
  /\ fellBack = FALSE
  /\ trouble = FALSE /\ stopping = FALSE

-----------------------------------------------------------------------------
(* The manager and its file.                                               *)

Valid(s) == s \in Settings

\* What is in a file after new has been written at its beginning.
Written(old, new) ==
  CASE old = Torn -> {Torn, new}
    [] Whole(old) -> IF Length[old.settings] > Length[new.settings] THEN {Torn} ELSE {new}
    [] OTHER      -> {new}

Saving(a) == update[a].pc # "idle"

\* POST /api/config up to the end of Update's critical section.
UpdateConfig(a) ==
  /\ Up /\ ~Saving(a) /\ config.version < MaxVersion
  /\ \E s \in Settings \cup {Invalid} :
       /\ Valid(s)
       /\ config' = Config(s, config.version + 1)
  /\ update' = [update EXCEPT ![a] = [pc |-> "open", data |-> config', opened |-> "none"]]
  /\ overlap' = (overlap \/ \E b \in Admins \ {a} : Saving(b))
  /\ UNCHANGED <<key, life, disk, unsaved, own, worker>>

\* Mutant: the configuration is written in place.
OpenTemp_InPlace(a) ==
  /\ update[a].pc = "open"
  /\ file' = Empty
  /\ update' = [update EXCEPT ![a].pc = "write", ![a].opened = "file"]
  /\ UNCHANGED <<key, manager, temp, overlap, unsaved, own, worker>>

\* os.WriteFile opens the temporary file, emptying it if it is there.
OpenTemp(a) ==
  /\ update[a].pc = "open"
  /\ temp' = Empty
  /\ update' = [update EXCEPT ![a].pc = "write", ![a].opened = "temp"]
  /\ UNCHANGED <<key, manager, file, overlap, unsaved, own, worker>>

\* The new content of the file that a has opened, under whichever name it is.
Puts(a, contents) ==
  \/ update[a].opened = "temp" /\ temp' \in contents[temp] /\ file' = file
  \/ update[a].opened = "file" /\ file' \in contents[file] /\ temp' = temp
  \/ update[a].opened \in {"none", "deleted"} /\ UNCHANGED disk

WriteTemp(a) ==
  /\ update[a].pc = "write"
  /\ Puts(a, [old \in Contents |-> Written(old, update[a].data)])
  /\ update' = [update EXCEPT ![a].pc = "rename", ![a].opened = "none"]
  /\ UNCHANGED <<key, manager, overlap, unsaved, own, worker>>

\* The disk is full: the file is not opened, or written in part.
SaveFails(a) ==
  /\ update[a].pc \in {"open", "write"}
  /\ Puts(a, [old \in Contents |-> {Torn}])
  /\ update' = [update EXCEPT ![a] = NoUpdate]
  /\ unsaved' = TRUE
  /\ UNCHANGED <<key, manager, overlap, own, worker>>

Moved(n) == CASE n = "temp" -> "file" [] n = "file" -> "deleted" [] OTHER -> n

\* The name may be gone: another update has renamed the file this one wrote.
Rename(a) ==
  /\ update[a].pc = "rename"
  /\ IF temp = NoFile
     THEN /\ unsaved' = TRUE
          /\ update' = [update EXCEPT ![a] = NoUpdate]
          /\ UNCHANGED disk
     ELSE /\ unsaved' = FALSE
          /\ update' = [b \in Admins |-> IF b = a THEN NoUpdate ELSE
                          [update[b] EXCEPT !.opened = Moved(@)]]
          /\ file' = temp /\ temp' = NoFile
  /\ UNCHANGED <<key, manager, overlap, own, worker>>

Crash ==
  /\ Up
  /\ config' = Down
  /\ update' = [a \in Admins |-> NoUpdate]
  /\ UNCHANGED <<key, life, disk, overlap, unsaved, own, worker>>

\* Somebody edits active-config.json by hand, and wrongly, while the master is down.
EditFile ==
  /\ ~Up
  /\ file' = Config(Invalid, 1)
  /\ UNCHANGED <<key, manager, update, temp, overlap, unsaved, own, worker>>

\* Mutant: a file that parses is used as it is.
NewManager_TrustsFile ==
  IF Whole(file)
  THEN config' = file /\ UNCHANGED disk
  ELSE config' = Config(Default, 1) /\ file' = config' /\ temp' = NoFile

\* The file is used if it is whole and valid, and replaced if not.
NewManager ==
  IF Whole(file) /\ Valid(file.settings)
  THEN config' = file /\ UNCHANGED disk
  ELSE config' = Config(Default, 1) /\ file' = config' /\ temp' = NoFile

StartMaster ==
  /\ ~Up /\ life < MaxLives
  /\ life' = life + 1
  /\ NewManager
  /\ overlap' = FALSE /\ unsaved' = FALSE
  /\ UNCHANGED <<key, update, own, worker>>

\* POST and DELETE /api/worker/settings; settings that are out of range are
\* refused without a change.  Bound: before the worker has read
\* them; later changes are for its next start.
SaveWorkerSettings ==
  /\ Up /\ boot \in {"off", "conversion", "shared"}
  /\ own' = TRUE
  /\ UNCHANGED <<key, manager, saving, worker>>

DeleteWorkerSettings ==
  /\ Up /\ boot \in {"off", "conversion", "shared"}
  /\ own' = FALSE
  /\ UNCHANGED <<key, manager, saving, worker>>

-----------------------------------------------------------------------------
(* The start of the worker: GET /api/worker/config takes the conversion    *)
(* settings first and then the worker's row; without a row it takes the    *)
(* settings of all workers and the conversion settings once more.          *)

Reads(from, to) ==
  Up /\ boot = from /\ boot' = to /\ UNCHANGED <<master, fetcher, trouble, stopping>>

ReadConversion      == Reads("off", "conversion")
ReadOwnSettings     == own /\ Reads("conversion", "read")
ReadSharedSettings  == ~own /\ Reads("conversion", "shared")
ReadConversionAgain == Reads("shared", "read")

\* The answer is lost: the request is repeated, or the worker started again.
BootFails ==
  /\ boot \in {"conversion", "shared"}
  /\ boot' = "off"
  /\ UNCHANGED <<master, fetcher, trouble, stopping>>

-----------------------------------------------------------------------------
(* FetchConfig, called by Worker.Start before there is any job, and later  *)
(* by each job.                                                            *)

Calls(p) ==
  /\ poller[p].pc = "idle"
  /\ poller' = [poller EXCEPT ![p].pc = "look"]
  /\ UNCHANGED <<master, cached, fresh, fetching, fellBack, trouble, stopping>>

\* Worker.Start, of which the pollers are not there yet: p stands for its goroutine.
FirstFetch(p) == boot = "read" /\ boot' = "starting" /\ Calls(p)

\* Mutant: the pollers start without waiting for the first fetch.
StartJob_Early(p) == boot \in {"starting", "started"} /\ boot' = "started" /\ Calls(p)

\* executeJob, which only a worker that has started gets to.
StartJob(p) == boot = "started" /\ boot' = boot /\ Calls(p)

\* A job gets c, or falls back to the settings its worker started with.
Gets(c) == fellBack' = (fellBack \/ (boot = "started" /\ c = NoAnswer))

Return(p, c) ==
  /\ poller' = [poller EXCEPT ![p] = Idle]
  /\ Gets(c)
  /\ UNCHANGED <<master, boot, cached, fresh, fetching, trouble, stopping>>

UseCache(p) ==
  /\ poller[p].pc = "look" /\ cached # NoAnswer /\ fresh
  /\ Return(p, cached)

\* Another goroutine is fetching: take what is cached, or wait and look again.
Wait(p) ==
  /\ poller[p].pc = "look" /\ ~fresh /\ fetching
  /\ IF cached # NoAnswer \/ poller[p].wait = MaxWaits
     THEN Return(p, cached)
     ELSE /\ poller' = [poller EXCEPT ![p].wait = @ + 1]
          /\ UNCHANGED <<master, boot, cached, fresh, fetching, fellBack, trouble, stopping>>

\* Mutant: the flag of another goroutine's fetch is not looked at.
BeginFetch_Regardless(p) ==
  /\ poller[p].pc = "look" /\ ~fresh
  /\ fetching' = TRUE
  /\ poller' = [poller EXCEPT ![p].pc = "request"]
  /\ UNCHANGED <<master, boot, cached, fresh, fellBack, trouble, stopping>>

BeginFetch(p) ==
  /\ poller[p].pc = "look" /\ ~fresh /\ ~fetching
  /\ fetching' = TRUE
  /\ poller' = [poller EXCEPT ![p].pc = "request"]
  /\ UNCHANGED <<master, boot, cached, fresh, fellBack, trouble, stopping>>

\* GET /api/config.  The request of the fetcher carries no API key.
GetConfig(p) ==
  /\ poller[p].pc = "request" /\ Up /\ ~key /\ ~stopping
  /\ poller' = [poller EXCEPT ![p].pc = "answer",
                  ![p].answer = [version |-> config.version, life |-> life]]
  /\ UNCHANGED <<master, boot, cached, fresh, fetching, fellBack, trouble, stopping>>

Releases(p) == poller' = [poller EXCEPT ![p] = [Idle EXCEPT !.pc = "release"]]

Receive(p) ==
  /\ poller[p].pc = "answer" /\ ~stopping
  /\ cached' = poller[p].answer
  /\ fresh' = TRUE
  /\ Gets(cached')
  /\ Releases(p)
  /\ UNCHANGED <<master, boot, fetching, trouble, stopping>>

\* An attempt has failed: the next one, unless the worker stops during the
\* backoff, and after the last one what is cached.
NextAttempt(p) ==
  LET last == poller[p].try + 1 = MaxRetries IN
  /\ IF last \/ stopping
     THEN /\ Gets(IF last THEN cached ELSE NoAnswer)
          /\ Releases(p)
     ELSE /\ fellBack' = fellBack
          /\ poller' = [poller EXCEPT ![p].pc = "request", ![p].answer = NoAnswer,
                                      ![p].try = @ + 1]
  /\ UNCHANGED <<master, boot, cached, fresh, fetching, stopping>>

\* The request or its answer is lost, the master is down, or the context is
\* cancelled.
RequestLost(p) ==
  /\ poller[p].pc \in {"request", "answer"}
  /\ trouble' = TRUE
  /\ NextAttempt(p)

Unauthorized(p) ==
  /\ poller[p].pc = "request" /\ Up /\ key /\ ~stopping
  /\ trouble' = trouble
  /\ NextAttempt(p)

\* The worker stops while the fetch waits for its next attempt.
BackoffAborted(p) ==
  /\ poller[p].pc = "request" /\ poller[p].try > 0 /\ stopping
  /\ Gets(NoAnswer)
  /\ Releases(p)
  /\ UNCHANGED <<master, boot, cached, fresh, fetching, trouble, stopping>>

\* Worker.Start goes on after its first fetch, or returns the error if it has no
\* settings of its own: the worker is then started again.
Starts == \/ boot' = "started"
          \/ boot = "starting" /\ cached = NoAnswer /\ boot' = "off"

\* Mutant: the flag is only cleared after a fetch that filled the cache.
EndFetch_KeepsFlag(p) ==
  /\ poller[p].pc = "release"
  /\ fetching' = (cached = NoAnswer)
  /\ poller' = [poller EXCEPT ![p] = Idle]
  /\ Starts
  /\ UNCHANGED <<master, cached, fresh, fellBack, trouble, stopping>>

\* The deferred function of fetchConfigWithRetry.
EndFetch(p) ==
  /\ poller[p].pc = "release"
  /\ fetching' = FALSE
  /\ poller' = [poller EXCEPT ![p] = Idle]
  /\ Starts
  /\ UNCHANGED <<master, cached, fresh, fellBack, trouble, stopping>>

\* The refresh interval passes.
Expire ==
  /\ fresh
  /\ fresh' = FALSE
  /\ UNCHANGED <<master, boot, poller, cached, fetching, fellBack, trouble, stopping>>

Stop ==
  /\ boot = "started" /\ ~stopping
  /\ stopping' = TRUE /\ trouble' = TRUE
  /\ UNCHANGED <<master, boot, fetcher>>

-----------------------------------------------------------------------------
Save(a) == OpenTemp(a) \/ WriteTemp(a) \/ Rename(a) \/ SaveFails(a)

Boot == \/ ReadConversion \/ ReadOwnSettings \/ ReadSharedSettings
        \/ ReadConversionAgain \/ BootFails

Fetch(p) ==
  \/ UseCache(p) \/ Wait(p) \/ BeginFetch(p) \/ GetConfig(p) \/ Receive(p)
  \/ RequestLost(p) \/ Unauthorized(p) \/ BackoffAborted(p) \/ EndFetch(p)

Next ==
  \/ \E a \in Admins : UpdateConfig(a) \/ Save(a)
  \/ Crash \/ EditFile \/ StartMaster
  \/ SaveWorkerSettings \/ DeleteWorkerSettings
  \/ Boot
  \/ \E p \in Pollers : FirstFetch(p) \/ StartJob(p) \/ Fetch(p)
  \/ Expire \/ Stop

Spec == Init /\ [][Next]_vars

-----------------------------------------------------------------------------
(* Properties.                                                             *)

\* The flag is set exactly while one goroutine fetches, and no two do: a flag
\* left set would keep the worker on old settings for ever.
SingleFlight ==
  LET fetchers == {p \in Pollers : poller[p].pc \in {"request", "answer", "release"}}
  IN /\ fetching <=> fetchers # {}
     /\ \A p, q \in fetchers : p = q

\* Unless two updates are saved at the same time, the file is a whole
\* configuration at every moment, also after a crash, and once the update is
\* done it is the configuration in memory or the update has reported an error.
AloneIsAtomic ==
  ~overlap =>
    /\ Whole(file)
    /\ Up /\ ~unsaved /\ (\A a \in Admins : ~Saving(a)) =>
         file = config

\* A job converts with the settings of the master, current or cached, unless a
\* request of the worker has failed on its way or the worker is stopping.
PulledFromMaster == fellBack => trouble

\* That is so with a master that requires no API key.
FallbackOnlyWithoutMaster == ~key => PulledFromMaster

\* The cache never goes back to an earlier configuration of the master: no late
\* answer overwrites a newer one, so no job gets older settings than one before.
NeverOlder ==
  [][\/ cached.life < cached'.life
     \/ cached.life = cached'.life /\ cached.version <= cached'.version]_vars

=============================================================================
