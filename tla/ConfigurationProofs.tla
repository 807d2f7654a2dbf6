------------------------- MODULE ConfigurationProofs -------------------------
(***************************************************************************)
(* Configuration, for any constants: the worker's fetches of the           *)
(* configuration are made by one goroutine at a time, what they bring is   *)
(* never older than what it replaces, a job is left without the master's   *)
(* settings only if the master cannot be asked, and updates that are saved *)
(* one at a time never leave a file that is not whole.                     *)
(***************************************************************************)
EXTENDS Configuration, TLAPS

USE ConfigurationAssumption

-----------------------------------------------------------------------------
(* Types.                                                                  *)

Phases == {"idle", "look", "request", "answer", "release"}

Fetched == Answers \cup {NoAnswer}

PollerRow == [pc : Phases, try : 0 .. MaxRetries - 1, wait : 0 .. MaxWaits,
              answer : Fetched]

\* The half of TypeOK that the worker's steps can disturb.
WorkerTypeOK ==
  /\ boot \in {"off", "conversion", "shared", "read", "starting", "started"}
  /\ poller \in [Pollers -> PollerRow]
  /\ cached \in Fetched
  /\ fresh \in BOOLEAN /\ fetching \in BOOLEAN /\ fellBack \in BOOLEAN
  /\ trouble \in BOOLEAN /\ stopping \in BOOLEAN

\* The part of it that tells a fetch what there is at the master.
MasterKnown == config \in ConfigOf(Settings) \cup {Down} /\ life \in Lives

LEMMA NoAnswerIsNone == NoAnswer \in Fetched /\ NoAnswer \notin Answers
  BY DEF Fetched, NoAnswer, Answers, Versions, Lives

LEMMA IdleIsRow ==
  /\ Idle \in PollerRow
  /\ [Idle EXCEPT !.pc = "release"] \in PollerRow
  BY NoAnswerIsNone DEF Idle, PollerRow, Phases

LEMMA AnswerOfMaster ==
  ASSUME MasterKnown, Up
  PROVE  [version |-> config.version, life |-> life] \in Answers
  BY DEF MasterKnown, Up, ConfigOf, Down, Config, Answers

\* A failed attempt leads to the next one or to the end of the fetch.
LEMMA NextAttemptTypes ==
  ASSUME WorkerTypeOK, NEW p \in Pollers, NextAttempt(p)
  PROVE  poller' \in [Pollers -> PollerRow] /\ fellBack' \in BOOLEAN
<1>. USE DEF WorkerTypeOK
<1>1. CASE Releases(p)
  <2>1. fellBack' \in BOOLEAN
    BY DEF NextAttempt, Gets
  <2>. QED
    BY <1>1, <2>1, IdleIsRow DEF Releases
<1>2. CASE ~(poller[p].try + 1 = MaxRetries \/ stopping)
  <2>1. poller[p].try + 1 \in 0 .. MaxRetries - 1
    BY <1>2 DEF PollerRow
  <2>2. [poller[p] EXCEPT !.pc = "request", !.answer = NoAnswer,
                          !.try = @ + 1] \in PollerRow
    BY <2>1, NoAnswerIsNone DEF PollerRow, Phases
  <2>. QED
    BY <1>2, <2>2 DEF NextAttempt
<1>. QED
  BY <1>1, <1>2 DEF NextAttempt

\* The worker's half is kept.
LEMMA WorkerTypeStep ==
  ASSUME WorkerTypeOK, MasterKnown, [Next]_vars
  PROVE  WorkerTypeOK'
<1>. USE DEF WorkerTypeOK, PollerRow, Phases, master, worker, manager, disk,
        saving, fetcher
<1>1. ASSUME NEW a \in Admins, UpdateConfig(a)
      PROVE  WorkerTypeOK'
  BY <1>1 DEF UpdateConfig
<1>2. ASSUME NEW a \in Admins, OpenTemp(a)
      PROVE  WorkerTypeOK'
  BY <1>2 DEF OpenTemp
<1>3. ASSUME NEW a \in Admins, WriteTemp(a)
      PROVE  WorkerTypeOK'
  BY <1>3 DEF WriteTemp
<1>4. ASSUME NEW a \in Admins, Rename(a)
      PROVE  WorkerTypeOK'
  BY <1>4 DEF Rename
<1>5. ASSUME NEW a \in Admins, SaveFails(a)
      PROVE  WorkerTypeOK'
  BY <1>5 DEF SaveFails
<1>6. CASE Crash
  BY <1>6 DEF Crash
<1>7. CASE EditFile
  BY <1>7 DEF EditFile
<1>8. CASE StartMaster
  BY <1>8 DEF StartMaster
<1>9. CASE SaveWorkerSettings \/ DeleteWorkerSettings
  BY <1>9 DEF SaveWorkerSettings, DeleteWorkerSettings
<1>10. CASE Boot
  BY <1>10
     DEF Boot, ReadConversion, ReadOwnSettings, ReadSharedSettings,
         ReadConversionAgain, BootFails, Reads
<1>11. ASSUME NEW p \in Pollers, FirstFetch(p) \/ StartJob(p)
      PROVE  WorkerTypeOK'
  BY <1>11 DEF FirstFetch, StartJob, Calls
<1>12. ASSUME NEW p \in Pollers, UseCache(p)
      PROVE  WorkerTypeOK'
  BY <1>12, IdleIsRow DEF UseCache, Return, Gets, PollerRow, Phases
<1>13. ASSUME NEW p \in Pollers, Wait(p)
      PROVE  WorkerTypeOK'
  <2>1. CASE Return(p, cached)
    BY <2>1, IdleIsRow DEF Return, Gets
  <2>2. CASE ~(cached # NoAnswer \/ poller[p].wait = MaxWaits)
    <3>1. poller[p].wait + 1 \in 0 .. MaxWaits
      BY <2>2
    <3>. QED
      BY <1>13, <2>2, <3>1 DEF Wait
  <2>. QED
    BY <1>13, <2>1, <2>2 DEF Wait
<1>14. ASSUME NEW p \in Pollers, BeginFetch(p)
      PROVE  WorkerTypeOK'
  BY <1>14 DEF BeginFetch
<1>15. ASSUME NEW p \in Pollers, GetConfig(p)
      PROVE  WorkerTypeOK'
  <2>1. [version |-> config.version, life |-> life] \in Fetched
    BY <1>15, AnswerOfMaster DEF GetConfig, Fetched
  <2>. QED
    BY <1>15, <2>1 DEF GetConfig
<1>16. ASSUME NEW p \in Pollers, Receive(p)
      PROVE  WorkerTypeOK'
  BY <1>16, IdleIsRow DEF Receive, Gets, Releases
<1>17. ASSUME NEW p \in Pollers, RequestLost(p)
      PROVE  WorkerTypeOK'
  BY <1>17, NextAttemptTypes DEF RequestLost, NextAttempt
<1>18. ASSUME NEW p \in Pollers, Unauthorized(p)
      PROVE  WorkerTypeOK'
  BY <1>18, NextAttemptTypes DEF Unauthorized, NextAttempt
<1>19. ASSUME NEW p \in Pollers, BackoffAborted(p)
      PROVE  WorkerTypeOK'
  BY <1>19, IdleIsRow DEF BackoffAborted, Gets, Releases
<1>20. ASSUME NEW p \in Pollers, EndFetch(p)
      PROVE  WorkerTypeOK'
  BY <1>20, IdleIsRow DEF EndFetch, Starts
<1>21. CASE Expire
  BY <1>21 DEF Expire
<1>22. CASE Stop
  BY <1>22 DEF Stop
<1>23. CASE UNCHANGED vars
  BY <1>23 DEF vars
<1>. QED
  BY <1>1, <1>2, <1>3, <1>4, <1>5, <1>6, <1>7, <1>8, <1>9, <1>10, <1>11,
     <1>12, <1>13, <1>14, <1>15, <1>16, <1>17, <1>18, <1>19, <1>20, <1>21,
     <1>22, <1>23 DEF Next, Save, Fetch

-----------------------------------------------------------------------------
(* The manager's half.                                                     *)

MasterTypeOK ==
  /\ key \in BOOLEAN
  /\ MasterKnown
  /\ update \in [Admins -> Updates \cup {NoUpdate}]
  /\ file \in Contents /\ temp \in Contents \cup {NoFile}
  /\ overlap \in BOOLEAN /\ unsaved \in BOOLEAN
  /\ own \in BOOLEAN

\* Updates end with their process, and an update that holds the temporary file
\* under its name has not lost it.
HandlesValid ==
  /\ Up \/ \A a \in Admins : update[a] = NoUpdate
  /\ \A a \in Admins : update[a].opened = "temp" => temp # NoFile

LEMMA TypeHalves == TypeOK <=> MasterTypeOK /\ WorkerTypeOK
  BY DEF TypeOK, MasterTypeOK, WorkerTypeOK, MasterKnown, PollerRow, Phases,
         Fetched

LEMMA WrittenIsContent ==
  ASSUME NEW old \in Contents, NEW new \in ConfigOf(Settings)
  PROVE  Written(old, new) \subseteq Contents
<1>1. Torn \in Contents /\ new \in Contents
  BY DEF Contents, ConfigOf
<1>. QED
  BY <1>1 DEF Written

LEMMA ContentFacts ==
  /\ Empty \in Contents /\ Torn \in Contents
  /\ NoFile # Empty /\ NoFile # Torn
  /\ Config(Default, 1) \in ConfigOf(Settings)
  /\ Config(Invalid, 1) \in Contents
  /\ ConfigOf(Settings) \subseteq Contents
  /\ NoFile \notin Contents
  BY DEF Contents, ConfigOf, Config, Versions, Empty, Torn, NoFile

\* What an update has written leaves whole or torn files under the names.
LEMMA PutsTypes ==
  ASSUME MasterTypeOK, HandlesValid, NEW a \in Admins,
         NEW contents \in [Contents -> SUBSET Contents], Puts(a, contents)
  PROVE  /\ file' \in Contents /\ temp' \in Contents \cup {NoFile}
         /\ temp' = NoFile <=> temp = NoFile
<1>1. file \in Contents /\ temp \in Contents \cup {NoFile}
  BY DEF MasterTypeOK
<1>2. CASE update[a].opened = "temp"
  <2>1. temp \in Contents
    BY <1>1, <1>2 DEF HandlesValid
  <2>2. temp' \in contents[temp] /\ file' = file
    BY <1>2 DEF Puts
  <2>. QED
    BY <1>1, <2>1, <2>2, ContentFacts
<1>3. CASE update[a].opened = "file"
  BY <1>1, <1>3 DEF Puts
<1>4. CASE UNCHANGED disk
  BY <1>1, <1>4 DEF disk
<1>. QED
  BY <1>2, <1>3, <1>4 DEF Puts

LEMMA NewManagerTypes ==
  ASSUME MasterTypeOK, NewManager
  PROVE  /\ config' \in ConfigOf(Settings)
         /\ file' \in Contents /\ temp' \in Contents \cup {NoFile}
<1>1. CASE Whole(file) /\ Valid(file.settings)
  <2>1. file \in ConfigOf(Settings \cup {Invalid})
    BY <1>1 DEF MasterTypeOK, Contents, Whole, Valid, Empty, Torn, Config
  <2>2. file \in ConfigOf(Settings)
    BY <1>1, <2>1 DEF ConfigOf, Valid
  <2>. QED
    BY <1>1, <2>2 DEF NewManager, disk, MasterTypeOK
<1>2. CASE ~(Whole(file) /\ Valid(file.settings))
  BY <1>2, ContentFacts DEF NewManager
<1>. QED
  BY <1>1, <1>2

\* The manager's half is kept.
LEMMA MasterTypeStep ==
  ASSUME MasterTypeOK, HandlesValid, [Next]_vars
  PROVE  MasterTypeOK' /\ HandlesValid'
<1>. USE DEF MasterTypeOK, HandlesValid, master, worker, manager, disk,
        saving, fetcher
<1>1. ASSUME NEW a \in Admins, UpdateConfig(a)
      PROVE  MasterTypeOK' /\ HandlesValid'
  <2>1. PICK s \in Settings : config' = Config(s, config.version + 1)
    BY <1>1 DEF UpdateConfig, Valid
  <2>2. config.version \in Versions /\ config.version + 1 \in Versions
    BY <1>1 DEF UpdateConfig, Up, MasterTypeOK, MasterKnown, ConfigOf, Versions
  <2>3. config' \in ConfigOf(Settings) /\ Up'
    BY <2>1, <2>2 DEF ConfigOf, Config, Up, Down
  <2>4. [pc |-> "open", data |-> config', opened |-> "none"] \in Updates
    BY <2>3 DEF Updates
  <2>. QED
    BY <1>1, <2>3, <2>4 DEF UpdateConfig, MasterKnown
<1>2. ASSUME NEW a \in Admins, OpenTemp(a)
      PROVE  MasterTypeOK' /\ HandlesValid'
  <2>1. update[a] \in Updates
    BY <1>2 DEF OpenTemp, NoUpdate
  <2>2. [update[a] EXCEPT !.pc = "write", !.opened = "temp"] \in Updates
    BY <2>1 DEF Updates
  <2>3. Up
    BY <1>2 DEF OpenTemp, NoUpdate
  <2>. QED
    BY <1>2, <2>2, <2>3, ContentFacts DEF OpenTemp, MasterKnown, Up
<1>3. ASSUME NEW a \in Admins, WriteTemp(a)
      PROVE  MasterTypeOK' /\ HandlesValid'
  <2>1. update[a] \in Updates
    BY <1>3 DEF WriteTemp, NoUpdate
  <2>2. [update[a] EXCEPT !.pc = "rename", !.opened = "none"] \in Updates
    BY <2>1 DEF Updates
  <2>3. [old \in Contents |-> Written(old, update[a].data)]
          \in [Contents -> SUBSET Contents]
    BY <2>1, WrittenIsContent DEF Updates
  <2>4. /\ file' \in Contents /\ temp' \in Contents \cup {NoFile}
        /\ temp' = NoFile <=> temp = NoFile
    BY <1>3, <2>3, PutsTypes DEF WriteTemp
  <2>5. Up
    BY <1>3 DEF WriteTemp, NoUpdate
  <2>6. update' = [update EXCEPT ![a] = [@ EXCEPT !.pc = "rename",
                                                 !.opened = "none"]]
    BY <1>3 DEF WriteTemp
  <2>7. HandlesValid'
    BY <1>3, <2>2, <2>4, <2>5, <2>6 DEF WriteTemp, Up
  <2>8. MasterTypeOK'
    BY <1>3, <2>2, <2>4, <2>6 DEF WriteTemp, MasterKnown
  <2>. QED
    BY <2>7, <2>8
<1>4. ASSUME NEW a \in Admins, Rename(a)
      PROVE  MasterTypeOK' /\ HandlesValid'
  <2>1. CASE temp = NoFile
    <3>1. update' = [update EXCEPT ![a] = NoUpdate] /\ UNCHANGED disk
      BY <1>4, <2>1 DEF Rename
    <3>2. HandlesValid'
      BY <1>4, <3>1 DEF Rename, Up, NoUpdate, disk
    <3>3. unsaved' \in BOOLEAN
      BY <1>4, <2>1 DEF Rename
    <3>4. MasterTypeOK'
      BY <1>4, <3>1, <3>3 DEF Rename, MasterKnown, disk
    <3>. QED
      BY <3>2, <3>4
  <2>2. CASE temp # NoFile
    <3>1. \A b \in Admins : /\ [update[b] EXCEPT !.opened = Moved(@)]
                                \in Updates \cup {NoUpdate}
                             /\ Moved(update[b].opened) # "temp"
      BY DEF Updates, NoUpdate, Moved
    <3>2. update' \in [Admins -> Updates \cup {NoUpdate}]
      BY <1>4, <2>2, <3>1 DEF Rename
    <3>3. \A b \in Admins : update'[b].opened # "temp"
      BY <1>4, <2>2, <3>1 DEF Rename, NoUpdate, Updates
    <3>4. Up
      BY <1>4 DEF Rename, NoUpdate
    <3>. QED
      BY <1>4, <2>2, <3>2, <3>3, <3>4 DEF Rename, MasterKnown, Up
  <2>. QED
    BY <2>1, <2>2
<1>5. ASSUME NEW a \in Admins, SaveFails(a)
      PROVE  MasterTypeOK' /\ HandlesValid'
  <2>1. [old \in Contents |-> {Torn}] \in [Contents -> SUBSET Contents]
    BY ContentFacts
  <2>2. /\ file' \in Contents /\ temp' \in Contents \cup {NoFile}
        /\ temp' = NoFile <=> temp = NoFile
    BY <1>5, <2>1, PutsTypes DEF SaveFails
  <2>. QED
    BY <1>5, <2>2 DEF SaveFails, MasterKnown, Up, NoUpdate
<1>6. CASE Crash
  BY <1>6 DEF Crash, MasterKnown, Up, Down, NoUpdate
<1>7. CASE EditFile
  BY <1>7, ContentFacts DEF EditFile, MasterKnown, Up
<1>8. CASE StartMaster
  <2>1. config' \in ConfigOf(Settings) /\ Up'
    BY <1>8, NewManagerTypes DEF StartMaster, ConfigOf, Up, Down, Config
  <2>2. life' \in Lives
    BY <1>8 DEF StartMaster, MasterKnown, Lives
  <2>3. file' \in Contents /\ temp' \in Contents \cup {NoFile}
    BY <1>8, NewManagerTypes DEF StartMaster
  <2>4. HandlesValid'
    BY <1>8, <2>1 DEF StartMaster, NoUpdate
  <2>5. MasterTypeOK'
    BY <1>8, <2>1, <2>2, <2>3 DEF StartMaster, MasterKnown
  <2>. QED
    BY <2>4, <2>5
<1>9. CASE SaveWorkerSettings \/ DeleteWorkerSettings
  BY <1>9 DEF SaveWorkerSettings, DeleteWorkerSettings, MasterKnown, Up
<1>10. CASE Boot
  BY <1>10 DEF Boot, ReadConversion, ReadOwnSettings, ReadSharedSettings,
     ReadConversionAgain, BootFails, Reads, MasterKnown, Up
<1>11. ASSUME NEW p \in Pollers, FirstFetch(p) \/ StartJob(p)
      PROVE  MasterTypeOK' /\ HandlesValid'
  BY <1>11 DEF FirstFetch, StartJob, Calls, MasterKnown, Up
<1>12. ASSUME NEW p \in Pollers, UseCache(p)
      PROVE  MasterTypeOK' /\ HandlesValid'
  BY <1>12 DEF UseCache, Return, Gets, MasterKnown, Up
<1>13. ASSUME NEW p \in Pollers, Wait(p)
      PROVE  MasterTypeOK' /\ HandlesValid'
  BY <1>13 DEF Wait, Return, Gets, MasterKnown, Up
<1>14. ASSUME NEW p \in Pollers, BeginFetch(p)
      PROVE  MasterTypeOK' /\ HandlesValid'
  BY <1>14 DEF BeginFetch, MasterKnown, Up
<1>15. ASSUME NEW p \in Pollers, GetConfig(p)
      PROVE  MasterTypeOK' /\ HandlesValid'
  BY <1>15 DEF GetConfig, MasterKnown, Up
<1>16. ASSUME NEW p \in Pollers, Receive(p)
      PROVE  MasterTypeOK' /\ HandlesValid'
  BY <1>16 DEF Receive, Gets, Releases, MasterKnown, Up
<1>17. ASSUME NEW p \in Pollers, RequestLost(p)
      PROVE  MasterTypeOK' /\ HandlesValid'
  BY <1>17 DEF RequestLost, NextAttempt, Gets, Releases, MasterKnown, Up
<1>18. ASSUME NEW p \in Pollers, Unauthorized(p)
      PROVE  MasterTypeOK' /\ HandlesValid'
  BY <1>18 DEF Unauthorized, NextAttempt, Gets, Releases, MasterKnown, Up
<1>19. ASSUME NEW p \in Pollers, BackoffAborted(p)
      PROVE  MasterTypeOK' /\ HandlesValid'
  BY <1>19 DEF BackoffAborted, Gets, Releases, MasterKnown, Up
<1>20. ASSUME NEW p \in Pollers, EndFetch(p)
      PROVE  MasterTypeOK' /\ HandlesValid'
  BY <1>20 DEF EndFetch, Starts, MasterKnown, Up
<1>21. CASE Expire
  BY <1>21 DEF Expire, MasterKnown, Up
<1>22. CASE Stop
  BY <1>22 DEF Stop, MasterKnown, Up
<1>23. CASE UNCHANGED vars
  BY <1>23 DEF vars, MasterKnown, Up
<1>. QED
  BY <1>1, <1>2, <1>3, <1>4, <1>5, <1>6, <1>7, <1>8, <1>9, <1>10, <1>11,
     <1>12, <1>13, <1>14, <1>15, <1>16, <1>17, <1>18, <1>19, <1>20, <1>21,
     <1>22, <1>23 DEF Next, Save, Fetch

\* A poller that waits looks again or gives up.
LEMMA WaitMoves ==
  ASSUME WorkerTypeOK, NEW p \in Pollers, Wait(p)
  PROVE  /\ UNCHANGED <<master, boot, cached, fetching, trouble, stopping>>
         /\ poller'[p].pc \in {"look", "idle"}
         /\ \A q \in Pollers \ {p} : poller'[q] = poller[q]
         /\ fellBack' = fellBack \/ fellBack' = (fellBack \/ cached = NoAnswer)
<1>1. CASE Return(p, cached)
  BY <1>1 DEF Return, Gets, Idle, WorkerTypeOK
<1>2. CASE ~(cached # NoAnswer \/ poller[p].wait = MaxWaits)
  <2>1. poller' = [poller EXCEPT ![p].wait = @ + 1] /\ poller[p].pc = "look"
    BY <1>2 DEF Wait
  <2>2. UNCHANGED <<master, boot, cached, fetching, fellBack, trouble, stopping>>
    BY <1>2 DEF Wait
  <2>. QED
    BY <2>1, <2>2 DEF WorkerTypeOK, PollerRow
<1>. QED
  BY <1>1, <1>2 DEF Wait

-----------------------------------------------------------------------------
(* The fetcher.                                                            *)

\* Until the worker's first fetch has ended no other is under way.
FirstFetchAlone ==
  /\ boot \in {"off", "conversion", "shared", "read"} =>
       \A p \in Pollers : poller[p].pc = "idle"
  /\ boot = "starting" =>
       \A p, q \in Pollers :
         poller[p].pc # "idle" /\ poller[q].pc # "idle" => p = q

\* Without a key there are settings after the first fetch, or there was trouble.
SettingsOrTrouble ==
  /\ stopping => trouble
  /\ ~key /\ ~trouble =>
       /\ boot = "started" => cached # NoAnswer
       /\ \A p \in Pollers : poller[p].pc = "release" => cached # NoAnswer
       /\ ~fellBack

Older(x, y) ==
  \/ x.life < y.life
  \/ x.life = y.life /\ x.version <= y.version

\* x is no newer than the configuration of the master.
Known(x) ==
  /\ x.life <= life
  /\ Up /\ x.life = life => x.version <= config.version

\* What a goroutine is about to put into the cache is no older than the cache.
AnswersInOrder ==
  /\ Known(cached)
  /\ \A p \in Pollers : poller[p].pc = "answer" =>
       /\ poller[p].answer \in Answers
       /\ Known(poller[p].answer) /\ Older(cached, poller[p].answer)

\* The flag goes with the goroutine that fetches.
LEMMA FlightStep ==
  ASSUME WorkerTypeOK, SingleFlight, [Next]_vars
  PROVE  SingleFlight'
<1>. USE DEF WorkerTypeOK, SingleFlight, PollerRow, master, worker, manager,
        disk, saving, fetcher
<1>1. ASSUME NEW a \in Admins, UpdateConfig(a)
      PROVE  SingleFlight'
  BY <1>1 DEF UpdateConfig
<1>2. ASSUME NEW a \in Admins, OpenTemp(a)
      PROVE  SingleFlight'
  BY <1>2 DEF OpenTemp
<1>3. ASSUME NEW a \in Admins, WriteTemp(a)
      PROVE  SingleFlight'
  BY <1>3 DEF WriteTemp
<1>4. ASSUME NEW a \in Admins, Rename(a)
      PROVE  SingleFlight'
  BY <1>4 DEF Rename
<1>5. ASSUME NEW a \in Admins, SaveFails(a)
      PROVE  SingleFlight'
  BY <1>5 DEF SaveFails
<1>6. CASE Crash
  BY <1>6 DEF Crash
<1>7. CASE EditFile
  BY <1>7 DEF EditFile
<1>8. CASE StartMaster
  BY <1>8 DEF StartMaster
<1>9. CASE SaveWorkerSettings \/ DeleteWorkerSettings
  BY <1>9 DEF SaveWorkerSettings, DeleteWorkerSettings
<1>10. CASE Boot
  BY <1>10 DEF Boot, ReadConversion, ReadOwnSettings, ReadSharedSettings,
     ReadConversionAgain, BootFails, Reads
<1>11. ASSUME NEW p \in Pollers, FirstFetch(p) \/ StartJob(p)
      PROVE  SingleFlight'
  BY <1>11 DEF FirstFetch, StartJob, Calls
<1>12. ASSUME NEW p \in Pollers, UseCache(p)
      PROVE  SingleFlight'
  BY <1>12 DEF UseCache, Return, Idle
<1>13. ASSUME NEW p \in Pollers, Wait(p)
      PROVE  SingleFlight'
  BY <1>13, WaitMoves, ZenonT(60) DEF Wait
<1>14. ASSUME NEW p \in Pollers, BeginFetch(p)
      PROVE  SingleFlight'
  BY <1>14 DEF BeginFetch
<1>15. ASSUME NEW p \in Pollers, GetConfig(p)
      PROVE  SingleFlight'
  BY <1>15 DEF GetConfig
<1>16. ASSUME NEW p \in Pollers, Receive(p)
      PROVE  SingleFlight'
  BY <1>16 DEF Receive, Releases, Idle
<1>17. ASSUME NEW p \in Pollers, RequestLost(p)
      PROVE  SingleFlight'
  BY <1>17 DEF RequestLost, NextAttempt, Releases, Idle
<1>18. ASSUME NEW p \in Pollers, Unauthorized(p)
      PROVE  SingleFlight'
  BY <1>18 DEF Unauthorized, NextAttempt, Releases, Idle
<1>19. ASSUME NEW p \in Pollers, BackoffAborted(p)
      PROVE  SingleFlight'
  BY <1>19 DEF BackoffAborted, Releases, Idle
<1>20. ASSUME NEW p \in Pollers, EndFetch(p)
      PROVE  SingleFlight'
  BY <1>20 DEF EndFetch, Starts, Idle
<1>21. CASE Expire
  BY <1>21 DEF Expire
<1>22. CASE Stop
  BY <1>22 DEF Stop
<1>23. CASE UNCHANGED vars
  BY <1>23 DEF vars
<1>. QED
  BY <1>1, <1>2, <1>3, <1>4, <1>5, <1>6, <1>7, <1>8, <1>9, <1>10, <1>11,
     <1>12, <1>13, <1>14, <1>15, <1>16, <1>17, <1>18, <1>19, <1>20, <1>21,
     <1>22, <1>23 DEF Next, Save, Fetch

\* Only the first poller starts before the worker has started.
LEMMA FirstFetchStep ==
  ASSUME WorkerTypeOK, FirstFetchAlone, [Next]_vars
  PROVE  FirstFetchAlone'
<1>. USE DEF WorkerTypeOK, FirstFetchAlone, PollerRow, master, worker,
        manager, disk, saving, fetcher
<1>1. ASSUME NEW a \in Admins, UpdateConfig(a)
      PROVE  FirstFetchAlone'
  BY <1>1 DEF UpdateConfig
<1>2. ASSUME NEW a \in Admins, OpenTemp(a)
      PROVE  FirstFetchAlone'
  BY <1>2 DEF OpenTemp
<1>3. ASSUME NEW a \in Admins, WriteTemp(a)
      PROVE  FirstFetchAlone'
  BY <1>3 DEF WriteTemp
<1>4. ASSUME NEW a \in Admins, Rename(a)
      PROVE  FirstFetchAlone'
  BY <1>4 DEF Rename
<1>5. ASSUME NEW a \in Admins, SaveFails(a)
      PROVE  FirstFetchAlone'
  BY <1>5 DEF SaveFails
<1>6. CASE Crash
  BY <1>6 DEF Crash
<1>7. CASE EditFile
  BY <1>7 DEF EditFile
<1>8. CASE StartMaster
  BY <1>8 DEF StartMaster
<1>9. CASE SaveWorkerSettings \/ DeleteWorkerSettings
  BY <1>9 DEF SaveWorkerSettings, DeleteWorkerSettings
<1>10. CASE Boot
  BY <1>10 DEF Boot, ReadConversion, ReadOwnSettings, ReadSharedSettings,
     ReadConversionAgain, BootFails, Reads
<1>11. ASSUME NEW p \in Pollers, FirstFetch(p) \/ StartJob(p)
      PROVE  FirstFetchAlone'
  BY <1>11 DEF FirstFetch, StartJob, Calls
<1>12. ASSUME NEW p \in Pollers, UseCache(p)
      PROVE  FirstFetchAlone'
  BY <1>12 DEF UseCache, Return, Idle
<1>13. ASSUME NEW p \in Pollers, Wait(p)
      PROVE  FirstFetchAlone'
  BY <1>13 DEF Wait, Return, Idle
<1>14. ASSUME NEW p \in Pollers, BeginFetch(p)
      PROVE  FirstFetchAlone'
  BY <1>14 DEF BeginFetch
<1>15. ASSUME NEW p \in Pollers, GetConfig(p)
      PROVE  FirstFetchAlone'
  BY <1>15 DEF GetConfig
<1>16. ASSUME NEW p \in Pollers, Receive(p)
      PROVE  FirstFetchAlone'
  BY <1>16 DEF Receive, Releases, Idle
<1>17. ASSUME NEW p \in Pollers, RequestLost(p)
      PROVE  FirstFetchAlone'
  BY <1>17 DEF RequestLost, NextAttempt, Releases, Idle
<1>18. ASSUME NEW p \in Pollers, Unauthorized(p)
      PROVE  FirstFetchAlone'
  BY <1>18 DEF Unauthorized, NextAttempt, Releases, Idle
<1>19. ASSUME NEW p \in Pollers, BackoffAborted(p)
      PROVE  FirstFetchAlone'
  BY <1>19 DEF BackoffAborted, Releases, Idle
<1>20. ASSUME NEW p \in Pollers, EndFetch(p)
      PROVE  FirstFetchAlone'
  BY <1>20 DEF EndFetch, Starts, Idle
<1>21. CASE Expire
  BY <1>21 DEF Expire
<1>22. CASE Stop
  BY <1>22 DEF Stop
<1>23. CASE UNCHANGED vars
  BY <1>23 DEF vars
<1>. QED
  BY <1>1, <1>2, <1>3, <1>4, <1>5, <1>6, <1>7, <1>8, <1>9, <1>10, <1>11,
     <1>12, <1>13, <1>14, <1>15, <1>16, <1>17, <1>18, <1>19, <1>20, <1>21,
     <1>22, <1>23 DEF Next, Save, Fetch

\* A job is left without settings by trouble or by the key.
LEMMA SettingsStep ==
  ASSUME WorkerTypeOK, MasterTypeOK, SingleFlight, FirstFetchAlone,
         AnswersInOrder, SettingsOrTrouble, [Next]_vars
  PROVE  SettingsOrTrouble'
<1>. USE DEF WorkerTypeOK, SettingsOrTrouble, PollerRow, master, worker,
        manager, disk, saving, fetcher
<1>1. ASSUME NEW a \in Admins, UpdateConfig(a)
      PROVE  SettingsOrTrouble'
  BY <1>1 DEF UpdateConfig
<1>2. ASSUME NEW a \in Admins, OpenTemp(a)
      PROVE  SettingsOrTrouble'
  BY <1>2 DEF OpenTemp
<1>3. ASSUME NEW a \in Admins, WriteTemp(a)
      PROVE  SettingsOrTrouble'
  BY <1>3 DEF WriteTemp
<1>4. ASSUME NEW a \in Admins, Rename(a)
      PROVE  SettingsOrTrouble'
  BY <1>4 DEF Rename
<1>5. ASSUME NEW a \in Admins, SaveFails(a)
      PROVE  SettingsOrTrouble'
  BY <1>5 DEF SaveFails
<1>6. CASE Crash
  BY <1>6 DEF Crash
<1>7. CASE EditFile
  BY <1>7 DEF EditFile
<1>8. CASE StartMaster
  BY <1>8 DEF StartMaster
<1>9. CASE SaveWorkerSettings \/ DeleteWorkerSettings
  BY <1>9 DEF SaveWorkerSettings, DeleteWorkerSettings
<1>10. CASE Boot
  BY <1>10 DEF Boot, ReadConversion, ReadOwnSettings, ReadSharedSettings,
     ReadConversionAgain, BootFails, Reads
<1>11. ASSUME NEW p \in Pollers, FirstFetch(p) \/ StartJob(p)
      PROVE  SettingsOrTrouble'
  BY <1>11 DEF FirstFetch, StartJob, Calls, Gets
<1>12. ASSUME NEW p \in Pollers, UseCache(p)
      PROVE  SettingsOrTrouble'
  BY <1>12 DEF UseCache, Return, Idle, Gets
<1>13. ASSUME NEW p \in Pollers, Wait(p)
      PROVE  SettingsOrTrouble'
  <2>1. PICK q \in Pollers : poller[q].pc \in {"request", "answer", "release"}
    BY <1>13 DEF Wait, SingleFlight
  <2>2. poller[p].pc = "look" /\ q # p
    BY <1>13, <2>1 DEF Wait
  <2>3. boot = "started"
    BY <2>1, <2>2 DEF FirstFetchAlone
  <2>4. /\ UNCHANGED <<master, boot, cached, trouble, stopping>>
        /\ poller'[p].pc \in {"look", "idle"}
        /\ \A r \in Pollers \ {p} : poller'[r] = poller[r]
        /\ fellBack' = fellBack \/ fellBack' = (fellBack \/ cached = NoAnswer)
    BY <1>13, WaitMoves
  <2>. QED
    BY <2>3, <2>4
<1>14. ASSUME NEW p \in Pollers, BeginFetch(p)
      PROVE  SettingsOrTrouble'
  BY <1>14 DEF BeginFetch, Gets
<1>15. ASSUME NEW p \in Pollers, GetConfig(p)
      PROVE  SettingsOrTrouble'
  BY <1>15 DEF GetConfig, Gets
<1>16. ASSUME NEW p \in Pollers, Receive(p)
      PROVE  SettingsOrTrouble'
  <2>1. cached' = poller[p].answer /\ poller[p].answer \in Answers
    BY <1>16 DEF Receive, AnswersInOrder
  <2>2. cached' # NoAnswer
    BY <2>1, NoAnswerIsNone
  <2>. QED
    BY <1>16, <2>2 DEF Receive, Releases, Idle, Gets
<1>17. ASSUME NEW p \in Pollers, RequestLost(p)
      PROVE  SettingsOrTrouble'
  BY <1>17 DEF RequestLost, NextAttempt, Releases, Idle, Gets
<1>18. ASSUME NEW p \in Pollers, Unauthorized(p)
      PROVE  SettingsOrTrouble'
  BY <1>18 DEF Unauthorized, NextAttempt, Releases, Idle, Gets
<1>19. ASSUME NEW p \in Pollers, BackoffAborted(p)
      PROVE  SettingsOrTrouble'
  BY <1>19 DEF BackoffAborted, Releases, Idle, Gets
<1>20. ASSUME NEW p \in Pollers, EndFetch(p)
      PROVE  SettingsOrTrouble'
  BY <1>20 DEF EndFetch, Starts, Idle, Gets
<1>21. CASE Expire
  BY <1>21 DEF Expire
<1>22. CASE Stop
  BY <1>22 DEF Stop
<1>23. CASE UNCHANGED vars
  BY <1>23 DEF vars
<1>. QED
  BY <1>1, <1>2, <1>3, <1>4, <1>5, <1>6, <1>7, <1>8, <1>9, <1>10, <1>11,
     <1>12, <1>13, <1>14, <1>15, <1>16, <1>17, <1>18, <1>19, <1>20, <1>21,
     <1>22, <1>23 DEF Next, Save, Fetch

\* What was known of the master stays known.
LEMMA KnownKept ==
  ASSUME MasterTypeOK, [Next]_vars, NEW x \in Fetched, Known(x)
  PROVE  x.life <= life' /\ (Up' /\ x.life = life' => x.version <= config'.version)
<1>. DEFINE Kept == x.life <= life'
                    /\ (Up' /\ x.life = life' => x.version <= config'.version)
<1>. x.life \in Nat /\ x.version \in Nat /\ life \in Nat
  BY DEF Fetched, Answers, NoAnswer, Versions, Lives, MasterTypeOK, MasterKnown
<1>. USE DEF Known
<1>1. CASE UNCHANGED manager
  BY <1>1 DEF manager, Up
<1>2. ASSUME NEW a \in Admins, UpdateConfig(a)
      PROVE  Kept
  <2>1. config.version \in Nat /\ Up
    BY <1>2 DEF UpdateConfig, MasterTypeOK, MasterKnown, ConfigOf, Versions, Up
  <2>2. config'.version = config.version + 1 /\ life' = life
    BY <1>2 DEF UpdateConfig, Config
  <2>. QED
    BY <2>1, <2>2
<1>3. CASE Crash
  BY <1>3 DEF Crash, Up
<1>4. CASE StartMaster
  BY <1>4 DEF StartMaster
<1>5. ASSUME NEW a \in Admins, Save(a)
      PROVE  Kept
  BY <1>1, <1>5 DEF Save, OpenTemp, WriteTemp, Rename, SaveFails
<1>6. CASE EditFile \/ SaveWorkerSettings \/ DeleteWorkerSettings
  BY <1>1, <1>6 DEF EditFile, SaveWorkerSettings, DeleteWorkerSettings
<1>7. CASE Boot \/ Expire \/ Stop
  BY <1>1, <1>7
  DEF Boot, ReadConversion, ReadOwnSettings, ReadSharedSettings,
      ReadConversionAgain, BootFails, Reads, Expire, Stop, master
<1>8. ASSUME NEW p \in Pollers, FirstFetch(p) \/ StartJob(p) \/ Fetch(p)
      PROVE  Kept
  BY <1>1, <1>8
  DEF FirstFetch, StartJob, Calls, Fetch, UseCache, Wait, Return, BeginFetch, GetConfig, Receive,
      RequestLost, Unauthorized, NextAttempt, BackoffAborted, EndFetch, Starts, master
<1>9. CASE UNCHANGED vars
  BY <1>1, <1>9 DEF vars, master
<1>. QED
  BY <1>2, <1>3, <1>4, <1>5, <1>6, <1>7, <1>8, <1>9 DEF Next

\* Which goroutine holds an answer, and which cache it will meet.
LEMMA AnswersMove ==
  ASSUME WorkerTypeOK, [Next]_vars
  PROVE  \/ UNCHANGED <<poller, cached>>
         \/ \E p \in Pollers :
              /\ \A q \in Pollers \ {p} : poller'[q] = poller[q]
              /\ \/ cached' = cached /\ poller'[p].pc # "answer"
                 \/ GetConfig(p)
                 \/ Receive(p) /\ poller'[p].pc # "answer"
<1>. USE DEF WorkerTypeOK, PollerRow
<1>. DEFINE Moves(p) ==
       /\ \A q \in Pollers \ {p} : poller'[q] = poller[q]
       /\ \/ cached' = cached /\ poller'[p].pc # "answer"
          \/ GetConfig(p)
          \/ Receive(p) /\ poller'[p].pc # "answer"
<1>1. ASSUME NEW a \in Admins, UpdateConfig(a) \/ Save(a)
      PROVE  UNCHANGED <<poller, cached>>
  BY <1>1
  DEF UpdateConfig, Save, OpenTemp, WriteTemp, Rename, SaveFails, worker, fetcher
<1>2. CASE Crash \/ EditFile \/ StartMaster \/ SaveWorkerSettings
           \/ DeleteWorkerSettings
  BY <1>2 DEF Crash, EditFile, StartMaster, SaveWorkerSettings,
              DeleteWorkerSettings, worker, fetcher
<1>3. CASE Boot \/ Expire \/ Stop
  BY <1>3
  DEF Boot, ReadConversion, ReadOwnSettings, ReadSharedSettings,
      ReadConversionAgain, BootFails, Reads, Expire, Stop, fetcher
<1>4. ASSUME NEW p \in Pollers, FirstFetch(p) \/ StartJob(p) \/ UseCache(p) \/ Wait(p)
      PROVE  Moves(p)
  <2>1. \/ poller' = [poller EXCEPT ![p].pc = "look"]
        \/ poller' = [poller EXCEPT ![p].wait = @ + 1] /\ poller[p].pc = "look"
        \/ poller' = [poller EXCEPT ![p] = Idle]
    BY <1>4 DEF FirstFetch, StartJob, Calls, UseCache, Wait, Return
  <2>2. cached' = cached
    BY <1>4 DEF FirstFetch, StartJob, Calls, UseCache, Wait, Return
  <2>. QED
    BY <2>1, <2>2 DEF Idle
<1>5. ASSUME NEW p \in Pollers, BeginFetch(p) \/ BackoffAborted(p) \/ EndFetch(p)
      PROVE  Moves(p)
  BY <1>5 DEF BeginFetch, BackoffAborted, Releases, EndFetch, Starts, Idle
<1>6. ASSUME NEW p \in Pollers, RequestLost(p) \/ Unauthorized(p)
      PROVE  Moves(p)
  BY <1>6 DEF RequestLost, Unauthorized, NextAttempt, Releases, Idle
<1>7. ASSUME NEW p \in Pollers, GetConfig(p)
      PROVE  Moves(p)
  BY <1>7 DEF GetConfig
<1>8. ASSUME NEW p \in Pollers, Receive(p)
      PROVE  Moves(p)
  BY <1>8 DEF Receive, Releases, Idle
<1>9. CASE UNCHANGED vars
  BY <1>9 DEF vars, worker, fetcher
<1>. QED
  BY <1>1, <1>2, <1>3, <1>4, <1>5, <1>6, <1>7, <1>8, <1>9 DEF Next, Fetch

\* A fetch asks after the cache was last filled, so its answer is no older.
LEMMA AnswersStep ==
  ASSUME WorkerTypeOK, MasterTypeOK, SingleFlight, AnswersInOrder, [Next]_vars
  PROVE  AnswersInOrder'
<1>1. /\ cached \in Fetched /\ poller \in [Pollers -> PollerRow]
      /\ Answers \subseteq Fetched
  BY DEF WorkerTypeOK, Fetched
<1>2. \A x \in Fetched : Known(x) =>
        x.life <= life' /\ (Up' /\ x.life = life' => x.version <= config'.version)
  BY KnownKept
<1>3. CASE UNCHANGED <<poller, cached>>
  BY <1>1, <1>2, <1>3 DEF AnswersInOrder, Known, Older
<1>4. ASSUME NEW p \in Pollers,
             \A q \in Pollers \ {p} : poller'[q] = poller[q]
      PROVE  /\ cached' = cached /\ poller'[p].pc # "answer" => AnswersInOrder'
             /\ GetConfig(p) => AnswersInOrder'
             /\ Receive(p) /\ poller'[p].pc # "answer" => AnswersInOrder'
  <2>1. ASSUME cached' = cached, poller'[p].pc # "answer"
        PROVE  AnswersInOrder'
    BY <1>1, <1>2, <1>4, <2>1 DEF AnswersInOrder, Known, Older
  <2>2. ASSUME GetConfig(p)
        PROVE  AnswersInOrder'
    <3>. DEFINE now == [version |-> config.version, life |-> life]
    <3>1. now \in Answers
      BY <2>2, AnswerOfMaster DEF GetConfig, MasterTypeOK
    <3>2. poller'[p].answer = now /\ cached' = cached
      BY <1>1, <2>2 DEF GetConfig
    <3>3. Known(now)
      BY <3>1 DEF Known, Answers, Versions, Lives
    <3>4. Older(cached, now)
      BY <1>1, <2>2, <3>1 DEF AnswersInOrder, Known, Older, GetConfig, Fetched,
                              Answers, NoAnswer, Versions, Lives
    <3>5. /\ UNCHANGED <<config, life>>
      BY <2>2 DEF GetConfig, master, manager
    <3>. QED
      BY <1>1, <1>2, <1>4, <3>1, <3>2, <3>3, <3>4
      DEF AnswersInOrder, Known, Older
  <2>3. ASSUME Receive(p), poller'[p].pc # "answer"
        PROVE  AnswersInOrder'
    <3>1. \A q \in Pollers : poller'[q].pc # "answer"
      BY <1>4, <2>3 DEF Receive, SingleFlight
    <3>2. cached' = poller[p].answer /\ cached' \in Answers /\ Known(poller[p].answer)
      BY <2>3 DEF Receive, AnswersInOrder
    <3>. QED
      BY <1>1, <1>2, <3>1, <3>2 DEF AnswersInOrder, Known
  <2>. QED
    BY <2>1, <2>2, <2>3
<1>. QED
  BY <1>3, <1>4, AnswersMove

-----------------------------------------------------------------------------
(* The file.                                                               *)

\* How far the update a is, if it is the only one: what it has opened is the
\* temporary file, empty until it holds the configuration in memory.
Alone(a) ==
  /\ update[a].data = config
  /\ update[a].pc \in {"open", "rename"} => update[a].opened = "none"
  /\ update[a].pc = "write" => update[a].opened = "temp" /\ temp = Empty
  /\ update[a].pc = "rename" => temp = config

\* Until two updates are saved at the same time, one at most is, and the file is
\* whole.  Updates end with their process, so the next life begins without one.
SavesAlone ==
  /\ Up \/ \A a \in Admins : ~Saving(a)
  /\ ~overlap =>
       /\ Whole(file)
       /\ \A a, b \in Admins : Saving(a) /\ Saving(b) => a = b
       /\ \A a \in Admins : Saving(a) => Alone(a)
       /\ Up /\ ~unsaved /\ (\A a \in Admins : ~Saving(a)) => file = config

LEMMA WholeContents ==
  /\ \A c \in ConfigOf(Settings \cup {Invalid}) : Whole(c)
  /\ Whole(Config(Default, 1)) /\ Whole(Config(Invalid, 1))
  /\ ~Whole(Empty) /\ Empty # Torn
  /\ \A c \in ConfigOf(Settings) : c # NoFile /\ c # Down
  BY DEF Whole, ConfigOf, Config, Empty, Torn, NoFile, Down, Versions

\* The update that is being saved goes on, and the file is left alone.
LEMMA SaveGoesOn ==
  ASSUME SavesAlone, NEW a \in Admins, Saving(a), Saving(a)',
         \A b \in Admins \ {a} : update'[b] = update[b],
         Up', UNCHANGED overlap, ~overlap => Alone(a)' /\ file' = file
  PROVE  SavesAlone'
<1>. SUFFICES ASSUME ~overlap'
     PROVE  /\ Whole(file')
            /\ \A b \in Admins : Saving(b)' => b = a
            /\ Alone(a)'
  BY DEF SavesAlone
<1>1. \A b \in Admins \ {a} : ~Saving(b)
  BY DEF SavesAlone
<1>. QED
  BY <1>1 DEF SavesAlone, Saving

LEMMA SavesStep ==
  ASSUME MasterTypeOK, HandlesValid, SavesAlone, [Next]_vars
  PROVE  SavesAlone'
<1>. USE DEF Saving
<1>0. /\ update \in [Admins -> Updates \cup {NoUpdate}]
      /\ Up => config \in ConfigOf(Settings)
      /\ NoUpdate.pc = "idle"
  BY DEF MasterTypeOK, MasterKnown, Up, Down, NoUpdate
<1>1. ASSUME NEW a \in Admins, UpdateConfig(a)
      PROVE  SavesAlone'
  <2>1. PICK s \in Settings : config' = Config(s, config.version + 1)
    BY <1>1 DEF UpdateConfig, Valid
  <2>2. Up'
    BY <2>1 DEF Up, Down, Config
  <2>3. /\ update'[a] = [pc |-> "open", data |-> config', opened |-> "none"]
        /\ \A b \in Admins \ {a} : update'[b] = update[b]
    BY <1>0, <1>1 DEF UpdateConfig
  <2>4. file' = file /\ (~overlap' => ~overlap /\ \A b \in Admins \ {a} : ~Saving(b))
    BY <1>1 DEF UpdateConfig, disk, MasterTypeOK
  <2>5. Alone(a)'
    BY <2>3 DEF Alone
  <2>. QED
    BY <2>2, <2>3, <2>4, <2>5 DEF SavesAlone
<1>2. ASSUME NEW a \in Admins, OpenTemp(a)
      PROVE  SavesAlone'
  <2>1. /\ update'[a] = [update[a] EXCEPT !.pc = "write", !.opened = "temp"]
        /\ \A b \in Admins \ {a} : update'[b] = update[b]
        /\ update[a] \in Updates /\ Up
    BY <1>0, <1>2 DEF OpenTemp, SavesAlone
  <2>2. /\ update'[a].pc = "write" /\ update'[a].opened = "temp"
        /\ update'[a].data = update[a].data
    BY <2>1 DEF Updates
  <2>3. temp' = Empty /\ UNCHANGED <<config, file, overlap, unsaved>> /\ Up'
    BY <1>2, <2>1 DEF OpenTemp, manager, Up
  <2>4. ~overlap => Alone(a)'
    BY <1>2, <2>2, <2>3 DEF Alone, SavesAlone, OpenTemp
  <2>. QED
    BY <1>2, <2>1, <2>2, <2>3, <2>4, SaveGoesOn DEF OpenTemp
<1>3. ASSUME NEW a \in Admins, WriteTemp(a)
      PROVE  SavesAlone'
  <2>1. /\ update'[a] = [update[a] EXCEPT !.pc = "rename", !.opened = "none"]
        /\ \A b \in Admins \ {a} : update'[b] = update[b]
        /\ update[a] \in Updates /\ Up
    BY <1>0, <1>3 DEF WriteTemp, SavesAlone
  <2>2. /\ update'[a].pc = "rename" /\ update'[a].opened = "none"
        /\ update'[a].data = update[a].data
    BY <2>1 DEF Updates
  <2>3. UNCHANGED <<config, overlap, unsaved>> /\ Up'
    BY <1>3, <2>1 DEF WriteTemp, manager, Up
  <2>4. ~overlap => Alone(a)' /\ file' = file
    <3>. SUFFICES ASSUME ~overlap PROVE Alone(a)' /\ file' = file
      OBVIOUS
    <3>1. update[a].opened = "temp" /\ temp = Empty /\ update[a].data = config
      BY <1>3 DEF SavesAlone, Alone, WriteTemp
    <3>2. /\ temp' \in [old \in Contents |-> Written(old, update[a].data)][temp]
          /\ file' = file
      BY <1>3, <3>1 DEF WriteTemp, Puts
    <3>3. temp' \in Written(Empty, config)
      BY <3>1, <3>2, ContentFacts
    <3>4. temp' = config
      BY <3>3, WholeContents DEF Written
    <3>. QED
      BY <2>2, <2>3, <3>1, <3>2, <3>4 DEF Alone
  <2>. QED
    BY <1>3, <2>1, <2>2, <2>3, <2>4, SaveGoesOn DEF WriteTemp
<1>4. ASSUME NEW a \in Admins, Rename(a)
      PROVE  SavesAlone'
  <2>1. Up /\ Up' /\ UNCHANGED <<config, overlap>>
    BY <1>0, <1>4 DEF Rename, manager, Up, SavesAlone
  <2>2. CASE overlap
    BY <2>1, <2>2 DEF SavesAlone
  <2>3. CASE ~overlap
    <3>1. temp = config /\ temp # NoFile /\ \A b \in Admins \ {a} : ~Saving(b)
      BY <1>0, <1>4, <2>1, <2>3, WholeContents DEF Rename, SavesAlone, Alone
    <3>2. file' = config /\ Whole(file')
      BY <1>0, <1>4, <2>1, <3>1, WholeContents DEF Rename, ConfigOf
    <3>3. \A b \in Admins : update'[b].pc = "idle"
      BY <1>0, <1>4, <3>1 DEF Rename, Updates, NoUpdate
    <3>. QED
      BY <2>1, <3>2, <3>3 DEF SavesAlone
  <2>. QED
    BY <2>2, <2>3
<1>5. ASSUME NEW a \in Admins, SaveFails(a)
      PROVE  SavesAlone'
  <2>1. /\ update'[a] = NoUpdate /\ \A b \in Admins \ {a} : update'[b] = update[b]
        /\ UNCHANGED <<config, overlap>> /\ unsaved' /\ Up /\ Up'
    BY <1>0, <1>5 DEF SaveFails, manager, SavesAlone, Up
  <2>2. ~overlap => file' = file /\ \A b \in Admins \ {a} : ~Saving(b)
    BY <1>5 DEF SaveFails, SavesAlone, Alone, Puts, disk
  <2>. QED
    BY <1>0, <2>1, <2>2 DEF SavesAlone
<1>6. CASE Crash
  BY <1>0, <1>6 DEF Crash, SavesAlone, Up, disk
<1>7. CASE EditFile
  BY <1>7, WholeContents DEF EditFile, SavesAlone, Up, manager
<1>8. CASE StartMaster
  <2>1. Whole(file') /\ file' = config'
    <3>1. CASE Whole(file) /\ Valid(file.settings)
      BY <1>8, <3>1 DEF StartMaster, NewManager, disk
    <3>2. CASE ~(Whole(file) /\ Valid(file.settings))
      BY <1>8, <3>2, WholeContents DEF StartMaster, NewManager
    <3>. QED
      BY <3>1, <3>2
  <2>. QED
    BY <1>8, <2>1 DEF StartMaster, SavesAlone
<1>9. CASE UNCHANGED <<config, update, disk, overlap, unsaved>>
  BY <1>9 DEF disk, SavesAlone, Up, Alone
<1>10. ASSUME NEW p \in Pollers, FirstFetch(p) \/ StartJob(p) \/ Fetch(p)
       PROVE  UNCHANGED <<config, update, disk, overlap, unsaved>>
  BY <1>10 DEF FirstFetch, StartJob, Calls, Fetch, UseCache, Return, Wait, BeginFetch, GetConfig, Receive,
     RequestLost, Unauthorized, NextAttempt, BackoffAborted, EndFetch, Starts,
     master, manager, saving
<1>11. ASSUME \/ SaveWorkerSettings \/ DeleteWorkerSettings
              \/ Boot \/ Expire \/ Stop \/ UNCHANGED vars
       PROVE  UNCHANGED <<config, update, disk, overlap, unsaved>>
  BY <1>11 DEF SaveWorkerSettings, DeleteWorkerSettings, Boot, ReadConversion,
     ReadOwnSettings, ReadSharedSettings, ReadConversionAgain, BootFails, Reads,
     Expire, Stop, vars, master, manager, saving
<1>. QED
  BY <1>1, <1>2, <1>3, <1>4, <1>5, <1>6, <1>7, <1>8, <1>9, <1>10, <1>11
  DEF Next, Save

-----------------------------------------------------------------------------
(* Theorems.                                                               *)

IInv ==
  /\ WorkerTypeOK /\ MasterTypeOK /\ HandlesValid
  /\ SingleFlight /\ FirstFetchAlone /\ SettingsOrTrouble /\ AnswersInOrder
  /\ SavesAlone

LEMMA Invariance == Spec => []IInv
<1>1. Init => IInv
  <2>. SUFFICES ASSUME Init PROVE IInv
    OBVIOUS
  <2>1. WorkerTypeOK
    BY IdleIsRow, NoAnswerIsNone DEF Init, WorkerTypeOK
  <2>2. MasterTypeOK
    <3>1. 1 \in Lives
      BY DEF Lives
    <3>. QED
      BY <3>1, ContentFacts DEF Init, MasterTypeOK, MasterKnown
  <2>3. HandlesValid
    BY DEF Init, HandlesValid, NoUpdate
  <2>4. SingleFlight /\ FirstFetchAlone /\ SettingsOrTrouble
    BY DEF Init, SingleFlight, FirstFetchAlone, SettingsOrTrouble, Idle
  <2>5. AnswersInOrder
    BY DEF Init, AnswersInOrder, Known, Idle, NoAnswer
  <2>6. SavesAlone
    BY WholeContents DEF Init, SavesAlone, Saving, NoUpdate
  <2>. QED
    BY <2>1, <2>2, <2>3, <2>4, <2>5, <2>6 DEF IInv
<1>2. IInv /\ [Next]_vars => IInv'
  <2>. SUFFICES ASSUME IInv, [Next]_vars PROVE IInv'
    OBVIOUS
  <2>1. MasterKnown
    BY DEF IInv, MasterTypeOK
  <2>. QED
    BY <2>1, WorkerTypeStep, MasterTypeStep, FlightStep, FirstFetchStep,
       SettingsStep, AnswersStep, SavesStep DEF IInv
<1>. QED
  BY <1>1, <1>2, PTL DEF Spec

\* Configuration keeps its types: what the manager holds is valid, whatever it
\* found in its file (NewManager, loadFromFile).
THEOREM TypesCorrect == Spec => []TypeOK
<1>1. IInv => TypeOK
  BY TypeHalves DEF IInv
<1>. QED
  BY <1>1, Invariance, PTL

\* One goroutine of the worker fetches at a time, and the flag tells whether
\* one does (fetchConfigWithRetry).
THEOREM OneFetchAtATime == Spec => []SingleFlight
<1>1. IInv => SingleFlight
  BY DEF IInv
<1>. QED
  BY <1>1, Invariance, PTL

\* As long as no two updates are saved at the same time the file is a whole
\* configuration, through every crash and failed write, and in the end that of
\* the memory (Update, saveToFile, NewManager).
THEOREM FileAlwaysWhole == Spec => []AloneIsAtomic
<1>1. IInv => AloneIsAtomic
  BY DEF IInv, SavesAlone, AloneIsAtomic
<1>. QED
  BY <1>1, Invariance, PTL

\* Without an API key a job gets the master's settings unless there was trouble
\* (FetchConfig, executeJob).
THEOREM MasterSettingsUsed == Spec => []FallbackOnlyWithoutMaster
<1>1. IInv => FallbackOnlyWithoutMaster
  BY DEF IInv, SettingsOrTrouble, WorkerTypeOK, FallbackOnlyWithoutMaster,
         PulledFromMaster
<1>. QED
  BY <1>1, Invariance, PTL

\* No job gets older settings than the one before it (fetchConfigWithRetry).
THEOREM CacheNeverOlder == Spec => NeverOlder
<1>1. IInv /\ [Next]_vars =>
        [\/ cached.life < cached'.life
         \/ cached.life = cached'.life /\ cached.version <= cached'.version]_vars
  <2>. SUFFICES ASSUME IInv, [Next]_vars
                PROVE  \/ cached.life < cached'.life
                       \/ cached.life = cached'.life
                          /\ cached.version <= cached'.version
    OBVIOUS
  <2>1. cached.life \in Nat /\ cached.version \in Nat
    BY DEF IInv, WorkerTypeOK, Fetched, Answers, NoAnswer, Versions, Lives
  <2>2. ASSUME NEW p \in Pollers, Receive(p)
        PROVE  Older(cached, cached')
    BY <2>2 DEF Receive, IInv, AnswersInOrder
  <2>3. ASSUME NEW p \in Pollers, GetConfig(p)
        PROVE  cached' = cached
    BY <2>3 DEF GetConfig
  <2>. QED
    BY <2>1, <2>2, <2>3, AnswersMove DEF IInv, Older
<1>. QED
  BY <1>1, Invariance, PTL DEF Spec, NeverOlder

=============================================================================
