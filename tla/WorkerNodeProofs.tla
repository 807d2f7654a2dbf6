-------------------------- MODULE WorkerNodeProofs --------------------------
(***************************************************************************)
(* WorkerNode, for any number of pollers and attempts and sources of any   *)
(* size: its types, that slots of the job semaphore are neither lost nor   *)
(* given back twice, that no attempt leaves its directory behind, and that *)
(* what an attempt without a twin converts and uploads is whole.           *)
(***************************************************************************)
EXTENDS WorkerNode, FiniteSetTheorems, TLAPS

USE DEF WorkerAssumption
USE WorkerAssumption

-----------------------------------------------------------------------------
(* The inductive invariant.                                                *)

\* The attempts that hold a slot.
RunningAll == {a \in Attempts : Running(a)}

\* What TypeOK says of a directory.
SourceFile == [there : BOOLEAN, blocks : Seq(Versions \cup {Garbled})]
OutputFile == [by : 0 .. MaxAttempts, whole : BOOLEAN]
Directory  == [made : BOOLEAN, source : SourceFile, output : OutputFile]

\* TypeOK but for the number of slots: that it never falls below zero depends
\* on SlotsAccounted.
Typed ==
  /\ up \in {"up", "stopping", "down"}
  /\ poller \in [Pollers -> {"idle", "asking", "stopped"}]
  /\ attempt \in [Attempts -> Attempt \cup {Gone("unborn"), Gone("over")}]
  /\ disk \in [Jobs -> Directory]
  /\ version \in [Jobs -> Versions]
  /\ resume \in BOOLEAN /\ checksum \in BOOLEAN
  /\ leftover \subseteq Jobs /\ mixed \subseteq Jobs
  /\ kills \in 0 .. MaxKills

\* A process that is down has neither a poller that asks nor an attempt.
AtRest == up = "down" => Asking = {} /\ RunningAll = {}

IInv == Typed /\ SlotsAccounted /\ AtRest /\ DirectoriesOwned

-----------------------------------------------------------------------------
(* Counting.                                                               *)

\* The sets that are counted are finite.
LEMMA Finite ==
  /\ IsFiniteSet(Asking) /\ Cardinality(Asking) \in Nat
  /\ IsFiniteSet(RunningAll) /\ Cardinality(RunningAll) \in Nat
  /\ IsFiniteSet(Pollers) /\ Cardinality(Pollers) \in Nat
<1>1. IsFiniteSet(Attempts)
  BY FS_Interval DEF Attempts
<1>2. Asking \subseteq Pollers /\ RunningAll \subseteq Attempts
  BY DEF Asking, RunningAll
<1>3. IsFiniteSet(Pollers)
  OBVIOUS
<1> QED
  BY <1>1, <1>2, <1>3, FS_Subset, FS_CardinalityType

\* The slots in terms of those sets, before and after a step.
LEMMA SlotsCounted ==
  /\ SlotsAccounted <=>
       /\ slots = Cardinality(Asking) + Cardinality(RunningAll)
       /\ slots <= Cardinality(Pollers)
  /\ SlotsAccounted' <=>
       /\ slots' = Cardinality(Asking') + Cardinality(RunningAll')
       /\ slots' <= Cardinality(Pollers)
BY DEF SlotsAccounted, RunningAll

\* A set that gains an element.
LEMMA OneMore ==
  ASSUME NEW S, IsFiniteSet(S), NEW x, x \notin S
  PROVE  Cardinality(S \cup {x}) = Cardinality(S) + 1
BY FS_AddElement

\* A set that loses one: it had one.
LEMMA OneLess ==
  ASSUME NEW S, IsFiniteSet(S), NEW x \in S
  PROVE  Cardinality(S \ {x}) = Cardinality(S) - 1 /\ Cardinality(S) > 0
<1>1. Cardinality(S \ {x}) = Cardinality(S) - 1
  BY FS_RemoveElement
<1>2. IsFiniteSet(S \ {x})
  BY FS_RemoveElement
<1> QED
  BY <1>1, <1>2, FS_CardinalityType

-----------------------------------------------------------------------------
(* What the steps of an attempt may do to the rest.                        *)

\* Nobody starts or ends.
Keeps ==
  \A b \in Attempts :
    /\ Running(b)' <=> Running(b)
    /\ Running(b) => attempt'[b].job = attempt[b].job

\* Of the directories only those of a running attempt are made.
MakesOwn == \A j \in Jobs : disk'[j].made => disk[j].made \/ RunningFor(j)' # {}

\* Attempt a ends, and with it its directory and its slot.
Ends(a) ==
  /\ Running(a) /\ ~ Running(a)'
  /\ \A b \in Attempts \ {a} :
       /\ Running(b)' <=> Running(b)
       /\ Running(b) => attempt'[b].job = attempt[b].job
  /\ ~ disk'[attempt[a].job].made
  /\ \A j \in Jobs : disk'[j].made => disk[j].made
  /\ leftover \ {attempt[a].job} \subseteq leftover'
  /\ slots' = slots - 1
  /\ UNCHANGED <<up, poller>>

\* Every step of an attempt that does not end it.
Continues(a) ==
  \/ StatPartial(a)
  \/ RequestFails(a)
  \/ RequestRefused(a)
  \/ RangeRefused(a)
  \/ FullAnswer(a)
  \/ PartialAnswer(a)
  \/ CopyBlock(a)
  \/ CopyFails(a)
  \/ VerifyChecksum(a)
  \/ StartConversion(a)
  \/ ConversionFails(a)
  \/ EndConversion(a)
  \/ OpenOutput(a)
  \/ UploadFails(a)

-----------------------------------------------------------------------------
(* Types.                                                                  *)

\* A running attempt has the record type; one that starts over or fails keeps it.
LEMMA RunningTyped ==
  ASSUME Typed, NEW a \in Attempts
  PROVE  /\ Running(a) <=> attempt[a] \in Attempt
         /\ Running(a) => /\ Retried(attempt[a]) \in Attempt
                          /\ Retried(attempt[a]).job = attempt[a].job
<1>1. attempt[a] \in Attempt \/ attempt[a].phase \in {"unborn", "over"}
  BY DEF Typed, Gone
<1>2. Running(a) <=> attempt[a] \in Attempt
  BY <1>1 DEF Running, Attempt, Phases
<1>3. ASSUME attempt[a] \in Attempt
      PROVE  /\ Retried(attempt[a]) \in Attempt
             /\ Retried(attempt[a]).job = attempt[a].job
  <2> DEFINE r == attempt[a]
             idle == [r EXCEPT !.offset = 0, !.left = 0, !.append = FALSE,
                               !.linked = FALSE]
  <2>1. idle \in Attempt /\ idle.job = r.job /\ idle.try = r.try
    BY <1>3 DEF Attempt
  <2>2. r.try \in 1 .. MaxTries
    BY <1>3 DEF Attempt
  <2>3. CASE r.try < MaxTries /\ up = "up"
    <3>1. r.try + 1 \in 1 .. MaxTries
      BY <2>2, <2>3
    <3>2. Retried(r) = [idle EXCEPT !.phase = "stat", !.try = r.try + 1]
      BY <2>1, <2>3 DEF Retried
    <3> HIDE DEF idle, r
    <3> QED
      BY <2>1, <3>1, <3>2 DEF Attempt, Phases, r
  <2>4. CASE ~ (r.try < MaxTries /\ up = "up")
    <3>1. Retried(r) = [idle EXCEPT !.phase = "failed"]
      BY <2>4 DEF Retried
    <3> HIDE DEF idle, r
    <3> QED
      BY <2>1, <3>1 DEF Attempt, Phases, r
  <2> QED
    BY <2>3, <2>4
<1> QED
  BY <1>2, <1>3

\* An attempt that is not there has no file to unlink.
LEMMA UnlinkGone ==
  ASSUME NEW p
  PROVE  [Gone(p) EXCEPT !.linked = FALSE] = Gone(p)
<1> DEFINE G == [phase : {p}, job : {NoJob}, try : {1}, offset : {0}, left : {0},
                 append : {FALSE}, linked : {FALSE}, twin : {FALSE}, whole : {FALSE}]
<1>1. Gone(p) \in G
  BY DEF Gone
<1>2. ASSUME NEW x \in G
      PROVE  [x EXCEPT !.linked = FALSE] \in G
  OBVIOUS
<1>3. ASSUME NEW x \in G
      PROVE  [x EXCEPT !.linked = FALSE] = x
  BY <1>2
<1> QED
  BY <1>1, <1>3

\* Unlinking a file changes no type, no phase and no job.
LEMMA UnlinkTyped ==
  ASSUME NEW j, NEW who \in [Attempts -> Attempt \cup {Gone("unborn"), Gone("over")}]
  PROVE  /\ Unlink(j, who) \in [Attempts -> Attempt \cup {Gone("unborn"), Gone("over")}]
         /\ \A b \in Attempts : /\ Unlink(j, who)[b].phase = who[b].phase
                                /\ Unlink(j, who)[b].job = who[b].job
<1> DEFINE cut(b) == [who[b] EXCEPT !.linked = FALSE]
<1>1. ASSUME NEW b \in Attempts
      PROVE  /\ cut(b) \in Attempt \cup {Gone("unborn"), Gone("over")}
             /\ cut(b).phase = who[b].phase /\ cut(b).job = who[b].job
  <2>1. CASE who[b] \in Attempt
    BY <2>1 DEF Attempt
  <2>2. ASSUME NEW p, who[b] = Gone(p)
        PROVE  cut(b) = Gone(p) /\ cut(b).phase = who[b].phase /\ cut(b).job = who[b].job
    BY <2>2, UnlinkGone DEF Gone
  <2>3. \/ who[b] \in Attempt
        \/ who[b] = Gone("unborn")
        \/ who[b] = Gone("over")
    OBVIOUS
  <2> HIDE DEF cut
  <2> QED
    BY <2>1, <2>2, <2>3
<1>2. Unlink(j, who) =
        [b \in Attempts |-> IF attempt[b].job = j THEN cut(b) ELSE who[b]]
  BY DEF Unlink
<1> HIDE DEF cut
<1> QED
  BY <1>1, <1>2

\* A block written anywhere leaves a sequence of blocks.
LEMMA PutTyped ==
  ASSUME NEW T, Garbled \in T, NEW s \in Seq(T), NEW i \in Int, NEW b \in T
  PROVE  Put(s, i, b) \in Seq(T)
<1>1. Put(s, i, b) \in [1 .. (IF i > Len(s) THEN i ELSE Len(s)) -> T]
  BY DEF Put
<1>2. (IF i > Len(s) THEN i ELSE Len(s)) \in Nat
  OBVIOUS
<1> QED
  BY <1>1, <1>2

\* What a step of an attempt does to an attempt table typed as it should be.
LEMMA ReplaceTyped ==
  ASSUME Typed, NEW a \in Attempts, Running(a), NEW r \in Attempt,
         r.job = attempt[a].job, attempt' = [attempt EXCEPT ![a] = r]
  PROVE  /\ attempt' \in [Attempts -> Attempt \cup {Gone("unborn"), Gone("over")}]
         /\ Keeps
<1>1. attempt' \in [Attempts -> Attempt \cup {Gone("unborn"), Gone("over")}]
  BY DEF Typed
<1>2. \A b \in Attempts : attempt'[b] = IF b = a THEN r ELSE attempt[b]
  BY DEF Typed
<1>3. r.phase \in Phases
  BY DEF Attempt
<1> QED
  BY <1>1, <1>2, <1>3 DEF Keeps, Running

\* The same when the file is unlinked as well.
LEMMA ReplaceUnlinkTyped ==
  ASSUME Typed, NEW a \in Attempts, Running(a), NEW r \in Attempt, NEW j,
         r.job = attempt[a].job, attempt' = Unlink(j, [attempt EXCEPT ![a] = r])
  PROVE  /\ attempt' \in [Attempts -> Attempt \cup {Gone("unborn"), Gone("over")}]
         /\ Keeps
<1> DEFINE who == [attempt EXCEPT ![a] = r]
<1>1. who \in [Attempts -> Attempt \cup {Gone("unborn"), Gone("over")}]
  BY DEF Typed
<1>2. \A b \in Attempts : who[b] = IF b = a THEN r ELSE attempt[b]
  BY DEF Typed
<1>3. r.phase \in Phases
  BY DEF Attempt
<1>4. /\ attempt' \in [Attempts -> Attempt \cup {Gone("unborn"), Gone("over")}]
      /\ \A b \in Attempts : /\ attempt'[b].phase = who[b].phase
                             /\ attempt'[b].job = who[b].job
  <2>1. attempt' = Unlink(j, who)
    OBVIOUS
  <2> HIDE DEF who
  <2>2. /\ Unlink(j, who) \in [Attempts -> Attempt \cup {Gone("unborn"), Gone("over")}]
        /\ \A b \in Attempts : /\ Unlink(j, who)[b].phase = who[b].phase
                               /\ Unlink(j, who)[b].job = who[b].job
    BY <1>1, UnlinkTyped
  <2> QED
    BY <2>1, <2>2
<1> QED
  BY <1>2, <1>3, <1>4, ZenonT(60) DEF Keeps, Running

\* A change of the disk by a running attempt, to the directory of its job.
LEMMA DirTyped ==
  ASSUME Typed, Keeps, NEW a \in Attempts, Running(a), NEW d \in Directory,
         disk' = disk \/ disk' = [disk EXCEPT ![attempt[a].job] = d]
  PROVE  disk' \in [Jobs -> Directory] /\ MakesOwn
<1>1. ASSUME NEW j \in Jobs, j = attempt[a].job
      PROVE  a \in RunningFor(j)'
  BY <1>1 DEF Keeps, RunningFor
<1>2. attempt[a].job \in Jobs
  BY RunningTyped DEF Attempt
<1>3. disk \in [Jobs -> Directory]
  BY DEF Typed
<1>4. CASE disk' = disk
  BY <1>3, <1>4 DEF MakesOwn
<1>5. CASE disk' = [disk EXCEPT ![attempt[a].job] = d]
  <2>1. \A j \in Jobs : disk'[j] = IF j = attempt[a].job THEN d ELSE disk[j]
    BY <1>3, <1>5
  <2>2. MakesOwn
    BY <1>1, <2>1 DEF MakesOwn
  <2> QED
    BY <1>3, <1>5, <2>2
<1> QED
  BY <1>4, <1>5

\* Files that are of the type of their directory's entry.
LEMMA FilesTyped ==
  /\ NoFile \in SourceFile
  /\ \A s \in Seq(Versions \cup {Garbled}) : FileOf(s) \in SourceFile
  /\ \A a \in Attempts : [by |-> a, whole |-> FALSE] \in OutputFile
<1>1. <<>> \in Seq(Versions \cup {Garbled})
  OBVIOUS
<1> QED
  BY <1>1 DEF NoFile, FileOf, SourceFile, OutputFile, Attempts

\* A step of an attempt that does not end it keeps the types and who is running,
\* makes no directory but its own, and takes or gives no slot.
LEMMA ContinuesStep ==
  ASSUME Typed, NEW a \in Attempts, Continues(a)
  PROVE  /\ Typed' /\ Keeps /\ MakesOwn
         /\ UNCHANGED <<up, poller, slots, leftover>>
<1> DEFINE j == attempt[a].job
           AType == [Attempts -> Attempt \cup {Gone("unborn"), Gone("over")}]
           Goal == attempt' \in AType /\ Keeps /\ disk' \in [Jobs -> Directory] /\ MakesOwn
<1>1. Running(a) /\ UNCHANGED unpolled
  BY DEF Continues, Running, Phases, StatPartial, RequestFails, RequestRefused,
         RangeRefused, FullAnswer, PartialAnswer, CopyBlock, CopyFails,
         VerifyChecksum, StartConversion, ConversionFails, EndConversion,
         OpenOutput, UploadFails
<1>2. /\ attempt[a] \in Attempt /\ j \in Jobs
      /\ Retried(attempt[a]) \in Attempt /\ Retried(attempt[a]).job = j
  BY <1>1, RunningTyped DEF Attempt
<1>3. /\ attempt \in AType /\ disk \in [Jobs -> Directory] /\ disk[j] \in Directory
      /\ disk[j].source \in SourceFile /\ disk[j].output \in OutputFile
  BY <1>2 DEF Typed, Directory
<1>4. ASSUME NEW r \in Attempt, r.job = j, attempt' = [attempt EXCEPT ![a] = r]
      PROVE  attempt' \in AType /\ Keeps
  BY <1>1, <1>4, ReplaceTyped
<1>5. ASSUME NEW r \in Attempt, r.job = j,
             attempt' = Unlink(j, [attempt EXCEPT ![a] = r])
      PROVE  attempt' \in AType /\ Keeps
  BY <1>1, <1>5, ReplaceUnlinkTyped
<1>6. ASSUME Keeps, NEW d \in Directory, disk' = disk \/ disk' = [disk EXCEPT ![j] = d]
      PROVE  disk' \in [Jobs -> Directory] /\ MakesOwn
  BY <1>1, <1>6, DirTyped
<1>7. Garbled \in Versions \cup {Garbled} /\ version[j] \in Versions \cup {Garbled}
  BY <1>2 DEF Typed
<1>8. ASSUME RequestRefused(a)
       PROVE  Goal
  <2>1. [attempt[a] EXCEPT !.phase = "failed"] \in Attempt
    BY <1>2 DEF Attempt, Phases
  <2>2. attempt' = [attempt EXCEPT ![a] = [attempt[a] EXCEPT !.phase = "failed"]]
    BY <1>8 DEF RequestRefused, Move
  <2>3. disk' = disk
    BY <1>8 DEF RequestRefused
  <2> QED
    BY <1>2, <1>3, <1>4, <1>6, <2>1, <2>2, <2>3 DEF Attempt
<1>9. ASSUME ConversionFails(a)
       PROVE  Goal
  <2>1. [attempt[a] EXCEPT !.phase = "failed"] \in Attempt
    BY <1>2 DEF Attempt, Phases
  <2>2. attempt' = [attempt EXCEPT ![a] = [attempt[a] EXCEPT !.phase = "failed"]]
    BY <1>9 DEF ConversionFails, Move
  <2>3. disk' = disk
    BY <1>9 DEF ConversionFails
  <2> QED
    BY <1>2, <1>3, <1>4, <1>6, <2>1, <2>2, <2>3 DEF Attempt
<1>10. ASSUME UploadFails(a)
       PROVE  Goal
  <2>1. [attempt[a] EXCEPT !.phase = "failed"] \in Attempt
    BY <1>2 DEF Attempt, Phases
  <2>2. attempt' = [attempt EXCEPT ![a] = [attempt[a] EXCEPT !.phase = "failed"]]
    BY <1>10 DEF UploadFails, Move
  <2>3. disk' = disk
    BY <1>10 DEF UploadFails
  <2> QED
    BY <1>2, <1>3, <1>4, <1>6, <2>1, <2>2, <2>3 DEF Attempt
<1>11. ASSUME StatPartial(a)
       PROVE  Goal
  <2> DEFINE off == IF resume THEN Len(disk[j].source.blocks) ELSE 0
             r == [attempt[a] EXCEPT !.phase = "asked", !.offset = off]
             d == [disk[j] EXCEPT !.made = TRUE]
  <2>1. off \in Nat
    BY <1>3 DEF SourceFile
  <2> HIDE DEF off
  <2>2. r \in Attempt /\ r.job = j
    BY <1>2, <2>1 DEF Attempt, Phases
  <2> USE DEF off
  <2>3. attempt' = [attempt EXCEPT ![a] = r] /\ disk' = [disk EXCEPT ![j] = d]
    BY <1>11 DEF StatPartial, MakeDir
  <2>4. d \in Directory
    BY <1>3 DEF Directory, SourceFile, OutputFile
  <2> QED
    BY <1>4, <1>6, <2>3, <2>4, <2>2
<1>12. ASSUME RequestFails(a)
       PROVE  Goal
  <2>1. attempt' = [attempt EXCEPT ![a] = Retried(attempt[a])] /\ disk' = disk
    BY <1>12 DEF RequestFails
  <2> QED
    BY <1>2, <1>3, <1>4, <1>6, <2>1
<1>13. ASSUME RangeRefused(a)
       PROVE  Goal
  <2> DEFINE d == [disk[j] EXCEPT !.source = NoFile]
  <2>1. /\ attempt' = Unlink(j, [attempt EXCEPT ![a] = Retried(attempt[a])])
        /\ disk' = [disk EXCEPT ![j] = d]
    BY <1>13 DEF RangeRefused
  <2>2. d \in Directory
    BY <1>3, FilesTyped DEF Directory
  <2> QED
    BY <1>2, <1>5, <1>6, <2>1, <2>2
<1>14. ASSUME FullAnswer(a)
       PROVE  Goal
  <2> DEFINE r == [attempt[a] EXCEPT !.phase = "copying", !.left = Remaining(0),
                                     !.append = FALSE, !.linked = TRUE]
             d == [disk[j] EXCEPT !.source = FileOf(<<>>)]
  <2>1. CASE disk[j].made
    <3>1. Remaining(0) \in Nat
      BY DEF Remaining
    <3>2. r \in Attempt /\ r.job = j
      BY <1>2, <3>1 DEF Attempt, Phases
    <3>3. attempt' = [attempt EXCEPT ![a] = r] /\ disk' = [disk EXCEPT ![j] = d]
      BY <1>14, <2>1 DEF FullAnswer
    <3>4. <<>> \in Seq(Versions \cup {Garbled})
      OBVIOUS
    <3>5. FileOf(<<>>) \in SourceFile
      BY <3>4, FilesTyped
    <3>6. d \in Directory
      BY <1>3, <3>5 DEF Directory
    <3> QED
      BY <1>4, <1>6, <3>2, <3>3, <3>6
  <2>2. CASE ~ disk[j].made
    <3>1. attempt' = [attempt EXCEPT ![a] = Retried(attempt[a])] /\ disk' = disk
      BY <1>14, <2>2 DEF FullAnswer
    <3> QED
      BY <1>2, <1>3, <1>4, <1>6, <3>1
  <2> QED
    BY <2>1, <2>2
<1>15. ASSUME PartialAnswer(a)
       PROVE  Goal
  <2> DEFINE r == [attempt[a] EXCEPT !.phase = "copying",
                                     !.left = Remaining(attempt[a].offset),
                                     !.append = TRUE, !.linked = TRUE]
  <2>1. disk' = disk
    BY <1>15 DEF PartialAnswer
  <2>2. CASE disk[j].source.there
    <3>1. attempt[a].offset \in Nat
      BY <1>2 DEF Attempt
    <3>2. Remaining(attempt[a].offset) \in Nat
      BY <1>15, <3>1 DEF Remaining, PartialAnswer, Satisfiable
    <3>3. r \in Attempt /\ r.job = j
      BY <1>2, <3>2 DEF Attempt, Phases
    <3>4. attempt' = [attempt EXCEPT ![a] = r]
      BY <1>15, <2>2 DEF PartialAnswer
    <3> QED
      BY <1>3, <1>4, <1>6, <2>1, <3>3, <3>4
  <2>3. CASE ~ disk[j].source.there
    <3>1. attempt' = [attempt EXCEPT ![a] = Retried(attempt[a])]
      BY <1>15, <2>3 DEF PartialAnswer
    <3> QED
      BY <1>2, <1>3, <1>4, <1>6, <2>1, <3>1
  <2> QED
    BY <2>2, <2>3
<1>16. ASSUME CopyBlock(a)
       PROVE  Goal
  <2> DEFINE s  == disk[j].source.blocks
             at == Blocks - attempt[a].left + 1
             to == IF attempt[a].append THEN Len(s) + 1 ELSE at
             b  == IF to = at THEN version[j] ELSE Garbled
             r  == [attempt[a] EXCEPT !.left = attempt[a].left - 1]
             d  == [disk[j] EXCEPT !.source = FileOf(Put(s, to, b))]
  <2>1. r \in Attempt /\ r.job = j
    <3>1. attempt[a].left \in Nat /\ attempt[a].left > 0
      BY <1>16, <1>2 DEF Attempt, CopyBlock
    <3>2. attempt[a].left - 1 \in Nat
      BY <3>1
    <3> QED
      BY <1>2, <3>2 DEF Attempt
  <2>2. /\ attempt' = [attempt EXCEPT ![a] = r]
        /\ disk' = disk \/ disk' = [disk EXCEPT ![j] = d]
    BY <1>16 DEF CopyBlock
  <2>3. s \in Seq(Versions \cup {Garbled}) /\ b \in Versions \cup {Garbled}
    BY <1>3, <1>7 DEF SourceFile
  <2>4. attempt[a].left \in Nat /\ attempt[a].left > 0
    BY <1>16, <1>2 DEF Attempt, CopyBlock
  <2>5. to \in Int
    BY <2>3, <2>4
  <2> HIDE DEF s, to, b
  <2>6. Put(s, to, b) \in Seq(Versions \cup {Garbled})
    BY <1>7, <2>3, <2>5, PutTyped
  <2>7. d \in Directory
    BY <1>3, <2>6, FilesTyped DEF Directory
  <2> HIDE DEF r, d
  <2> QED
    BY <1>4, <1>6, <2>1, <2>2, <2>7
<1>17. ASSUME CopyFails(a)
       PROVE  Goal
  <2> DEFINE d == [disk[j] EXCEPT !.source = NoFile]
  <2>1. d \in Directory
    BY <1>3, FilesTyped DEF Directory
  <2>2. CASE resume
    <3>1. attempt' = [attempt EXCEPT ![a] = Retried(attempt[a])] /\ disk' = disk
      BY <1>17, <2>2 DEF CopyFails
    <3> QED
      BY <1>2, <1>3, <1>4, <1>6, <3>1
  <2>3. CASE ~ resume
    <3>1. /\ attempt' = Unlink(j, [attempt EXCEPT ![a] = Retried(attempt[a])])
          /\ disk' = [disk EXCEPT ![j] = d]
      BY <1>17, <2>3 DEF CopyFails
    <3> QED
      BY <1>2, <1>5, <1>6, <2>1, <3>1
  <2> QED
    BY <2>2, <2>3
<1>18. ASSUME VerifyChecksum(a)
       PROVE  Goal
  <2> DEFINE fits == checksum => disk[j].source.there /\ OneVersion(disk[j].source.blocks, 1)
             r == [attempt[a] EXCEPT !.phase = IF fits THEN "checked" ELSE "failed",
                                     !.offset = 0, !.append = FALSE, !.linked = FALSE]
  <2>1. attempt' = [attempt EXCEPT ![a] = r] /\ disk' = disk
    BY <1>18 DEF VerifyChecksum
  <2> HIDE DEF fits
  <2>2. r \in Attempt /\ r.job = j
    BY <1>2 DEF Attempt, Phases
  <2> QED
    BY <1>3, <1>4, <1>6, <2>1, <2>2
<1>19. ASSUME StartConversion(a)
       PROVE  Goal
  <2> DEFINE whole == \E v \in Versions : OneVersion(disk[j].source.blocks, v)
             r == [attempt[a] EXCEPT !.phase = "converting", !.whole = whole]
             f == [attempt[a] EXCEPT !.phase = "failed"]
             d == [disk[j] EXCEPT !.made = TRUE, !.output = [by |-> a, whole |-> FALSE]]
             e == [disk[j] EXCEPT !.made = TRUE]
  <2>1. CASE disk[j].source.there
    <3>1. attempt' = [attempt EXCEPT ![a] = r] /\ disk' = [disk EXCEPT ![j] = d]
      BY <1>19, <2>1 DEF StartConversion
    <3>2. whole \in BOOLEAN
      OBVIOUS
    <3> HIDE DEF whole
    <3>3. r \in Attempt /\ r.job = j
      BY <1>2, <3>2 DEF Attempt, Phases
    <3>4. d \in Directory
      BY <1>3, FilesTyped DEF Directory
    <3> QED
      BY <1>4, <1>6, <3>1, <3>3, <3>4
  <2>2. CASE ~ disk[j].source.there
    <3>1. attempt' = [attempt EXCEPT ![a] = f] /\ disk' = [disk EXCEPT ![j] = e]
      BY <1>19, <2>2 DEF StartConversion, Move
    <3>2. f \in Attempt /\ f.job = j
      BY <1>2 DEF Attempt, Phases
    <3>3. e \in Directory
      BY <1>3 DEF Directory, SourceFile, OutputFile
    <3> QED
      BY <1>4, <1>6, <3>1, <3>2, <3>3
  <2> QED
    BY <2>1, <2>2
<1>20. ASSUME EndConversion(a)
       PROVE  Goal
  <2> DEFINE p == IF disk[j].output # NoOutput THEN "uploading" ELSE "failed"
             r == [attempt[a] EXCEPT !.phase = p]
             w == disk[j].output.whole \/ (disk[j].output.by = a /\ attempt[a].whole)
             d == [disk[j] EXCEPT !.output.whole = w]
  <2>1. attempt' = [attempt EXCEPT ![a] = r] /\ disk' = [disk EXCEPT ![j] = d]
    BY <1>20 DEF EndConversion, Move
  <2>2. p \in {"uploading", "failed"} /\ w \in BOOLEAN
    OBVIOUS
  <2> HIDE DEF p, w
  <2>3. r \in Attempt /\ r.job = j
    BY <1>2, <2>2 DEF Attempt, Phases
  <2>4. d \in Directory
    BY <1>3, <2>2 DEF Directory, SourceFile, OutputFile
  <2> QED
    BY <1>4, <1>6, <2>1, <2>3, <2>4
<1>21. ASSUME OpenOutput(a)
       PROVE  Goal
  <2> DEFINE p == IF disk[j].output # NoOutput THEN "sending" ELSE "failed"
             r == [attempt[a] EXCEPT !.phase = p, !.whole = disk[j].output.whole]
  <2>1. attempt' = [attempt EXCEPT ![a] = r] /\ disk' = disk
    BY <1>21 DEF OpenOutput
  <2>2. p \in {"sending", "failed"}
    OBVIOUS
  <2> HIDE DEF p
  <2>3. r \in Attempt /\ r.job = j
    BY <1>2, <1>3, <2>2 DEF Attempt, Phases, OutputFile
  <2> QED
    BY <1>3, <1>4, <1>6, <2>1, <2>3
<1>22. Goal
  BY <1>8, <1>9, <1>10, <1>11, <1>12, <1>13, <1>14, <1>15, <1>16, <1>17, <1>18,
     <1>19, <1>20, <1>21 DEF Continues
<1> QED
  BY <1>1, <1>22 DEF Typed, unpolled, world, behind, fixed

\* The end of an attempt.
LEMMA EndsStep ==
  ASSUME Typed, NEW a \in Attempts, EndUpload(a) \/ EndFailed(a)
  PROVE  Typed' /\ Ends(a)
<1> DEFINE j == attempt[a].job
           AType == [Attempts -> Attempt \cup {Gone("unborn"), Gone("over")}]
           who == [attempt EXCEPT ![a] = Gone("over")]
<1>1. EndAttempt(a) /\ Running(a)
  BY DEF EndUpload, EndFailed, Running, Phases
<1>2. j \in Jobs
  BY <1>1, RunningTyped DEF Attempt
<1>3. who \in AType /\ \A b \in Attempts : who[b] = IF b = a THEN Gone("over") ELSE attempt[b]
  BY DEF Typed
<1>4. /\ attempt' = Unlink(j, who) /\ disk' = [disk EXCEPT ![j] = NoDir]
      /\ leftover' = leftover \ {j} /\ mixed' = mixed \ {j} /\ slots' = slots - 1
      /\ UNCHANGED <<up, poller, version, kills, resume, checksum>>
  BY <1>1 DEF EndAttempt, world, behind, fixed
<1>5. /\ attempt' \in AType
      /\ \A b \in Attempts : attempt'[b].phase = who[b].phase /\ attempt'[b].job = who[b].job
  <2> HIDE DEF who
  <2>1. /\ Unlink(j, who) \in AType
        /\ \A b \in Attempts : /\ Unlink(j, who)[b].phase = who[b].phase
                               /\ Unlink(j, who)[b].job = who[b].job
    BY <1>3, UnlinkTyped
  <2> QED
    BY <1>4, <2>1
<1>6. NoDir \in Directory /\ ~ NoDir.made
  <2>1. NoOutput \in OutputFile
    BY DEF NoOutput, OutputFile
  <2> QED
    BY <2>1, FilesTyped DEF NoDir, Directory
<1>7. Typed'
  BY <1>4, <1>5, <1>6 DEF Typed
<1>8. ~ Running(a)' /\ \A b \in Attempts \ {a} :
        /\ Running(b)' <=> Running(b)
        /\ Running(b) => attempt'[b].job = attempt[b].job
  <2>1. attempt'[a].phase = "over"
    BY <1>3, <1>5 DEF Gone
  <2>2. \A b \in Attempts \ {a} : /\ attempt'[b].phase = attempt[b].phase
                                 /\ attempt'[b].job = attempt[b].job
    BY <1>3, <1>5
  <2> QED
    BY <2>1, <2>2 DEF Running, Phases
<1>9. ~ disk'[j].made /\ \A i \in Jobs : disk'[i].made => disk[i].made
  BY <1>2, <1>4, <1>6 DEF Typed
<1> QED
  BY <1>1, <1>4, <1>7, <1>8, <1>9 DEF Ends

\* The steps of pollers, of the cleanup, of the process and of the master.
LEMMA OtherTypes ==
  ASSUME Typed
  PROVE  /\ \A p \in Pollers : Acquire(p) \/ NotAnswered(p) \/ StopPoller(p) => Typed'
         /\ \A p \in Pollers, j \in Jobs, a \in Attempts : Answered(p, j, a) => Typed'
         /\ \A f \in Files : Evict(f) => Typed' /\ Keeps /\ MakesOwn
         /\ Cancel \/ Exit \/ Kill \/ Restart => Typed'
         /\ \A j \in Jobs : ReplaceSource(j) => Typed'
<1>1. ASSUME NEW p \in Pollers, Acquire(p) \/ NotAnswered(p) \/ StopPoller(p)
      PROVE  Typed'
  BY <1>1 DEF Typed, Acquire, NotAnswered, StopPoller, world, behind, fixed
<1>2. ASSUME NEW p \in Pollers, NEW j \in Jobs, NEW a \in Attempts, Answered(p, j, a)
      PROVE  Typed'
  <2> DEFINE twins == RunningFor(j)
             new == [Gone("stat") EXCEPT !.job = j, !.twin = twins # {} \/ j \in mixed]
             marked(b) == [attempt[b] EXCEPT !.twin = TRUE]
  <2>1. new \in Attempt
    <3>1. ASSUME NEW twin \in BOOLEAN
          PROVE  [Gone("stat") EXCEPT !.job = j, !.twin = twin] \in Attempt
      <4>1. 1 \in 1 .. MaxTries
        OBVIOUS
      <4> QED
        BY <4>1 DEF Gone, Attempt, Phases
    <3>2. (twins # {} \/ j \in mixed) \in BOOLEAN
      OBVIOUS
    <3> QED
      BY <3>1, <3>2
  <2>2. ASSUME NEW b \in twins
        PROVE  marked(b) \in Attempt
    <3>1. attempt[b] \in Attempt
      BY RunningTyped DEF RunningFor
    <3> QED
      BY <3>1 DEF Attempt
  <2>3. /\ attempt' = [b \in Attempts |-> IF b = a THEN new
                                        ELSE IF b \in twins THEN marked(b) ELSE attempt[b]]
        /\ poller' = [poller EXCEPT ![p] = "idle"]
        /\ UNCHANGED <<up, disk, leftover, mixed, version, kills, resume, checksum>>
    BY <1>2 DEF Answered, world, behind, fixed
  <2> HIDE DEF new, marked, twins
  <2> QED
    BY <2>1, <2>2, <2>3 DEF Typed
<1>3. ASSUME NEW f \in Files, Evict(f)
      PROVE  Typed' /\ Keeps /\ MakesOwn
  <2> DEFINE d == IF f[2] = "source" THEN [disk[f[1]] EXCEPT !.source = NoFile]
                                     ELSE [disk[f[1]] EXCEPT !.output = NoOutput]
  <2>1. f[1] \in Jobs /\ disk[f[1]] \in Directory
    BY DEF Files, Typed
  <2>2. d \in Directory /\ d.made = disk[f[1]].made
    <3>1. NoOutput \in OutputFile
      BY DEF NoOutput, OutputFile
    <3> QED
      BY <2>1, <3>1, FilesTyped DEF Directory
  <2>3. disk' = [disk EXCEPT ![f[1]] = d]
    BY <1>3 DEF Evict
  <2>4. disk' \in [Jobs -> Directory] /\ MakesOwn
    <3> HIDE DEF d
    <3>1. disk' \in [Jobs -> Directory]
      BY <2>2, <2>3 DEF Typed
    <3>2. \A i \in Jobs : disk'[i].made = disk[i].made
      BY <2>2, <2>3 DEF Typed
    <3> QED
      BY <3>1, <3>2 DEF MakesOwn
  <2>5. attempt' = attempt \/ attempt' = Unlink(f[1], attempt)
    BY <1>3 DEF Evict
  <2>6. /\ attempt' \in [Attempts -> Attempt \cup {Gone("unborn"), Gone("over")}]
        /\ \A b \in Attempts : /\ attempt'[b].phase = attempt[b].phase
                               /\ attempt'[b].job = attempt[b].job
    <3>1. attempt \in [Attempts -> Attempt \cup {Gone("unborn"), Gone("over")}]
      BY DEF Typed
    <3>2. /\ Unlink(f[1], attempt) \in
                [Attempts -> Attempt \cup {Gone("unborn"), Gone("over")}]
          /\ \A b \in Attempts : /\ Unlink(f[1], attempt)[b].phase = attempt[b].phase
                                 /\ Unlink(f[1], attempt)[b].job = attempt[b].job
      BY <3>1, UnlinkTyped
    <3> QED
      BY <2>5, <3>1, <3>2
  <2>7. Keeps
    BY <2>6 DEF Keeps, Running
  <2> QED
    BY <1>3, <2>4, <2>6, <2>7 DEF Typed, Evict, world, behind, fixed
<1>4. ASSUME Cancel \/ Exit \/ Restart
      PROVE  Typed'
  BY <1>4 DEF Typed, Cancel, Exit, Restart, world, behind, fixed
<1>5. ASSUME Kill
      PROVE  Typed'
  <2>1. attempt' \in [Attempts -> Attempt \cup {Gone("unborn"), Gone("over")}]
    BY <1>5 DEF Typed, Kill
  <2> QED
    BY <1>5, <2>1 DEF Typed, Kill, fixed
<1>6. ASSUME NEW j \in Jobs, ReplaceSource(j)
      PROVE  Typed'
  BY <1>6 DEF Typed, ReplaceSource, Versions, behind, fixed
<1> QED
  BY <1>1, <1>2, <1>3, <1>4, <1>5, <1>6

-----------------------------------------------------------------------------
(* Slots and directories.                                                  *)

\* Who runs, and for which job, when nobody starts or ends.
LEMMA KeepsSets ==
  ASSUME Keeps
  PROVE  RunningAll' = RunningAll /\ \A j \in Jobs : RunningFor(j)' = RunningFor(j)
BY DEF Keeps, RunningAll, RunningFor, Running, Attempts

\* A step that neither starts nor ends an attempt nor touches a slot.
LEMMA QuietStep ==
  ASSUME SlotsAccounted, DirectoriesOwned, Keeps, MakesOwn,
         UNCHANGED <<poller, slots, leftover>>
  PROVE  SlotsAccounted' /\ DirectoriesOwned' /\ Asking' = Asking /\ RunningAll' = RunningAll
<1>1. Asking' = Asking
  BY DEF Asking
<1>2. SlotsAccounted'
  BY <1>1, KeepsSets DEF SlotsAccounted, RunningAll
<1>3. DirectoriesOwned'
  BY KeepsSets DEF DirectoriesOwned, MakesOwn
<1> QED
  BY <1>1, <1>2, <1>3, KeepsSets

\* The table of attempts unchanged.
LEMMA SameAttempts ==
  ASSUME UNCHANGED attempt
  PROVE  Keeps
BY DEF Keeps, Running

\* An attempt that ends gives its slot back; whoever else runs for the job, no
\* directory is left.
LEMMA EndKeeps ==
  ASSUME IInv, NEW a \in Attempts, Ends(a)
  PROVE  SlotsAccounted' /\ AtRest' /\ DirectoriesOwned'
<1>1. RunningAll' = RunningAll \ {a} /\ a \in RunningAll /\ Asking' = Asking
  BY DEF Ends, RunningAll, Attempts, Asking
<1>2. Cardinality(RunningAll') = Cardinality(RunningAll) - 1
  BY <1>1, Finite, OneLess
<1>3. SlotsAccounted'
  BY <1>1, <1>2, Finite, SlotsCounted DEF IInv, Ends
<1>4. AtRest'
  BY <1>1 DEF IInv, AtRest, Ends
<1>5. \A j \in Jobs \ {attempt[a].job} : RunningFor(j) \subseteq RunningFor(j)'
  BY DEF Ends, RunningFor
<1>6. DirectoriesOwned'
  BY <1>5 DEF IInv, DirectoriesOwned, Ends
<1> QED
  BY <1>3, <1>4, <1>6

\* Pollers take a slot, give it back, or pass it on.
LEMMA PollerKeeps ==
  ASSUME IInv, NEW p \in Pollers, PollerStep(p)
  PROVE  SlotsAccounted' /\ AtRest' /\ DirectoriesOwned'
<1>1. poller \in [Pollers -> {"idle", "asking", "stopped"}]
  BY DEF IInv, Typed
<1>2. ASSUME Acquire(p)
      PROVE  SlotsAccounted' /\ AtRest' /\ DirectoriesOwned'
  <2>1. Asking' = Asking \cup {p} /\ p \notin Asking
    BY <1>1, <1>2 DEF Acquire, Asking
  <2>2. Cardinality(Asking') = Cardinality(Asking) + 1
    BY <2>1, Finite, OneMore
  <2>3. Keeps /\ MakesOwn
    BY <1>2, SameAttempts DEF Acquire, MakesOwn
  <2>4. SlotsAccounted'
    BY <1>2, <2>2, <2>3, Finite, KeepsSets, SlotsCounted DEF IInv, Acquire
  <2>5. DirectoriesOwned'
    BY <1>2, <2>3, KeepsSets DEF IInv, DirectoriesOwned, MakesOwn, Acquire, behind
  <2> QED
    BY <1>2, <2>4, <2>5 DEF AtRest, Acquire
<1>3. ASSUME NotAnswered(p) \/ (StopPoller(p) /\ poller[p] = "asking")
      PROVE  SlotsAccounted' /\ AtRest' /\ DirectoriesOwned'
  <2>1. Asking' = Asking \ {p} /\ p \in Asking /\ slots' = slots - 1
    BY <1>1, <1>3 DEF NotAnswered, StopPoller, Asking
  <2>2. Cardinality(Asking') = Cardinality(Asking) - 1
    BY <2>1, Finite, OneLess
  <2>3. Keeps /\ MakesOwn /\ UNCHANGED <<up, leftover>>
    BY <1>3, SameAttempts DEF NotAnswered, StopPoller, MakesOwn, behind
  <2>4. SlotsAccounted'
    BY <2>1, <2>2, <2>3, Finite, KeepsSets, SlotsCounted DEF IInv
  <2>5. DirectoriesOwned'
    BY <2>3, KeepsSets DEF IInv, DirectoriesOwned, MakesOwn
  <2>6. AtRest'
    BY <2>1, <2>3, KeepsSets DEF IInv, AtRest
  <2> QED
    BY <2>4, <2>5, <2>6
<1>4. ASSUME StopPoller(p), poller[p] # "asking"
      PROVE  SlotsAccounted' /\ AtRest' /\ DirectoriesOwned'
  <2>1. Asking' = Asking /\ slots' = slots
    BY <1>1, <1>4 DEF StopPoller, Asking
  <2>2. Keeps /\ MakesOwn /\ UNCHANGED <<up, leftover>>
    BY <1>4, SameAttempts DEF StopPoller, MakesOwn, behind
  <2>3. SlotsAccounted'
    BY <2>1, <2>2, KeepsSets, SlotsCounted DEF IInv
  <2>4. DirectoriesOwned'
    BY <2>2, KeepsSets DEF IInv, DirectoriesOwned, MakesOwn
  <2>5. AtRest'
    BY <2>1, <2>2, KeepsSets DEF IInv, AtRest
  <2> QED
    BY <2>3, <2>4, <2>5
<1>5. ASSUME NEW j \in Jobs, NEW a \in Attempts, Answered(p, j, a)
      PROVE  SlotsAccounted' /\ AtRest' /\ DirectoriesOwned'
  <2>1. Asking' = Asking \ {p} /\ p \in Asking
    BY <1>1, <1>5 DEF Answered, Asking
  <2>2. ~ Running(a) /\ Running(a)'
    BY <1>5 DEF Answered, Running, Phases, Gone
  <2>3. \A b \in Attempts \ {a} : /\ attempt'[b].phase = attempt[b].phase
                                 /\ attempt'[b].job = attempt[b].job
    <3>1. ASSUME NEW b \in Attempts \ {a}
          PROVE  attempt'[b] = attempt[b] \/ attempt'[b] = [attempt[b] EXCEPT !.twin = TRUE]
      BY <1>5 DEF Answered
    <3>2. ASSUME NEW b \in Attempts
          PROVE  LET r == [attempt[b] EXCEPT !.twin = TRUE]
                 IN r.phase = attempt[b].phase /\ r.job = attempt[b].job
      <4>1. attempt[b] \in Attempt \/ attempt[b] = Gone("unborn") \/ attempt[b] = Gone("over")
        BY DEF IInv, Typed
      <4> QED
        BY <4>1 DEF Attempt, Gone
    <3> QED
      BY <3>1, <3>2
  <2>4. RunningAll' = RunningAll \cup {a} /\ a \notin RunningAll
    BY <2>2, <2>3 DEF RunningAll, Running, Attempts
  <2>5. \A i \in Jobs : RunningFor(i) \subseteq RunningFor(i)'
    BY <2>2, <2>3 DEF RunningFor, Running
  <2>6. /\ Cardinality(Asking') = Cardinality(Asking) - 1
        /\ Cardinality(RunningAll') = Cardinality(RunningAll) + 1
    BY <2>1, <2>4, Finite, OneLess, OneMore
  <2>7. SlotsAccounted'
    <3>1. slots' = slots /\ SlotsAccounted
      BY <1>5 DEF IInv, Answered
    <3>2. Cardinality(Asking) \in Nat /\ Cardinality(RunningAll) \in Nat
      BY Finite
    <3> QED
      BY <2>6, <3>1, <3>2, SlotsCounted
  <2>8. DirectoriesOwned'
    BY <1>5, <2>5 DEF IInv, DirectoriesOwned, Answered, behind
  <2>9. AtRest'
    BY <1>5, <2>1 DEF IInv, AtRest, Answered
  <2> QED
    BY <2>7, <2>8, <2>9
<1> QED
  BY <1>2, <1>3, <1>4, <1>5 DEF PollerStep

\* Start and end of the process.
LEMMA ProcessKeeps ==
  ASSUME IInv, Cancel \/ Exit \/ Kill \/ Restart
  PROVE  SlotsAccounted' /\ AtRest' /\ DirectoriesOwned'
<1>1. CASE Cancel
  <2>1. Keeps /\ MakesOwn /\ UNCHANGED <<poller, slots, leftover>>
    BY <1>1, SameAttempts DEF Cancel, MakesOwn, behind
  <2> QED
    BY <1>1, <2>1, QuietStep DEF IInv, AtRest, Cancel
<1>2. CASE Exit
  <2>1. Keeps /\ MakesOwn /\ UNCHANGED <<poller, slots, leftover>>
    BY <1>2, SameAttempts DEF Exit, MakesOwn, behind
  <2>2. Asking = {} /\ RunningAll = {}
    BY <1>2 DEF Exit, Asking, RunningAll
  <2> QED
    BY <2>1, <2>2, QuietStep DEF IInv, AtRest
<1>3. CASE Kill
  <2>1. Asking' = {}
    BY <1>3 DEF Kill, Asking
  <2>2. RunningAll' = {}
    <3>1. \A a \in Attempts : attempt'[a] = IF Running(a) THEN Gone("over") ELSE attempt[a]
      BY <1>3 DEF Kill
    <3>2. \A a \in Attempts : ~ Running(a)'
      BY <3>1 DEF Running, Gone, Phases
    <3> QED
      BY <3>2 DEF RunningAll, Attempts
  <2>3. SlotsAccounted'
    BY <1>3, <2>1, <2>2, Finite, FS_EmptySet, SlotsCounted DEF Kill
  <2>4. DirectoriesOwned'
    BY <1>3 DEF Kill, DirectoriesOwned
  <2> QED
    BY <2>1, <2>2, <2>3, <2>4 DEF AtRest
<1>4. CASE Restart
  <2>1. Keeps /\ MakesOwn
    BY <1>4, SameAttempts DEF Restart, MakesOwn
  <2>2. Asking = {} /\ Asking' = {}
    BY <1>4 DEF IInv, AtRest, Restart, Asking
  <2>3. SlotsAccounted'
    BY <1>4, <2>1, <2>2, KeepsSets DEF IInv, SlotsAccounted, RunningAll, Restart
  <2>4. DirectoriesOwned'
    BY <1>4, <2>1, KeepsSets DEF IInv, DirectoriesOwned, MakesOwn, Restart, behind
  <2> QED
    BY <1>4, <2>3, <2>4 DEF AtRest, Restart
<1> QED
  BY <1>1, <1>2, <1>3, <1>4

-----------------------------------------------------------------------------
(* What is converted and uploaded.                                         *)

\* A job without a checksum whose source was replaced.
Excused(j) == ~ checksum /\ version[j] > 1

\* No twins have been at work in the directory of the job.
Pure(j) == j \notin mixed /\ \A b \in RunningFor(j) : ~ attempt[b].twin

Ones(s) == \A i \in 1 .. Len(s) : s[i] = 1

\* Who is no twin runs alone, in a directory that twins have not been in.
Lonely ==
  \A a \in Attempts : Running(a) /\ ~ attempt[a].twin =>
    RunningFor(attempt[a].job) = {a} /\ attempt[a].job \notin mixed

\* What the attempt a, running alone, knows of the files: where its request or
\* its copy goes on is the end of the partial file, unless the cleanup has
\* deleted that; what it has checked is whole; and the output is its own.
Progress(a) ==
  LET r == attempt[a]
      source == disk[r.job].source
      output == disk[r.job].output
  IN /\ r.phase = "asked" /\ source.there /\ r.offset # 0 =>
          r.offset = Len(source.blocks)
     /\ r.phase = "copying" =>
          /\ r.linked = source.there
          /\ source.there => Len(source.blocks) + r.left = Blocks
     /\ r.phase = "checked" /\ source.there =>
          OneVersion(source.blocks, 1) \/ Excused(r.job)
     /\ r.phase = "converting" =>
          /\ r.whole \/ Excused(r.job)
          /\ output \in {NoOutput, [by |-> a, whole |-> FALSE]}
     /\ r.phase = "uploading" =>
          output = NoOutput \/ output.whole \/ Excused(r.job)
     /\ r.phase = "sending" => r.whole \/ Excused(r.job)

Progresses == \A a \in Attempts : Running(a) /\ ~ attempt[a].twin => Progress(a)

\* Without a checksum the blocks are right from the beginning.
BlocksRight ==
  \A j \in Jobs : Pure(j) /\ ~ checksum /\ version[j] = 1 => Ones(disk[j].source.blocks)

WholeFiles == Lonely /\ Progresses /\ BlocksRight

\* A file of as many ones as there are blocks.
LEMMA OnesAreOneVersion ==
  ASSUME NEW s \in Seq(Versions \cup {Garbled}), Ones(s), Len(s) = Blocks
  PROVE  OneVersion(s, 1)
<1>1. s \in [1 .. Blocks -> Versions \cup {Garbled}]
  OBVIOUS
<1>2. \A i \in 1 .. Blocks : s[i] = 1
  BY DEF Ones
<1> QED
  BY <1>1, <1>2 DEF OneVersion

\* A block put at the end.
LEMMA PutAtEnd ==
  ASSUME NEW s \in Seq(Versions \cup {Garbled}), NEW b
  PROVE  /\ Len(Put(s, Len(s) + 1, b)) = Len(s) + 1
         /\ Ones(s) /\ b = 1 => Ones(Put(s, Len(s) + 1, b))
<1>1. Len(s) \in Nat
  OBVIOUS
<1>2. Put(s, Len(s) + 1, b) = [k \in 1 .. Len(s) + 1 |->
          IF k = Len(s) + 1 THEN b ELSE IF k <= Len(s) THEN s[k] ELSE Garbled]
  BY <1>1 DEF Put
<1>3. Len(Put(s, Len(s) + 1, b)) = Len(s) + 1
  BY <1>1, <1>2
<1>4. ASSUME Ones(s), b = 1
      PROVE  Ones(Put(s, Len(s) + 1, b))
  BY <1>1, <1>2, <1>3, <1>4 DEF Ones
<1> QED
  BY <1>3, <1>4

\* A file without blocks.
LEMMA EmptyOnes == Ones(<<>>) /\ Len(<<>>) = 0
BY DEF Ones

\* Typed, in the parts of one running attempt.
LEMMA RunningParts ==
  ASSUME Typed, NEW a \in Attempts, Running(a)
  PROVE  /\ attempt[a] \in Attempt /\ attempt[a].job \in Jobs
         /\ disk[attempt[a].job] \in Directory
         /\ disk[attempt[a].job].source \in SourceFile
         /\ disk[attempt[a].job].source.blocks \in Seq(Versions \cup {Garbled})
         /\ Len(disk[attempt[a].job].source.blocks) \in Nat
         /\ a \in RunningFor(attempt[a].job)
<1>1. \A s \in Seq(Versions \cup {Garbled}) : Len(s) \in Nat
  OBVIOUS
<1>2. disk[attempt[a].job].source.blocks \in Seq(Versions \cup {Garbled})
  BY RunningTyped DEF Attempt, Typed, Directory, SourceFile
<1>3. Len(disk[attempt[a].job].source.blocks) \in Nat
  BY <1>1, <1>2, Zenon
<1>4. /\ attempt[a] \in Attempt /\ attempt[a].job \in Jobs
      /\ disk[attempt[a].job] \in Directory
      /\ disk[attempt[a].job].source \in SourceFile
      /\ a \in RunningFor(attempt[a].job)
  BY RunningTyped DEF Attempt, Typed, Directory, RunningFor
<1> QED
  BY <1>2, <1>3, <1>4, Zenon

\* A step of attempt a that concerns only its job and the directory of that.
Local(a) ==
  /\ \A b \in Attempts \ {a} :
       \/ attempt'[b] = attempt[b]
       \/ attempt[b].job = attempt[a].job /\ attempt'[b].twin = attempt[b].twin
  /\ \A i \in Jobs \ {attempt[a].job} : disk'[i] = disk[i]
  /\ UNCHANGED <<version, resume, checksum, mixed>>

\* With such a step, what one attempt knows is left to be shown of a alone, and
\* of its source.
LEMMA LocalKeeps ==
  ASSUME Typed, WholeFiles, NEW a \in Attempts, Running(a), Keeps, Local(a),
         attempt'[a].twin = attempt[a].twin,
         ~ attempt[a].twin => Progress(a)',
         Pure(attempt[a].job) /\ ~ checksum /\ version[attempt[a].job] = 1 =>
           Ones(disk'[attempt[a].job].source.blocks)
  PROVE  WholeFiles'
<1> DEFINE j == attempt[a].job
<1>0. j \in Jobs /\ a \in RunningFor(j)
  BY RunningParts
<1>1. \A b \in Attempts : /\ Running(b)' <=> Running(b)
                          /\ Running(b) => attempt'[b].job = attempt[b].job
                          /\ attempt'[b].twin = attempt[b].twin
  BY DEF Keeps, Local
<1>2. \A i \in Jobs : RunningFor(i)' = RunningFor(i)
  BY KeepsSets
<1>3. \A i \in Jobs : Pure(i)' <=> Pure(i)
  <2>1. \A i \in Jobs : RunningFor(i) \subseteq Attempts
    BY DEF RunningFor
  <2> QED
    BY <1>1, <1>2, <2>1 DEF Pure, Local
<1>4. Lonely'
  <2> SUFFICES ASSUME NEW b \in Attempts, Running(b)', ~ attempt'[b].twin
               PROVE  (RunningFor(attempt[b].job) = {b} /\ attempt[b].job \notin mixed)'
    BY DEF Lonely
  <2>1. Running(b) /\ ~ attempt[b].twin /\ attempt'[b].job = attempt[b].job
    BY <1>1
  <2>2. RunningFor(attempt[b].job) = {b} /\ attempt[b].job \notin mixed
    BY <2>1 DEF WholeFiles, Lonely
  <2> QED
    BY <1>1, <2>1, <2>2 DEF RunningFor, Local
<1>5. Progresses'
  <2> SUFFICES ASSUME NEW b \in Attempts, Running(b)', ~ attempt'[b].twin
               PROVE  Progress(b)'
    BY DEF Progresses
  <2>1. Running(b) /\ ~ attempt[b].twin /\ attempt'[b].job = attempt[b].job
    BY <1>1
  <2>2. CASE b = a
    BY <2>1, <2>2
  <2>3. CASE b # a
    <3>1. attempt[b].job \in Jobs \ {j}
      <4>1. attempt[b].job \in Jobs
        BY <2>1, RunningParts
      <4>2. RunningFor(attempt[b].job) = {b}
        BY <2>1 DEF WholeFiles, Lonely
      <4> QED
        BY <1>0, <2>3, <4>1, <4>2
    <3>2. attempt'[b] = attempt[b] /\ disk'[attempt[b].job] = disk[attempt[b].job]
      BY <2>3, <3>1 DEF Local
    <3>3. Progress(b)
      BY <2>1 DEF WholeFiles, Progresses
    <3> QED
      BY <3>2, <3>3 DEF Progress, Excused, Local
  <2> QED
    BY <2>2, <2>3
<1>6. BlocksRight'
  BY <1>0, <1>3 DEF WholeFiles, BlocksRight, Local
<1> QED
  BY <1>4, <1>5, <1>6 DEF WholeFiles

\* What Retried leaves of an attempt.
LEMMA RetriedPhase ==
  ASSUME NEW r \in Attempt
  PROVE  /\ Retried(r).phase \in {"stat", "failed"}
         /\ Retried(r).twin = r.twin /\ Retried(r).job = r.job
         /\ [Retried(r) EXCEPT !.linked = FALSE].phase \in {"stat", "failed"}
         /\ [Retried(r) EXCEPT !.linked = FALSE].twin = r.twin
         /\ [Retried(r) EXCEPT !.linked = FALSE].job = r.job
<1> DEFINE idle == [r EXCEPT !.offset = 0, !.left = 0, !.append = FALSE,
                             !.linked = FALSE]
<1>1. idle \in [phase : Phases, job : Jobs, try : 1 .. MaxTries, offset : Nat,
                left : Nat, append : BOOLEAN, linked : BOOLEAN, twin : {r.twin},
                whole : BOOLEAN] /\ idle.job = r.job
  BY DEF Attempt
<1> HIDE DEF idle
<1>2. \/ Retried(r) = [idle EXCEPT !.phase = "stat", !.try = @ + 1]
      \/ Retried(r) = [idle EXCEPT !.phase = "failed"]
  BY DEF Retried, idle
<1>3. CASE Retried(r) = [idle EXCEPT !.phase = "stat", !.try = @ + 1]
  BY <1>1, <1>3
<1>4. CASE Retried(r) = [idle EXCEPT !.phase = "failed"]
  BY <1>1, <1>4
<1> QED
  BY <1>2, <1>3, <1>4

\* What Unlink leaves of the others.
LEMMA UnlinkOthers ==
  ASSUME Typed, NEW j, NEW b \in Attempts, NEW who, who[b] = attempt[b]
  PROVE  \/ Unlink(j, who)[b] = attempt[b]
         \/ attempt[b].job = j /\ Unlink(j, who)[b].twin = attempt[b].twin
<1>1. Unlink(j, who)[b] = IF attempt[b].job = j
                            THEN [attempt[b] EXCEPT !.linked = FALSE] ELSE attempt[b]
  BY DEF Unlink
<1>2. [attempt[b] EXCEPT !.linked = FALSE].twin = attempt[b].twin
  <2>1. \/ attempt[b] \in Attempt
        \/ attempt[b] = Gone("unborn")
        \/ attempt[b] = Gone("over")
    BY DEF Typed
  <2> QED
    BY <2>1 DEF Attempt, Gone
<1> QED
  BY <1>1, <1>2

\* What a step of attempt a that does not end it must show.
Advances(a) ==
  LET j == attempt[a].job IN
  /\ Local(a) /\ attempt'[a].twin = attempt[a].twin
  /\ ~ attempt[a].twin => Progress(a)'
  /\ Pure(j) /\ ~ checksum /\ version[j] = 1 => Ones(disk'[j].source.blocks)

\* A step that changes the record of attempt a, and its directory or nothing.
LEMMA Replaced ==
  ASSUME Typed, NEW a \in Attempts, Running(a), NEW r, NEW d,
         attempt' = [attempt EXCEPT ![a] = r],
         disk' = [disk EXCEPT ![attempt[a].job] = d],
         UNCHANGED unpolled
  PROVE  Local(a) /\ attempt'[a] = r /\ disk'[attempt[a].job] = d
<1> DEFINE j == attempt[a].job
<1>1. j \in Jobs
  BY RunningParts
<1>2. \A b \in Attempts \ {a} : attempt'[b] = attempt[b]
  BY DEF Typed
<1>3. \A i \in Jobs \ {j} : disk'[i] = disk[i]
  BY DEF Typed
<1>4. UNCHANGED <<version, resume, checksum, mixed>>
  BY DEF unpolled, behind, world, fixed
<1> QED
  BY <1>1, <1>2, <1>3, <1>4 DEF Local, Typed

\* The same when the file is deleted under those who have it open.
LEMMA ReplacedUnlinked ==
  ASSUME Typed, NEW a \in Attempts, Running(a), NEW r, NEW d,
         attempt' = Unlink(attempt[a].job, [attempt EXCEPT ![a] = r]),
         disk' = [disk EXCEPT ![attempt[a].job] = d],
         UNCHANGED unpolled
  PROVE  /\ Local(a) /\ attempt'[a] = [r EXCEPT !.linked = FALSE]
         /\ disk'[attempt[a].job] = d
<1> DEFINE j == attempt[a].job
           who == [attempt EXCEPT ![a] = r]
<1>1. j \in Jobs
  BY RunningParts
<1>2. who[a] = r /\ \A b \in Attempts \ {a} : who[b] = attempt[b]
  BY DEF Typed
<1>3. attempt' = Unlink(j, who)
  OBVIOUS
<1> HIDE DEF who
<1>4. \A b \in Attempts \ {a} :
        \/ attempt'[b] = attempt[b]
        \/ attempt[b].job = j /\ attempt'[b].twin = attempt[b].twin
  BY <1>2, <1>3, UnlinkOthers
<1>5. attempt'[a] = [r EXCEPT !.linked = FALSE]
  BY <1>2, <1>3 DEF Unlink
<1>6. (\A i \in Jobs \ {j} : disk'[i] = disk[i]) /\ disk'[j] = d
  BY <1>1 DEF Typed
<1>7. UNCHANGED <<version, resume, checksum, mixed>>
  BY DEF unpolled, behind, world, fixed
<1> QED
  BY <1>4, <1>5, <1>6, <1>7 DEF Local

\* Nothing is known of an attempt that starts over or fails.
LEMMA NothingKnown ==
  ASSUME NEW a, attempt'[a].phase \in {"stat", "failed"}
  PROVE  Progress(a)'
BY DEF Progress

\* Who is no twin can count on the blocks.
LEMMA AloneIsPure ==
  ASSUME WholeFiles, NEW a \in Attempts, Running(a), ~ attempt[a].twin
  PROVE  /\ Progress(a) /\ Pure(attempt[a].job)
         /\ RunningFor(attempt[a].job) = {a} /\ attempt[a].job \notin mixed
BY DEF WholeFiles, Lonely, Progresses, Pure

\* The source is not touched.
LEMMA SameSource ==
  ASSUME Typed, WholeFiles, NEW a \in Attempts, Running(a),
         disk'[attempt[a].job].source = disk[attempt[a].job].source
  PROVE  Pure(attempt[a].job) /\ ~ checksum /\ version[attempt[a].job] = 1 =>
           Ones(disk'[attempt[a].job].source.blocks)
BY RunningParts DEF WholeFiles, BlocksRight

\* An attempt that starts over or fails without touching the disk.
LEMMA GivesUp ==
  ASSUME Typed, WholeFiles, NEW a \in Attempts, Running(a), NEW r,
         attempt' = [attempt EXCEPT ![a] = r], UNCHANGED <<disk, unpolled>>,
         r.phase \in {"stat", "failed"}, r.twin = attempt[a].twin
  PROVE  Advances(a)
<1> DEFINE j == attempt[a].job
<1>1. disk' = [disk EXCEPT ![j] = disk[j]] /\ UNCHANGED unpolled
  BY DEF Typed
<1>2. Local(a) /\ attempt'[a] = r /\ disk'[j] = disk[j]
  BY <1>1, Replaced
<1> QED
  BY <1>2, NothingKnown, SameSource DEF Advances

\* One that starts over without its file.
LEMMA GivesUpFile ==
  ASSUME Typed, WholeFiles, NEW a \in Attempts, Running(a),
         attempt' = Unlink(attempt[a].job, [attempt EXCEPT ![a] = Retried(attempt[a])]),
         disk' = [disk EXCEPT ![attempt[a].job].source = NoFile],
         UNCHANGED unpolled
  PROVE  Advances(a)
<1> DEFINE j == attempt[a].job
           d == [disk[j] EXCEPT !.source = NoFile]
<1>1. d.source.blocks = <<>>
  BY RunningParts DEF NoFile, Directory
<1>2. disk' = [disk EXCEPT ![j] = d]
  OBVIOUS
<1> HIDE DEF d
<1>3. /\ Local(a) /\ attempt'[a] = [Retried(attempt[a]) EXCEPT !.linked = FALSE]
      /\ disk'[j] = d
  BY <1>2, ReplacedUnlinked, ZenonT(60)
<1>4. attempt'[a].phase \in {"stat", "failed"} /\ attempt'[a].twin = attempt[a].twin
  <2>1. attempt[a] \in Attempt
    BY RunningParts
  <2> QED
    BY <1>3, <2>1, RetriedPhase
<1>5. disk'[j].source.blocks = <<>>
  BY <1>1, <1>3
<1>6. Ones(disk'[j].source.blocks)
  BY <1>5, EmptyOnes
<1>7. Progress(a)'
  BY <1>4 DEF Progress
<1> QED
  BY <1>3, <1>4, <1>6, <1>7 DEF Advances

\* Every way of failing.
LEMMA FailsAdvances ==
  ASSUME Typed, WholeFiles, NEW a \in Attempts,
         \/ RequestFails(a) \/ RequestRefused(a) \/ RangeRefused(a)
         \/ CopyFails(a) \/ ConversionFails(a) \/ UploadFails(a)
  PROVE  Advances(a)
<1> DEFINE failed == [attempt[a] EXCEPT !.phase = "failed"]
<1>1. Running(a) /\ UNCHANGED unpolled
  BY DEF Running, Phases, RequestFails, RequestRefused, RangeRefused, CopyFails,
         ConversionFails, UploadFails
<1>2. /\ failed.phase = "failed" /\ failed.twin = attempt[a].twin
      /\ Retried(attempt[a]).phase \in {"stat", "failed"}
      /\ Retried(attempt[a]).twin = attempt[a].twin
  BY <1>1, RunningParts, RetriedPhase DEF Attempt
<1> HIDE DEF failed
<1>3. CASE RangeRefused(a) \/ (CopyFails(a) /\ ~ resume)
  BY <1>1, <1>3, GivesUpFile DEF RangeRefused, CopyFails
<1>4. CASE RequestFails(a) \/ (CopyFails(a) /\ resume)
  BY <1>1, <1>2, <1>4, GivesUp DEF RequestFails, CopyFails
<1>5. CASE RequestRefused(a) \/ ConversionFails(a) \/ UploadFails(a)
  <2>1. attempt' = [attempt EXCEPT ![a] = failed] /\ UNCHANGED disk
    BY <1>5 DEF RequestRefused, ConversionFails, UploadFails, Move, failed
  <2> QED
    BY <1>1, <1>2, <2>1, GivesUp
<1> QED
  BY <1>3, <1>4, <1>5

\* The offset is the length of the file.
LEMMA StatAdvances ==
  ASSUME Typed, WholeFiles, NEW a \in Attempts, StatPartial(a)
  PROVE  Advances(a)
<1> DEFINE j == attempt[a].job
           off == IF resume THEN Len(disk[j].source.blocks) ELSE 0
           r == [attempt[a] EXCEPT !.phase = "asked", !.offset = off]
           d == [disk[j] EXCEPT !.made = TRUE]
<1>1. Running(a) /\ UNCHANGED unpolled
  BY DEF Running, Phases, StatPartial
<1>2. /\ attempt' = [attempt EXCEPT ![a] = r] /\ disk' = [disk EXCEPT ![j] = d]
  BY DEF StatPartial, MakeDir
<1>3. /\ r.phase = "asked" /\ r.offset = off /\ r.twin = attempt[a].twin /\ r.job = j
      /\ d.source = disk[j].source
  BY <1>1, RunningParts DEF Attempt, Directory
<1> HIDE DEF r, d
<1>4. Local(a) /\ attempt'[a] = r /\ disk'[j] = d
  BY <1>1, <1>2, Replaced
<1>5. Progress(a)'
  BY <1>3, <1>4 DEF Progress
<1> QED
  BY <1>1, <1>3, <1>4, <1>5, SameSource DEF Advances

\* The whole file is on its way, and nothing of it is there yet.
LEMMA FullAdvances ==
  ASSUME Typed, WholeFiles, NEW a \in Attempts, FullAnswer(a)
  PROVE  Advances(a)
<1> DEFINE j == attempt[a].job
           r == [attempt[a] EXCEPT !.phase = "copying", !.left = Remaining(0),
                                   !.append = FALSE, !.linked = TRUE]
           d == [disk[j] EXCEPT !.source = FileOf(<<>>)]
<1>1. Running(a) /\ UNCHANGED unpolled
  BY DEF Running, Phases, FullAnswer
<1>2. CASE disk[j].made
  <2>1. /\ attempt' = [attempt EXCEPT ![a] = r] /\ disk' = [disk EXCEPT ![j] = d]
    BY <1>2 DEF FullAnswer
  <2>2. /\ r.phase = "copying" /\ r.left = Blocks /\ r.linked = TRUE
        /\ r.twin = attempt[a].twin /\ r.job = j
    BY <1>1, RunningParts DEF Attempt, Remaining
  <2>3. d.source.there = TRUE /\ d.source.blocks = <<>>
    BY <1>1, RunningParts DEF Directory, FileOf
  <2> HIDE DEF r, d
  <2>4. Local(a) /\ attempt'[a] = r /\ disk'[j] = d
    BY <1>1, <2>1, Replaced
  <2>5. Progress(a)'
    <3>1. disk'[j].source.there = TRUE /\ disk'[j].source.blocks = <<>>
      BY <2>3, <2>4
    <3>2. Len(disk'[j].source.blocks) + attempt'[a].left = Blocks
      BY <2>2, <2>4, <3>1, EmptyOnes
    <3> QED
      BY <2>2, <2>4, <3>1, <3>2 DEF Progress
  <2>6. Ones(disk'[j].source.blocks)
    BY <2>3, <2>4, EmptyOnes
  <2> QED
    BY <2>2, <2>4, <2>5, <2>6 DEF Advances
<1>3. CASE ~ disk[j].made
  <2>1. /\ attempt' = [attempt EXCEPT ![a] = Retried(attempt[a])] /\ UNCHANGED disk
    BY <1>3 DEF FullAnswer
  <2>2. /\ Retried(attempt[a]).phase \in {"stat", "failed"}
        /\ Retried(attempt[a]).twin = attempt[a].twin
    BY <1>1, RunningParts, RetriedPhase
  <2> QED
    BY <1>1, <2>1, <2>2, GivesUp
<1> QED
  BY <1>2, <1>3

\* The rest is on its way: what there is and what is to come are the whole file.
LEMMA PartialAdvances ==
  ASSUME Typed, WholeFiles, NEW a \in Attempts, PartialAnswer(a)
  PROVE  Advances(a)
<1> DEFINE j == attempt[a].job
           r == [attempt[a] EXCEPT !.phase = "copying",
                                   !.left = Remaining(attempt[a].offset),
                                   !.append = TRUE, !.linked = TRUE]
<1>1. Running(a) /\ UNCHANGED <<disk, unpolled>> /\ attempt[a].phase = "asked"
  BY DEF Running, Phases, PartialAnswer
<1>2. CASE disk[j].source.there
  <2>1. attempt' = [attempt EXCEPT ![a] = r]
    BY <1>2 DEF PartialAnswer
  <2>2. /\ r.phase = "copying" /\ r.left = Blocks - attempt[a].offset
        /\ r.linked = TRUE /\ r.twin = attempt[a].twin /\ r.job = j
    BY <1>1, RunningParts DEF Attempt, Remaining
  <2>3. disk' = [disk EXCEPT ![j] = disk[j]] /\ UNCHANGED unpolled
    BY <1>1 DEF Typed
  <2> HIDE DEF r
  <2>4. Local(a) /\ attempt'[a] = r /\ disk'[j] = disk[j]
    BY <1>1, <2>1, <2>3, Replaced
  <2>5. attempt[a].offset # 0 /\ attempt[a].offset \in Nat
    BY <1>1, RunningParts DEF PartialAnswer, Unranged, Attempt
  <2>6. ASSUME ~ attempt[a].twin
        PROVE  Progress(a)'
    <3>1. attempt[a].offset = Len(disk[j].source.blocks)
      BY <1>1, <1>2, <2>5, <2>6, AloneIsPure DEF Progress
    <3>2. Len(disk'[j].source.blocks) + attempt'[a].left = Blocks
      BY <2>2, <2>4, <2>5, <3>1
    <3> QED
      BY <1>2, <2>2, <2>4, <3>2 DEF Progress
  <2> QED
    BY <1>1, <2>2, <2>4, <2>6, SameSource DEF Advances
<1>3. CASE ~ disk[j].source.there
  <2>1. attempt' = [attempt EXCEPT ![a] = Retried(attempt[a])]
    BY <1>3 DEF PartialAnswer
  <2>2. /\ Retried(attempt[a]).phase \in {"stat", "failed"}
        /\ Retried(attempt[a]).twin = attempt[a].twin
    BY <1>1, RunningParts, RetriedPhase
  <2> QED
    BY <1>1, <2>1, <2>2, GivesUp
<1> QED
  BY <1>2, <1>3

\* A block at the end: in a file that still has its name, the writer's position
\* is where the file ends.
LEMMA CopyAdvances ==
  ASSUME Typed, WholeFiles, NEW a \in Attempts, CopyBlock(a)
  PROVE  Advances(a)
<1> DEFINE j  == attempt[a].job
           s  == disk[j].source.blocks
           at == Blocks - attempt[a].left + 1
           to == IF attempt[a].append THEN Len(s) + 1 ELSE at
           b  == IF to = at THEN version[j] ELSE Garbled
           r  == [attempt[a] EXCEPT !.left = attempt[a].left - 1]
           d  == IF attempt[a].linked
                   THEN [disk[j] EXCEPT !.source = FileOf(Put(s, to, b))] ELSE disk[j]
<1>1. Running(a) /\ UNCHANGED unpolled
  BY DEF Running, Phases, CopyBlock
<1>2. attempt[a].phase = "copying" /\ j \in Jobs /\ s \in Seq(Versions \cup {Garbled})
  BY <1>1, RunningParts DEF CopyBlock
<1>left. attempt[a].left \in Nat /\ attempt[a].left > 0
  BY <1>1, RunningParts DEF CopyBlock, Attempt
<1>linked. attempt[a].linked \in BOOLEAN /\ disk[j].source.there \in BOOLEAN
  BY <1>1, RunningParts DEF Attempt, SourceFile
<1>length. Len(s) \in Nat
  BY <1>1, RunningParts, ZenonT(60)
<1>3. /\ attempt' = [attempt EXCEPT ![a] = r] /\ disk' = [disk EXCEPT ![j] = d]
  <2>1. attempt' = [attempt EXCEPT ![a] = r]
    BY DEF CopyBlock
  <2>2. CASE attempt[a].linked
    BY <2>2 DEF CopyBlock
  <2>3. CASE ~ attempt[a].linked
    BY <2>3 DEF CopyBlock, Typed
  <2> QED
    BY <2>1, <2>2, <2>3
<1>4. /\ r.phase = "copying" /\ r.left = attempt[a].left - 1
      /\ r.linked = attempt[a].linked /\ r.twin = attempt[a].twin /\ r.job = j
  BY <1>1, <1>2, RunningParts DEF Attempt
<1>5. /\ attempt[a].linked => d.source.there = TRUE /\ d.source.blocks = Put(s, to, b)
      /\ ~ attempt[a].linked => d = disk[j]
  BY <1>1, RunningParts DEF Directory, FileOf
<1> HIDE DEF r, d
<1>6. Local(a) /\ attempt'[a] = r /\ disk'[j] = d
  BY <1>1, <1>3, Replaced
<1>7. ASSUME ~ attempt[a].twin
      PROVE  /\ disk[j].source.there = attempt[a].linked
             /\ attempt[a].linked =>
                  Len(s) + attempt[a].left = Blocks /\ to = Len(s) + 1 /\ b = version[j]
  <2>1. /\ attempt[a].linked = disk[j].source.there
        /\ disk[j].source.there => Len(s) + attempt[a].left = Blocks
    BY <1>1, <1>2, <1>7, AloneIsPure DEF Progress
  <2>3. CASE ~ attempt[a].linked
    <3> HIDE DEF s, to, b
    <3> QED
      BY <1>linked, <2>1, <2>3
  <2>4. CASE attempt[a].linked
    <3>1. Len(s) + attempt[a].left = Blocks
      BY <2>1, <2>4
    <3> HIDE DEF s
    <3>2. at = Len(s) + 1
      BY <1>left, <1>length, <3>1
    <3> HIDE DEF at
    <3>3. to = at /\ b = version[j]
      BY <3>2
    <3> HIDE DEF to, b
    <3> QED
      BY <1>linked, <2>1, <2>4, <3>1, <3>2, <3>3
  <2> QED
    BY <2>3, <2>4
<1> HIDE DEF s, at, to, b
<1>9. ASSUME ~ attempt[a].twin
      PROVE  Progress(a)'
  <2>1. CASE attempt[a].linked
    <3>1. Len(Put(s, to, b)) = Len(s) + 1
      BY <1>2, <1>7, <1>9, <2>1, PutAtEnd
    <3>2. Len(s) + attempt[a].left = Blocks
      BY <1>7, <1>9, <2>1
    <3>3. disk'[j].source.blocks = Put(s, to, b) /\ attempt'[a].left = attempt[a].left - 1
      BY <1>4, <1>5, <1>6, <2>1
    <3>4. Len(disk'[j].source.blocks) + attempt'[a].left = Blocks
      <4>1. Len(disk'[j].source.blocks) = Len(s) + 1
        BY <3>1, <3>3
      <4>2. (Len(s) + 1) + (attempt[a].left - 1) = Blocks
        BY <1>left, <1>length, <3>2
      <4> QED
        BY <3>3, <4>1, <4>2
    <3> QED
      BY <1>linked, <1>4, <1>5, <1>6, <2>1, <3>4 DEF Progress
  <2>2. CASE ~ attempt[a].linked
    BY <1>linked, <1>4, <1>5, <1>6, <1>7, <1>9, <2>2 DEF Progress
  <2> QED
    BY <2>1, <2>2
<1>10. ASSUME Pure(j), ~ checksum, version[j] = 1
       PROVE  Ones(disk'[j].source.blocks)
  <2>1. ~ attempt[a].twin
    BY <1>1, <1>10, RunningParts DEF Pure
  <2>2. Ones(s)
    BY <1>2, <1>10 DEF WholeFiles, BlocksRight, s
  <2>3. CASE attempt[a].linked
    BY <1>2, <1>5, <1>6, <1>7, <1>10, <2>1, <2>2, <2>3, PutAtEnd
  <2>4. CASE ~ attempt[a].linked
    BY <1>5, <1>6, <2>2, <2>4 DEF s
  <2> QED
    BY <2>3, <2>4
<1> QED
  BY <1>4, <1>6, <1>9, <1>10 DEF Advances

\* As many blocks as there are, all of one version, or checked to be.
LEMMA VerifyAdvances ==
  ASSUME Typed, WholeFiles, NEW a \in Attempts, VerifyChecksum(a)
  PROVE  Advances(a)
<1> DEFINE j == attempt[a].job
           file == disk[j].source
           fits == checksum => file.there /\ OneVersion(file.blocks, 1)
           r == [attempt[a] EXCEPT !.phase = IF fits THEN "checked" ELSE "failed",
                                   !.offset = 0, !.append = FALSE, !.linked = FALSE]
<1>1. Running(a) /\ UNCHANGED <<disk, unpolled>>
  BY DEF Running, Phases, VerifyChecksum
<1>2. /\ attempt[a].phase = "copying" /\ attempt[a].left = 0 /\ j \in Jobs
      /\ file.blocks \in Seq(Versions \cup {Garbled}) /\ version[j] \in Nat
      /\ Len(file.blocks) \in Nat
  <2>1. attempt[a].phase = "copying" /\ attempt[a].left = 0
    BY DEF VerifyChecksum
  <2>2. j \in Jobs /\ file.blocks \in Seq(Versions \cup {Garbled})
    BY <1>1, RunningParts
  <2>3. version[j] \in Nat
    BY <2>2 DEF Typed, Versions
  <2> HIDE DEF file
  <2>4. Len(file.blocks) \in Nat
    BY <1>1, RunningParts, ZenonT(60) DEF file
  <2> QED
    BY <2>1, <2>2, <2>3, <2>4
<1>3. attempt' = [attempt EXCEPT ![a] = r]
  BY DEF VerifyChecksum
<1>4. disk' = [disk EXCEPT ![j] = disk[j]] /\ UNCHANGED unpolled
  BY <1>1 DEF Typed
<1>5. r.twin = attempt[a].twin /\ r.job = j
  BY <1>1, RunningParts DEF Attempt
<1>6. r.phase = IF fits THEN "checked" ELSE "failed"
  BY <1>1, RunningParts DEF Attempt
<1> HIDE DEF r
<1>7. Local(a) /\ attempt'[a] = r /\ disk'[j] = disk[j]
  BY <1>1, <1>3, <1>4, Replaced
<1>8. ASSUME ~ attempt[a].twin, fits, file.there
      PROVE  OneVersion(file.blocks, 1) \/ Excused(j)
  <2>1. CASE checksum
    BY <1>8, <2>1
  <2>2. CASE ~ checksum /\ version[j] # 1
    BY <1>2, <2>2 DEF Excused, Typed, Versions
  <2>3. CASE ~ checksum /\ version[j] = 1
    <3>1. Ones(file.blocks)
      BY <1>1, <1>2, <1>8, <2>3, AloneIsPure DEF WholeFiles, BlocksRight
    <3>2. Len(file.blocks) + attempt[a].left = Blocks
      BY <1>1, <1>2, <1>8, AloneIsPure DEF Progress
    <3>3. Len(file.blocks) = Blocks
      BY <1>2, <3>2
    <3> QED
      BY <1>2, <3>1, <3>3, OnesAreOneVersion
  <2> QED
    BY <2>1, <2>2, <2>3
<1>9. checksum' = checksum /\ version' = version
  BY <1>7 DEF Local
<1>10. ASSUME ~ attempt[a].twin
       PROVE  Progress(a)'
  <2>1. CASE fits
    BY <1>5, <1>6, <1>7, <1>8, <1>9, <1>10, <2>1 DEF Progress, Excused
  <2>2. CASE ~ fits
    BY <1>6, <1>7, <2>2, NothingKnown
  <2> QED
    BY <2>1, <2>2
<1> QED
  BY <1>1, <1>5, <1>7, <1>10, SameSource DEF Advances

\* What was checked is what ffmpeg is given.
LEMMA StartAdvances ==
  ASSUME Typed, WholeFiles, NEW a \in Attempts, StartConversion(a)
  PROVE  Advances(a)
<1> DEFINE j == attempt[a].job
           whole == \E v \in Versions : OneVersion(disk[j].source.blocks, v)
           r == [attempt[a] EXCEPT !.phase = "converting", !.whole = whole]
           f == [attempt[a] EXCEPT !.phase = "failed"]
           d == [disk[j] EXCEPT !.made = TRUE, !.output = [by |-> a, whole |-> FALSE]]
           e == [disk[j] EXCEPT !.made = TRUE]
<1>1. Running(a) /\ UNCHANGED unpolled /\ attempt[a].phase = "checked"
  BY DEF Running, Phases, StartConversion
<1>2. CASE disk[j].source.there
  <2>1. attempt' = [attempt EXCEPT ![a] = r] /\ disk' = [disk EXCEPT ![j] = d]
    BY <1>2 DEF StartConversion
  <2>2. whole <=> \E v \in Versions : OneVersion(disk[j].source.blocks, v)
    OBVIOUS
  <2> HIDE DEF whole
  <2>3. /\ r.phase = "converting" /\ r.whole = whole
        /\ r.twin = attempt[a].twin /\ r.job = j
    BY <1>1, RunningParts DEF Attempt
  <2>4. d.source = disk[j].source /\ d.output = [by |-> a, whole |-> FALSE]
    BY <1>1, RunningParts DEF Directory
  <2> HIDE DEF r, d
  <2>5. Local(a) /\ attempt'[a] = r /\ disk'[j] = d
    BY <1>1, <2>1, Replaced
  <2>6. checksum' = checksum /\ version' = version
    BY <2>5 DEF Local
  <2>7. 1 \in Versions
    BY DEF Versions
  <2>8. ASSUME ~ attempt[a].twin
        PROVE  Progress(a)'
    <3>1. whole \/ Excused(j)
      BY <1>1, <1>2, <2>2, <2>7, <2>8, AloneIsPure DEF Progress
    <3> QED
      BY <2>3, <2>4, <2>5, <2>6, <3>1 DEF Progress, Excused
  <2> QED
    BY <1>1, <2>3, <2>4, <2>5, <2>8, SameSource DEF Advances
<1>3. CASE ~ disk[j].source.there
  <2>1. attempt' = [attempt EXCEPT ![a] = f] /\ disk' = [disk EXCEPT ![j] = e]
    BY <1>3 DEF StartConversion, Move
  <2>2. /\ f.phase = "failed" /\ f.twin = attempt[a].twin
        /\ e.source = disk[j].source
    BY <1>1, RunningParts DEF Attempt, Directory
  <2> HIDE DEF f, e
  <2>3. Local(a) /\ attempt'[a] = f /\ disk'[j] = e
    BY <1>1, <2>1, Replaced
  <2> QED
    BY <1>1, <2>2, <2>3, NothingKnown, SameSource DEF Advances
<1> QED
  BY <1>2, <1>3

\* An output that is still there is the one of this attempt.
LEMMA EndAdvances ==
  ASSUME Typed, WholeFiles, NEW a \in Attempts, EndConversion(a)
  PROVE  Advances(a)
<1> DEFINE j == attempt[a].job
           p == IF disk[j].output # NoOutput THEN "uploading" ELSE "failed"
           r == [attempt[a] EXCEPT !.phase = p]
           w == disk[j].output.whole \/ (disk[j].output.by = a /\ attempt[a].whole)
           d == [disk[j] EXCEPT !.output.whole = w]
<1>1. Running(a) /\ UNCHANGED unpolled /\ attempt[a].phase = "converting"
  BY DEF Running, Phases, EndConversion
<1>2. attempt' = [attempt EXCEPT ![a] = r] /\ disk' = [disk EXCEPT ![j] = d]
  BY DEF EndConversion, Move
<1>3. /\ r.phase = p /\ r.twin = attempt[a].twin /\ r.job = j
  BY <1>1, RunningParts DEF Attempt
<1>4. d.source = disk[j].source /\ d.output.whole = w /\ d.output.by = disk[j].output.by
  BY <1>1, RunningParts DEF Directory, OutputFile
<1> HIDE DEF r, d
<1>5. Local(a) /\ attempt'[a] = r /\ disk'[j] = d
  BY <1>1, <1>2, Replaced
<1>6. checksum' = checksum /\ version' = version
  BY <1>5 DEF Local
<1>7. ASSUME ~ attempt[a].twin
      PROVE  Progress(a)'
  <2>1. /\ attempt[a].whole \/ Excused(j)
        /\ disk[j].output \in {NoOutput, [by |-> a, whole |-> FALSE]}
    BY <1>1, <1>7, AloneIsPure DEF Progress
  <2>2. CASE disk[j].output = NoOutput
    BY <1>3, <1>5, <2>2, NothingKnown
  <2>3. CASE disk[j].output # NoOutput
    <3>1. r.phase = "uploading" /\ disk[j].output = [by |-> a, whole |-> FALSE]
      BY <1>3, <2>1, <2>3
    <3>2. disk[j].output.by = a
      BY <3>1
    <3>3. attempt[a].whole => w
      BY <3>2
    <3>4. disk'[j].output.whole \/ Excused(j)
      BY <1>4, <1>5, <2>1, <3>3
    <3> QED
      BY <1>3, <1>5, <1>6, <3>1, <3>4 DEF Progress, Excused
  <2> QED
    BY <2>2, <2>3
<1> QED
  BY <1>1, <1>3, <1>4, <1>5, <1>7, SameSource DEF Advances

\* What is opened for the upload is whole.
LEMMA OpenAdvances ==
  ASSUME Typed, WholeFiles, NEW a \in Attempts, OpenOutput(a)
  PROVE  Advances(a)
<1> DEFINE j == attempt[a].job
           p == IF disk[j].output # NoOutput THEN "sending" ELSE "failed"
           r == [attempt[a] EXCEPT !.phase = p, !.whole = disk[j].output.whole]
<1>1. Running(a) /\ UNCHANGED <<disk, unpolled>> /\ attempt[a].phase = "uploading"
  BY DEF Running, Phases, OpenOutput
<1>2. attempt' = [attempt EXCEPT ![a] = r]
  BY DEF OpenOutput
<1>3. disk' = [disk EXCEPT ![j] = disk[j]] /\ UNCHANGED unpolled
  BY <1>1 DEF Typed
<1>4. /\ r.phase = p /\ r.whole = disk[j].output.whole
      /\ r.twin = attempt[a].twin /\ r.job = j
  BY <1>1, RunningParts DEF Attempt
<1> HIDE DEF r
<1>5. Local(a) /\ attempt'[a] = r /\ disk'[j] = disk[j]
  BY <1>1, <1>2, <1>3, Replaced
<1>6. checksum' = checksum /\ version' = version
  BY <1>5 DEF Local
<1>7. ASSUME ~ attempt[a].twin
      PROVE  Progress(a)'
  <2>1. disk[j].output = NoOutput \/ disk[j].output.whole \/ Excused(j)
    BY <1>1, <1>7, AloneIsPure DEF Progress
  <2>2. CASE disk[j].output = NoOutput
    BY <1>4, <1>5, <2>2, NothingKnown
  <2>3. CASE disk[j].output # NoOutput
    <3>1. r.phase = "sending" /\ (r.whole \/ Excused(j))
      BY <1>4, <2>1, <2>3
    <3> QED
      BY <1>4, <1>5, <1>6, <3>1 DEF Progress, Excused
  <2> QED
    BY <2>2, <2>3
<1> QED
  BY <1>1, <1>4, <1>5, <1>7, SameSource DEF Advances

\* Every step of an attempt that does not end it.
LEMMA ContinuesKeepsWhole ==
  ASSUME Typed, WholeFiles, NEW a \in Attempts, Continues(a)
  PROVE  WholeFiles'
<1>1. Running(a)
  BY DEF Continues, Running, Phases, StatPartial, RequestFails, RequestRefused,
         RangeRefused, FullAnswer, PartialAnswer, CopyBlock, CopyFails,
         VerifyChecksum, StartConversion, ConversionFails, EndConversion,
         OpenOutput, UploadFails
<1>2. Advances(a)
  BY FailsAdvances, StatAdvances, FullAdvances, PartialAdvances, CopyAdvances,
     VerifyAdvances, StartAdvances, EndAdvances, OpenAdvances DEF Continues
<1>3. Keeps
  BY ContinuesStep
<1>4. /\ Local(a) /\ attempt'[a].twin = attempt[a].twin
      /\ ~ attempt[a].twin => Progress(a)'
      /\ Pure(attempt[a].job) /\ ~ checksum /\ version[attempt[a].job] = 1 =>
           Ones(disk'[attempt[a].job].source.blocks)
  BY <1>2 DEF Advances
<1> QED
  BY <1>1, <1>3, <1>4, LocalKeeps, ZenonT(60)

\* The end of an attempt leaves an empty directory, in which no twins have been.
LEMMA EndsKeepsWhole ==
  ASSUME Typed, WholeFiles, NEW a \in Attempts, EndUpload(a) \/ EndFailed(a)
  PROVE  WholeFiles'
<1> DEFINE j == attempt[a].job
           who == [attempt EXCEPT ![a] = Gone("over")]
<1>1. Running(a) /\ EndAttempt(a)
  BY DEF EndUpload, EndFailed, Running, Phases
<1>2. j \in Jobs
  BY <1>1, RunningParts
<1>3. /\ ~ Running(a)'
      /\ \A b \in Attempts \ {a} :
           /\ Running(b)' <=> Running(b)
           /\ Running(b) => attempt'[b].job = attempt[b].job
  BY EndsStep DEF Ends
<1>4. /\ disk' = [disk EXCEPT ![j] = NoDir] /\ mixed' = mixed \ {j}
      /\ attempt' = Unlink(j, who) /\ UNCHANGED <<version, checksum>>
  BY <1>1 DEF EndAttempt, world, fixed
<1>5. disk'[j].source.blocks = <<>> /\ \A i \in Jobs \ {j} : disk'[i] = disk[i]
  BY <1>2, <1>4 DEF Typed, NoDir, NoFile
<1>6. \A b \in Attempts \ {a} : who[b] = attempt[b]
  BY DEF Typed
<1> HIDE DEF who
<1>7. \A b \in Attempts \ {a} :
        /\ attempt'[b].twin = attempt[b].twin
        /\ attempt[b].job # j => attempt'[b] = attempt[b]
  BY <1>4, <1>6, UnlinkOthers
<1>8. \A i \in Jobs \ {j} : RunningFor(i)' = RunningFor(i)
  BY <1>3 DEF RunningFor
<1>9. ASSUME NEW b \in Attempts, Running(b)', ~ attempt'[b].twin
      PROVE  /\ b # a /\ Running(b) /\ ~ attempt[b].twin /\ attempt[b].job \in Jobs \ {j}
             /\ attempt'[b] = attempt[b]
             /\ RunningFor(attempt[b].job) = {b} /\ attempt[b].job \notin mixed
             /\ Progress(b)
  <2>1. b # a /\ Running(b) /\ ~ attempt[b].twin
    BY <1>3, <1>7, <1>9
  <2>2. /\ RunningFor(attempt[b].job) = {b} /\ attempt[b].job \notin mixed
        /\ Progress(b)
    BY <2>1, AloneIsPure
  <2>3. attempt[b].job \in Jobs /\ a \in RunningFor(j)
    BY <1>1, <2>1, RunningParts
  <2> QED
    BY <1>7, <2>1, <2>2, <2>3
<1>10. Lonely'
  BY <1>4, <1>8, <1>9 DEF Lonely
<1>11. Progresses'
  <2> SUFFICES ASSUME NEW b \in Attempts, Running(b)', ~ attempt'[b].twin
               PROVE  Progress(b)'
    BY DEF Progresses
  <2>1. /\ attempt'[b] = attempt[b] /\ disk'[attempt[b].job] = disk[attempt[b].job]
        /\ Progress(b)
    BY <1>5, <1>9
  <2> QED
    BY <1>4, <2>1 DEF Progress, Excused
<1>12. BlocksRight'
  <2> SUFFICES ASSUME NEW i \in Jobs, Pure(i)', ~ checksum', version'[i] = 1
               PROVE  Ones(disk'[i].source.blocks)
    BY DEF BlocksRight
  <2>1. CASE i = j
    BY <1>5, <2>1 DEF Ones
  <2>2. CASE i # j
    <3>1. \A b \in RunningFor(i) : b \in Attempts \ {a}
      BY <1>3, <1>8, <2>2 DEF RunningFor
    <3>2. Pure(i)
      BY <1>4, <1>7, <1>8, <2>2, <3>1 DEF Pure
    <3> QED
      BY <1>4, <1>5, <2>2, <3>2 DEF WholeFiles, BlocksRight
  <2> QED
    BY <2>1, <2>2
<1> QED
  BY <1>10, <1>11, <1>12 DEF WholeFiles

\* Who joins an attempt of the same job, or finds what twins have left, is a twin.
LEMMA AnsweredKeepsWhole ==
  ASSUME Typed, WholeFiles, NEW p \in Pollers, NEW j \in Jobs, NEW c \in Attempts,
         Answered(p, j, c)
  PROVE  WholeFiles'
<1> DEFINE twins == RunningFor(j)
           new == [Gone("stat") EXCEPT !.job = j, !.twin = twins # {} \/ j \in mixed]
<1>1. /\ ~ Running(c) /\ UNCHANGED <<disk, mixed, version, checksum>>
  BY DEF Answered, Running, Phases, behind, world, fixed
<1>2. attempt' = [b \in Attempts |->
                    IF b = c THEN new
                    ELSE IF b \in twins THEN [attempt[b] EXCEPT !.twin = TRUE]
                    ELSE attempt[b]]
  BY DEF Answered
<1>3. /\ new.phase = "stat" /\ new.job = j
      /\ new.twin <=> (twins # {} \/ j \in mixed)
  BY DEF Gone
<1> HIDE DEF new
<1>4. attempt'[c] = new
  BY <1>2
<1>5. ASSUME NEW b \in twins
      PROVE  /\ attempt'[b].twin = TRUE /\ attempt'[b].phase = attempt[b].phase
             /\ attempt'[b].job = attempt[b].job
  <2>1. b \in Attempts /\ Running(b) /\ b # c
    BY <1>1 DEF RunningFor
  <2>2. attempt'[b] = [attempt[b] EXCEPT !.twin = TRUE]
    BY <1>2, <2>1
  <2> QED
    BY <2>1, <2>2, RunningParts DEF Attempt
<1>6. \A b \in Attempts : b # c /\ b \notin twins => attempt'[b] = attempt[b]
  BY <1>2
<1>7. Running(c)' /\ \A b \in Attempts \ {c} :
        /\ Running(b)' <=> Running(b)
        /\ attempt'[b].job = attempt[b].job
        /\ attempt[b].twin => attempt'[b].twin
  BY <1>3, <1>4, <1>5, <1>6 DEF Running, Phases
<1>8. /\ RunningFor(j)' = twins \cup {c}
      /\ \A i \in Jobs \ {j} : RunningFor(i)' = RunningFor(i)
  BY <1>1, <1>3, <1>4, <1>7 DEF RunningFor
<1>9. ASSUME NEW b \in Attempts \ {c}, Running(b)', ~ attempt'[b].twin
      PROVE  /\ Running(b) /\ ~ attempt[b].twin /\ attempt[b].job \in Jobs \ {j}
             /\ attempt'[b] = attempt[b]
             /\ RunningFor(attempt[b].job) = {b} /\ attempt[b].job \notin mixed
             /\ Progress(b)
  <2>1. Running(b) /\ ~ attempt[b].twin /\ b \notin twins
    BY <1>5, <1>7, <1>9
  <2>2. attempt[b].job \in Jobs \ {j}
    BY <2>1, RunningParts DEF RunningFor
  <2> QED
    BY <1>6, <2>1, <2>2, AloneIsPure
<1>10. Lonely'
  <2>1. ASSUME ~ attempt'[c].twin
        PROVE  RunningFor(j)' = {c} /\ j \notin mixed'
    BY <1>1, <1>3, <1>4, <1>8, <2>1
  <2>2. ASSUME NEW b \in Attempts \ {c}, Running(b)', ~ attempt'[b].twin
        PROVE  (RunningFor(attempt[b].job) = {b} /\ attempt[b].job \notin mixed)'
    BY <1>1, <1>8, <1>9, <2>2
  <2> QED
    BY <1>3, <1>4, <2>1, <2>2 DEF Lonely
<1>11. Progresses'
  <2> SUFFICES ASSUME NEW b \in Attempts, Running(b)', ~ attempt'[b].twin
               PROVE  Progress(b)'
    BY DEF Progresses
  <2>1. CASE b = c
    BY <1>3, <1>4, <2>1, NothingKnown
  <2>2. CASE b # c
    <3>1. attempt'[b] = attempt[b] /\ Progress(b)
      BY <1>9, <2>2
    <3> QED
      BY <1>1, <3>1 DEF Progress, Excused
  <2> QED
    BY <2>1, <2>2
<1>12. BlocksRight'
  <2> SUFFICES ASSUME NEW i \in Jobs, Pure(i)', ~ checksum', version'[i] = 1
               PROVE  Ones(disk'[i].source.blocks)
    BY DEF BlocksRight
  <2>1. CASE i = j
    <3>1. twins = {}
      BY <1>5, <1>8, <2>1 DEF Pure
    <3> QED
      BY <1>1, <2>1, <3>1 DEF WholeFiles, BlocksRight, Pure
  <2>2. CASE i # j
    <3>1. \A b \in RunningFor(i) : b \in Attempts \ {c}
      BY <1>1 DEF RunningFor
    <3>2. Pure(i)
      BY <1>1, <1>7, <1>8, <2>2, <3>1 DEF Pure
    <3> QED
      BY <1>1, <3>2 DEF WholeFiles, BlocksRight
  <2> QED
    BY <2>1, <2>2
<1> QED
  BY <1>10, <1>11, <1>12 DEF WholeFiles

\* What the cleanup deletes is missed, not mistaken.
LEMMA EvictKeepsWhole ==
  ASSUME Typed, WholeFiles, NEW f \in Files, Evict(f)
  PROVE  WholeFiles'
<1> DEFINE j == f[1]
<1>1. j \in Jobs /\ UNCHANGED <<mixed, version, checksum>>
  BY DEF Files, Evict, behind, world, fixed
<1>2. Keeps
  BY OtherTypes
<1>3. /\ \A i \in Jobs \ {j} : disk'[i] = disk[i]
      /\ disk'[j] \in { [disk[j] EXCEPT !.source = NoFile],
                        [disk[j] EXCEPT !.output = NoOutput] }
  BY <1>1 DEF Evict, Typed
<1>4. ASSUME NEW b \in Attempts, Running(b)
      PROVE  /\ attempt'[b].twin = attempt[b].twin
             /\ attempt[b].job # j => attempt'[b] = attempt[b]
             /\ attempt'[b].phase = attempt[b].phase
             /\ attempt'[b].whole = attempt[b].whole
             /\ f[2] = "source" /\ attempt[b].job = j => attempt'[b].linked = FALSE
             /\ f[2] # "source" => attempt'[b] = attempt[b]
  <2>1. CASE f[2] = "source" /\ attempt[b].job = j
    <3>1. attempt'[b] = [attempt[b] EXCEPT !.linked = FALSE]
      BY <2>1 DEF Evict, Unlink
    <3> QED
      BY <1>4, <2>1, <3>1, RunningParts DEF Attempt
  <2>2. CASE ~ (f[2] = "source" /\ attempt[b].job = j)
    BY <2>2 DEF Evict, Unlink
  <2> QED
    BY <2>1, <2>2
<1>5. \A i \in Jobs : RunningFor(i)' = RunningFor(i)
  BY <1>2, KeepsSets
<1>6. ASSUME NEW b \in Attempts, Running(b)', ~ attempt'[b].twin
      PROVE  /\ Running(b) /\ ~ attempt[b].twin
             /\ attempt'[b].job = attempt[b].job /\ attempt[b].job \in Jobs
             /\ RunningFor(attempt[b].job) = {b} /\ attempt[b].job \notin mixed
             /\ Progress(b)
  BY <1>2, <1>4, <1>6, AloneIsPure, RunningParts DEF Keeps
<1>7. Lonely'
  BY <1>1, <1>5, <1>6 DEF Lonely
<1>8. Progresses'
  <2> SUFFICES ASSUME NEW b \in Attempts, Running(b)', ~ attempt'[b].twin
               PROVE  Progress(b)'
    BY DEF Progresses
  <2>1. CASE attempt[b].job # j
    <3>1. /\ attempt'[b] = attempt[b] /\ disk'[attempt[b].job] = disk[attempt[b].job]
          /\ Progress(b)
      BY <1>3, <1>4, <1>6, <2>1
    <3> QED
      BY <1>1, <3>1 DEF Progress, Excused
  <2>2. CASE attempt[b].job = j /\ f[2] = "source"
    <3>1. disk'[j].source.there = FALSE /\ disk'[j].output = disk[j].output
      <4>1. disk'[j] = [disk[j] EXCEPT !.source = NoFile]
        BY <1>1, <2>2 DEF Evict, Typed
      <4> QED
        BY <1>1, <4>1 DEF Typed, Directory, NoFile
    <3>2. /\ attempt'[b].phase = attempt[b].phase /\ attempt'[b].linked = FALSE
          /\ attempt'[b].whole = attempt[b].whole /\ attempt'[b].job = j
          /\ Progress(b)
      BY <1>4, <1>6, <2>2
    <3> QED
      BY <1>1, <2>2, <3>1, <3>2 DEF Progress, Excused
  <2>3. CASE attempt[b].job = j /\ f[2] # "source"
    <3>1. disk'[j].output = NoOutput /\ disk'[j].source = disk[j].source
      <4>1. disk'[j] = [disk[j] EXCEPT !.output = NoOutput]
        BY <1>1, <2>3 DEF Evict, Typed
      <4> QED
        BY <1>1, <4>1 DEF Typed, Directory
    <3>2. attempt'[b] = attempt[b] /\ Progress(b)
      BY <1>4, <1>6, <2>3
    <3> QED
      BY <1>1, <2>3, <3>1, <3>2 DEF Progress, Excused
  <2> QED
    BY <2>1, <2>2, <2>3
<1>9. BlocksRight'
  <2> SUFFICES ASSUME NEW i \in Jobs, Pure(i)', ~ checksum', version'[i] = 1
               PROVE  Ones(disk'[i].source.blocks)
    BY DEF BlocksRight
  <2>1. Pure(i)
    BY <1>1, <1>4, <1>5 DEF Pure, RunningFor
  <2>2. Ones(disk[i].source.blocks)
    BY <1>1, <2>1 DEF WholeFiles, BlocksRight
  <2>3. disk'[i].source.blocks = <<>> \/ disk'[i].source.blocks = disk[i].source.blocks
    BY <1>1, <1>3 DEF Typed, Directory, NoFile
  <2> QED
    BY <2>2, <2>3 DEF Ones
<1> QED
  BY <1>7, <1>8, <1>9 DEF WholeFiles

\* A process that is killed leaves what its attempts had written; what twins had
\* written is remembered as theirs.
LEMMA KillKeepsWhole ==
  ASSUME Typed, WholeFiles, Kill
  PROVE  WholeFiles'
<1>1. \A a \in Attempts : ~ Running(a)'
  <2>1. \A a \in Attempts : attempt'[a] = IF Running(a) THEN Gone("over") ELSE attempt[a]
    BY DEF Kill
  <2> QED
    BY <2>1 DEF Running, Gone, Phases
<1>2. UNCHANGED <<disk, version, checksum>>
  BY DEF Kill, fixed
<1>3. \A j \in Jobs : Pure(j)' => Pure(j)
  BY DEF Kill, Pure
<1> QED
  BY <1>1, <1>2, <1>3 DEF WholeFiles, Lonely, Progresses, BlocksRight

\* A source that is replaced excuses what goes on with it.
LEMMA ReplaceKeepsWhole ==
  ASSUME Typed, WholeFiles, NEW j \in Jobs, ReplaceSource(j)
  PROVE  WholeFiles'
<1>1. UNCHANGED <<attempt, disk, mixed, checksum>>
  BY DEF ReplaceSource, behind, fixed
<1>2. \A i \in Jobs : version[i] \in Nat /\ version[i] >= 1
  BY DEF Typed, Versions
<1>3. /\ version'[j] = version[j] + 1
      /\ \A i \in Jobs \ {j} : version'[i] = version[i]
  BY DEF ReplaceSource, Typed
<1>4. \A i \in Jobs : /\ Excused(i) => Excused(i)'
                      /\ version'[i] = 1 => version[i] = 1
  BY <1>1, <1>2, <1>3 DEF Excused
<1>5. \A i \in Jobs : RunningFor(i)' = RunningFor(i) /\ (Pure(i)' <=> Pure(i))
  BY <1>1 DEF RunningFor, Pure, Running
<1>6. Lonely'
  BY <1>1 DEF WholeFiles, Lonely, RunningFor, Running
<1>7. Progresses'
  <2> SUFFICES ASSUME NEW b \in Attempts, Running(b)', ~ attempt'[b].twin
               PROVE  Progress(b)'
    BY DEF Progresses
  <2>1. Running(b) /\ Progress(b) /\ attempt[b].job \in Jobs
    BY <1>1, AloneIsPure, RunningParts DEF Running
  <2> QED
    BY <1>1, <1>4, <2>1 DEF Progress
<1>8. BlocksRight'
  BY <1>1, <1>4, <1>5 DEF WholeFiles, BlocksRight
<1> QED
  BY <1>6, <1>7, <1>8 DEF WholeFiles

\* Steps that concern neither attempts nor files.
LEMMA StillWhole ==
  ASSUME WholeFiles, UNCHANGED <<attempt, disk, mixed, version, checksum>>
  PROVE  WholeFiles'
BY DEF WholeFiles, Lonely, Progresses, BlocksRight, Progress, Pure, Excused,
       RunningFor, Running

\* Every step keeps files whole.
LEMMA WholeStep ==
  ASSUME Typed, WholeFiles, [Next]_vars
  PROVE  WholeFiles'
<1>1. ASSUME NEW p \in Pollers, PollerStep(p)
      PROVE  WholeFiles'
  <2>1. CASE Acquire(p) \/ NotAnswered(p) \/ StopPoller(p)
    BY <2>1, StillWhole DEF Acquire, NotAnswered, StopPoller, behind, world, fixed
  <2>2. CASE \E j \in Jobs, c \in Attempts : Answered(p, j, c)
    BY <2>2, AnsweredKeepsWhole
  <2> QED
    BY <1>1, <2>1, <2>2 DEF PollerStep
<1>2. ASSUME NEW a \in Attempts, AttemptStep(a)
      PROVE  WholeFiles'
  <2>1. CASE Continues(a)
    BY <2>1, ContinuesKeepsWhole
  <2>2. CASE EndUpload(a) \/ EndFailed(a)
    BY <2>2, EndsKeepsWhole
  <2> QED
    BY <1>2, <2>1, <2>2 DEF AttemptStep, Continues
<1>3. ASSUME NEW f \in Files, Evict(f)
      PROVE  WholeFiles'
  BY <1>3, EvictKeepsWhole
<1>4. CASE Kill
  BY <1>4, KillKeepsWhole
<1>5. CASE Cancel \/ Exit \/ Restart
  BY <1>5, StillWhole DEF Cancel, Exit, Restart, behind, world, fixed
<1>6. ASSUME NEW j \in Jobs, ReplaceSource(j)
      PROVE  WholeFiles'
  BY <1>6, ReplaceKeepsWhole
<1>7. CASE UNCHANGED vars
  BY <1>7, StillWhole DEF vars
<1> QED
  BY <1>1, <1>2, <1>3, <1>4, <1>5, <1>6, <1>7 DEF Next

-----------------------------------------------------------------------------
(* The theorems.                                                           *)

\* A process that starts has no attempt, no slot in use and no directory.
LEMMA InitHolds == Init => IInv
<1> SUFFICES ASSUME Init
             PROVE  IInv
  OBVIOUS
<1>1. Asking = {} /\ RunningAll = {}
  BY DEF Init, Asking, RunningAll, Running, Phases, Gone
<1>2. SlotsAccounted
  BY <1>1, Finite, FS_EmptySet DEF Init, SlotsAccounted, RunningAll
<1>3. NoDir \in Directory /\ ~ NoDir.made
  <2>1. NoOutput \in OutputFile
    BY DEF NoOutput, OutputFile
  <2> QED
    BY <2>1, FilesTyped DEF NoDir, Directory
<1>4. Typed
  BY <1>3 DEF Init, Typed, Versions
<1>5. DirectoriesOwned
  BY <1>3 DEF Init, DirectoriesOwned
<1> QED
  BY <1>1, <1>2, <1>4, <1>5 DEF IInv, AtRest

\* Every step of Next keeps the invariant.
LEMMA StepHolds == IInv /\ [Next]_vars => IInv'
<1> SUFFICES ASSUME IInv, [Next]_vars
             PROVE  IInv'
  OBVIOUS
<1>1. Typed
  BY DEF IInv
<1>2. ASSUME Typed', Keeps, MakesOwn, UNCHANGED <<up, poller, slots, leftover>>
      PROVE  IInv'
  BY <1>2, QuietStep DEF IInv, AtRest
<1>3. ASSUME NEW p \in Pollers, PollerStep(p)
      PROVE  IInv'
  BY <1>1, <1>3, OtherTypes, PollerKeeps DEF IInv, PollerStep
<1>4. ASSUME NEW a \in Attempts, AttemptStep(a)
      PROVE  IInv'
  <2>1. CASE Continues(a)
    BY <1>1, <1>2, <2>1, ContinuesStep
  <2>2. CASE EndUpload(a) \/ EndFailed(a)
    BY <1>1, <2>2, EndsStep, EndKeeps DEF IInv
  <2> QED
    BY <1>4, <2>1, <2>2 DEF AttemptStep, Continues
<1>5. ASSUME NEW f \in Files, Evict(f)
      PROVE  IInv'
  BY <1>1, <1>2, <1>5, OtherTypes DEF Evict, behind
<1>6. CASE Cancel \/ Exit \/ Kill \/ Restart
  BY <1>1, <1>6, OtherTypes, ProcessKeeps DEF IInv
<1>7. ASSUME NEW j \in Jobs, ReplaceSource(j)
      PROVE  IInv'
  <2>1. Keeps /\ MakesOwn
    BY <1>7, SameAttempts DEF ReplaceSource, MakesOwn
  <2> QED
    BY <1>1, <1>2, <1>7, <2>1, OtherTypes DEF ReplaceSource, behind
<1>8. CASE UNCHANGED vars
  <2>1. Keeps /\ MakesOwn /\ Typed'
    BY <1>1, <1>8, SameAttempts DEF vars, MakesOwn, Typed
  <2> QED
    BY <1>2, <1>8, <2>1 DEF vars
<1> QED
  BY <1>3, <1>4, <1>5, <1>6, <1>7, <1>8 DEF Next

\* The invariant, from which the rest follows.
THEOREM Invariance == Spec => []IInv
<1> QED
  BY InitHolds, StepHolds, PTL DEF Spec

\* The variables keep their types; the number of slots in use is never negative
\* (no defer in worker.go gives a slot back that was not taken).
THEOREM TypesCorrect == Spec => []TypeOK
<1>1. IInv => TypeOK
  <2> SUFFICES ASSUME IInv
               PROVE  TypeOK
    OBVIOUS
  <2>1. slots \in Nat
    BY Finite DEF IInv, SlotsAccounted, RunningAll
  <2> QED
    BY <2>1 DEF IInv, Typed, TypeOK, Directory, SourceFile, OutputFile
<1> QED
  BY <1>1, Invariance, PTL

\* At most as many attempts as configured, and no slot is ever lost: the
\* semaphore of worker.go with any number of pollers, attempts and kills.
THEOREM SlotsNeverLost == Spec => []SlotsAccounted
<1>1. IInv => SlotsAccounted
  BY DEF IInv
<1> QED
  BY <1>1, Invariance, PTL

\* Every directory of a job is removed by the last attempt that made it, unless
\* the process was killed (executeJob's deferred RemoveAll).
THEOREM NoDirectoryLeft == Spec => []DirectoriesOwned
<1>1. IInv => DirectoriesOwned
  BY DEF IInv
<1> QED
  BY <1>1, Invariance, PTL

\* Whoever runs without a twin knows what its files are: the invariant behind the
\* two theorems that follow, on top of Typed.
THEOREM FilesKnown == Spec => []WholeFiles
<1>1. Init => WholeFiles
  <2> SUFFICES ASSUME Init
               PROVE  WholeFiles
    OBVIOUS
  <2>1. \A a \in Attempts : ~ Running(a)
    BY DEF Init, Running, Phases, Gone
  <2>2. \A j \in Jobs : disk[j].source.blocks = <<>>
    BY DEF Init, NoDir, NoFile
  <2> QED
    BY <2>1, <2>2 DEF WholeFiles, Lonely, Progresses, BlocksRight, Ones
<1>2. IInv /\ WholeFiles /\ [Next]_vars => WholeFiles'
  BY WholeStep DEF IInv
<1> QED
  BY <1>1, <1>2, Invariance, PTL DEF Spec

\* ffmpeg is given one whole version of the source, however often the download was
\* retried or resumed, the file deleted by the cleanup or the process killed:
\* DownloadSourceVideo and executeJob, for sources of any size.
THEOREM ConvertsWhole == Spec => []ConvertsWholeSource
<1>1. WholeFiles => ConvertsWholeSource
  <2> SUFFICES ASSUME WholeFiles, NEW a \in Attempts,
                      attempt[a].phase = "converting", ~ attempt[a].twin
               PROVE  attempt[a].whole \/ (~ checksum /\ version[attempt[a].job] > 1)
    BY DEF ConvertsWholeSource
  <2>1. Running(a)
    BY DEF Running, Phases
  <2> QED
    BY <2>1, AloneIsPure DEF Progress, Excused
<1> QED
  BY <1>1, FilesKnown, PTL

\* What is sent to the master is all that came of a whole source: an output that
\* was deleted, or left unfinished by an earlier process, is never opened by
\* uploadConvertedVideoAttempt.
THEOREM UploadsWhole == Spec => []UploadsWholeOutput
<1>1. WholeFiles => UploadsWholeOutput
  <2> SUFFICES ASSUME WholeFiles, NEW a \in Attempts,
                      attempt[a].phase = "sending", ~ attempt[a].twin
               PROVE  attempt[a].whole \/ (~ checksum /\ version[attempt[a].job] > 1)
    BY DEF UploadsWholeOutput
  <2>1. Running(a)
    BY DEF Running, Phases
  <2> QED
    BY <2>1, AloneIsPure DEF Progress, Excused
<1> QED
  BY <1>1, FilesKnown, PTL

=============================================================================
