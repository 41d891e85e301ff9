------------------------- MODULE SnapshotStoreProofs -------------------------
(***************************************************************************)
(* Type correctness of SnapshotStore, what its two files hold, that it     *)
(* implements SavedMap and that Shutdown comes to its end, for any tags,   *)
(* handlers and bounds.                                                    *)
(***************************************************************************)
EXTENDS SnapshotStore, TLAPS

SaverType == [at : SaverPc, by : {"loop", "shutdown"}]

LEMMA Numbers ==
    ASSUME TypeOK
    PROVE  crashes \in Nat /\ faults \in Nat /\ writes \in Nat /\ stops \in Nat
  BY SnapshotAssumption DEF TypeOK

LEMMA EntryTypes ==
    /\ NoEntries \in Entries
    /\ NoFile \in File /\ TornFile \in File
    /\ \A e \in Entries : Parses(e) \in File
  BY SnapshotAssumption DEF NoEntries, Entries, NoFile, TornFile, File, Parses

LEMMA PartType == image \in Entries => PartOfImage \subseteq File
  <1> SUFFICES ASSUME image \in Entries, NEW T \in SUBSET Tag
               PROVE  Parses([t \in Tag |-> IF t \in T THEN image[t] ELSE 0]) \in File
    BY EntryTypes DEF PartOfImage
  <1>1. [t \in Tag |-> IF t \in T THEN image[t] ELSE 0] \in Entries
    BY SnapshotAssumption DEF Entries
  <1> QED
    BY <1>1, EntryTypes

LEMMA FaultCount == TypeOK /\ (Fault \/ UNCHANGED faults) => faults' \in 0 .. MaxFaults
  BY SnapshotAssumption DEF Fault, TypeOK

-----------------------------------------------------------------------------
(* The steps of the saving thread *)

LEMMA AtEffect ==
    ASSUME TypeOK, NEW a \in SaverPc, SaverAt(a)
    PROVE  spc' \in SaverType /\ spc'.at = a /\ spc'.by = spc.by
  BY DEF TypeOK, SaverAt, SaverType

\* At the end of a round the thread tests running_; Shutdown is at its end.
RoundEnds ==
    /\ spc' \in SaverType /\ spc'.by = spc.by
    /\ \/ spc.by = "shutdown" /\ spc'.at = "off" /\ phase' = "down"
       \/ spc.by = "loop" /\ spc'.at \in {"waiting", "exited"} /\ phase' = phase
    /\ spc'.at = "exited" => phase # "running"

LEMMA RoundEnd == TypeOK /\ SaverAt(Finished) /\ EndPhase => RoundEnds
  <1> SUFFICES ASSUME TypeOK, SaverAt(Finished), EndPhase PROVE RoundEnds
    OBVIOUS
  <1>1. spc.by \in {"loop", "shutdown"}
    BY DEF TypeOK
  <1>2. CASE spc.by = "loop"
    <2>1. Finished \in {"waiting", "exited"} /\ (Finished = "exited" => phase # "running")
      BY <1>2 DEF Finished, LoopTest, TypeOK
    <2>2. phase' = phase
      BY <1>2 DEF EndPhase
    <2> QED
      BY <1>2, <2>1, <2>2, AtEffect DEF SaverPc, RoundEnds
  <1>3. CASE spc.by = "shutdown"
    <2>1. Finished = "off" /\ phase' = "down"
      BY <1>3 DEF Finished, EndPhase
    <2> QED
      BY <1>3, <2>1, AtEffect DEF SaverPc, RoundEnds
  <1> QED
    BY <1>1, <1>2, <1>3

\* The steps before a save, and what they read.
LEMMA LoopEffect ==
    ASSUME TypeOK, EnterLoop \/ WakeUp \/ Joined
    PROVE  /\ UNCHANGED <<phase, map, dirty, wpc, image, files, newest, saved, writes, counts>>
           /\ spc' \in SaverType /\ spc.at \notin InSave \union {"off"} /\ spc'.at \notin InSave \union {"off"}
           /\ \/ spc'.by = spc.by
              \/ spc'.by = "shutdown" /\ spc.at = "exited"
           /\ spc'.at = "exited" => phase # "running"
  <1>1. CASE EnterLoop
    <2>1. LoopTest \in {"waiting", "exited"} /\ (LoopTest = "exited" => phase # "running")
      BY DEF LoopTest, TypeOK
    <2> QED
      BY <1>1, <2>1, AtEffect DEF EnterLoop, SaverPc, InSave
  <1>2. CASE WakeUp
    BY <1>2, AtEffect DEF WakeUp, SaverPc, InSave
  <1>3. CASE Joined
    BY <1>3 DEF Joined, SaverPc, SaverType, InSave
  <1> QED
    BY <1>1, <1>2, <1>3

\* The steps before a save: the flag is cleared as it is read.
LEMMA ExchangeEffect ==
    ASSUME TypeOK, ExchangeDirty
    PROVE  /\ UNCHANGED <<running, map, wpc, image, files, newest, saved, writes, counts>>
           /\ spc.at = "woken" /\ dirty' = FALSE
           /\ \/ spc' \in SaverType /\ spc'.at = "backup" /\ spc'.by = spc.by /\ UNCHANGED phase
              \/ ~dirty /\ RoundEnds
  <1>1. CASE dirty
    BY <1>1, AtEffect DEF ExchangeDirty, SaverPc
  <1>2. CASE ~dirty
    BY <1>2, RoundEnd DEF ExchangeDirty
  <1> QED
    BY <1>1, <1>2

LEMMA RenameEffect ==
    ASSUME TypeOK, RenameToBackup
    PROVE  /\ UNCHANGED <<phase, running, map, dirty, wpc, image, newest, saved, writes, crashes, stops>>
           /\ spc' \in SaverType /\ spc.at = "backup" /\ spc'.at = "collect" /\ spc'.by = spc.by
           /\ \/ UNCHANGED <<files, faults>> /\ main.state = "none"
              \/ bak' = main /\ main' = NoFile /\ main.state # "none" /\ UNCHANGED faults
              \/ Fault /\ UNCHANGED files
  BY AtEffect DEF RenameToBackup, SaverPc

LEMMA CollectEffect ==
    ASSUME TypeOK, Collect
    PROVE  /\ UNCHANGED <<phase, running, map, dirty, wpc, files, newest, saved, writes, counts>>
           /\ spc' \in SaverType /\ spc.at = "collect" /\ spc'.at = "open" /\ spc'.by = spc.by
           /\ image' = map
  BY AtEffect DEF Collect, SaverPc

LEMMA OpenEffect ==
    ASSUME TypeOK, OpenFile
    PROVE  /\ UNCHANGED <<running, map, dirty, wpc, image, bak, newest, saved, writes, crashes, stops>>
           /\ spc.at = "open"
           /\ \/ /\ spc' \in SaverType /\ spc'.at = "write" /\ spc'.by = spc.by
                 /\ main' = Parses(NoEntries) /\ UNCHANGED <<phase, faults>>
              \/ Fault /\ RoundEnds /\ UNCHANGED main
  BY AtEffect, RoundEnd DEF OpenFile, SaverPc

LEMMA WriteEffect ==
    ASSUME TypeOK, WriteFile
    PROVE  /\ UNCHANGED <<running, map, dirty, wpc, image, bak, newest, writes, crashes, stops>>
           /\ spc.at = "write" /\ RoundEnds
           /\ \/ main' = Parses(image) /\ saved' = image /\ UNCHANGED faults
              \/ Fault /\ main' \in PartOfImage /\ UNCHANGED saved
  BY RoundEnd DEF WriteFile

-----------------------------------------------------------------------------
(* Types *)

LEMMA StepType == TypeOK /\ PhaseInv /\ [Next]_vars => TypeOK'
  <1> SUFFICES ASSUME TypeOK, PhaseInv, [Next]_vars PROVE TypeOK'
    OBVIOUS
  <1> USE DEF files, counts
  <1>0. spc \in SaverType /\ image \in Entries /\ map \in Entries
    BY DEF TypeOK, SaverType
  <1>1. CASE StartUp
    <2>1. Loadable \in Entries
      BY DEF TypeOK, Loadable, File
    <2>2. spc' \in SaverType
      BY <1>1 DEF StartUp, SaverType, SaverPc
    <2>3. phase' \in {"down", "running", "stopping"} /\ running' = (phase' = "running") /\ dirty' \in BOOLEAN
      BY <1>1 DEF StartUp
    <2>5. map' \in Entries
      BY <1>1, <2>1 DEF StartUp
    <2>4. UNCHANGED <<wpc, image, files, newest, saved, writes, counts>>
      BY <1>1 DEF StartUp
    <2> QED
      BY <2>2, <2>3, <2>4, <2>5 DEF TypeOK, SaverType
  <1>2. ASSUME NEW w \in Writer, NEW t \in Tag, StoreEntry(w, t) PROVE TypeOK'
    <2>1. writes + 1 \in 0 .. MaxWrites
      BY <1>2, SnapshotAssumption DEF StoreEntry, TypeOK
    <2> QED
      BY <1>2, <2>1 DEF StoreEntry, TypeOK, Entries
  <1>3. ASSUME NEW w \in Writer, SetDirty(w) PROVE TypeOK'
    BY <1>3 DEF SetDirty, TypeOK
  <1>4. CASE EnterLoop \/ WakeUp \/ Joined
    <2>1. running' = running
      BY <1>4 DEF EnterLoop, WakeUp, Joined
    <2> QED
      BY <1>4, <2>1, LoopEffect DEF TypeOK, SaverType
  <1>5. ASSUME RoundEnds, running' = running
        PROVE  phase' \in {"down", "running", "stopping"} /\ running' = (phase' = "running")
    BY <1>5 DEF RoundEnds, TypeOK, PhaseInv
  <1>6. CASE ExchangeDirty
    <2>1. phase' \in {"down", "running", "stopping"} /\ running' = (phase' = "running") /\ spc' \in SaverType
      BY <1>5, <1>6, ExchangeEffect DEF TypeOK, RoundEnds
    <2> QED
      BY <1>6, <2>1, ExchangeEffect DEF TypeOK, SaverType
  <1>7. CASE RenameToBackup
    <2>1. faults' \in 0 .. MaxFaults
      BY <1>7, FaultCount, RenameEffect
    <2> QED
      BY <1>7, <2>1, RenameEffect, EntryTypes DEF TypeOK, SaverType
  <1>8. CASE Collect
    BY <1>8, CollectEffect DEF TypeOK, SaverType
  <1>9. CASE OpenFile
    <2>1. phase' \in {"down", "running", "stopping"} /\ running' = (phase' = "running") /\ spc' \in SaverType
      BY <1>5, <1>9, OpenEffect DEF TypeOK, RoundEnds
    <2>2. faults' \in 0 .. MaxFaults /\ main' \in File
      BY <1>9, FaultCount, OpenEffect, EntryTypes DEF TypeOK
    <2> QED
      BY <1>9, <2>1, <2>2, OpenEffect DEF TypeOK, SaverType
  <1>10. CASE WriteFile
    <2>1. phase' \in {"down", "running", "stopping"} /\ running' = (phase' = "running") /\ spc' \in SaverType
      BY <1>5, <1>10, WriteEffect DEF RoundEnds
    <2>2. faults' \in 0 .. MaxFaults /\ main' \in File /\ saved' \in Entries
      BY <1>0, <1>10, FaultCount, WriteEffect, EntryTypes, PartType DEF TypeOK
    <2> QED
      BY <1>10, <2>1, <2>2, WriteEffect DEF TypeOK, SaverType
  <1>11. CASE ClearRunning
    <2>1. stops' \in 0 .. MaxStops
      BY <1>11, SnapshotAssumption DEF ClearRunning, TypeOK
    <2> QED
      BY <1>11, <2>1 DEF ClearRunning, TypeOK
  <1>12. CASE Crash
    <2>1. crashes' \in 0 .. MaxCrashes
      BY <1>12, SnapshotAssumption DEF Crash, TypeOK
    <2>2. main' \in File
      BY <1>0, <1>12, PartType DEF Crash, TypeOK
    <2>3. spc' \in SaverType
      BY <1>12 DEF Crash, SaverType, SaverPc
    <2> QED
      BY <1>12, <2>1, <2>2, <2>3, EntryTypes DEF Crash, TypeOK, SaverType
  <1>13. CASE UNCHANGED vars
    BY <1>13 DEF vars, TypeOK
  <1> QED
    BY <1>1, <1>2, <1>3, <1>4, <1>6, <1>7, <1>8, <1>9, <1>10, <1>11, <1>12, <1>13 DEF Next, SaverStep

LEMMA StepPhase == TypeOK /\ PhaseInv /\ [Next]_vars => PhaseInv'
  <1> SUFFICES ASSUME TypeOK, PhaseInv, [Next]_vars PROVE PhaseInv'
    OBVIOUS
  <1> USE DEF files, counts
  <1>0. \A w \in Writer : wpc[w] \in {"idle", "stored"}
    BY DEF TypeOK
  <1>1. CASE StartUp
    BY <1>1 DEF StartUp, PhaseInv, InSave
  <1>2. ASSUME NEW w \in Writer, NEW t \in Tag, StoreEntry(w, t) PROVE PhaseInv'
    BY <1>2 DEF StoreEntry, PhaseInv
  <1>3. ASSUME NEW w \in Writer, SetDirty(w) PROVE PhaseInv'
    <2>1. wpc[w] # "idle" /\ UNCHANGED <<phase, spc>>
      BY <1>3 DEF SetDirty
    <2>2. phase = "running"
      BY <2>1 DEF PhaseInv
    <2> QED
      BY <2>1, <2>2 DEF PhaseInv
  <1>4. CASE EnterLoop \/ WakeUp \/ Joined
    BY <1>4, LoopEffect DEF PhaseInv
  <1>5. ASSUME RoundEnds, wpc' = wpc, spc.at # "off" PROVE PhaseInv'
    BY <1>5 DEF RoundEnds, PhaseInv, InSave
  <1>6. CASE ExchangeDirty
    <2>1. CASE RoundEnds
      BY <1>5, <1>6, <2>1, ExchangeEffect
    <2>2. CASE spc'.at = "backup" /\ spc'.by = spc.by /\ UNCHANGED phase
      BY <1>6, <2>2, ExchangeEffect DEF PhaseInv
    <2> QED
      BY <1>6, <2>1, <2>2, ExchangeEffect
  <1>7. CASE RenameToBackup
    BY <1>7, RenameEffect DEF PhaseInv, InSave
  <1>8. CASE Collect
    BY <1>8, CollectEffect DEF PhaseInv, InSave
  <1>9. CASE OpenFile
    <2>1. CASE RoundEnds
      BY <1>5, <1>9, <2>1, OpenEffect
    <2>2. CASE spc'.at = "write" /\ spc'.by = spc.by /\ UNCHANGED phase
      BY <1>9, <2>2, OpenEffect DEF PhaseInv, InSave
    <2> QED
      BY <1>9, <2>1, <2>2, OpenEffect
  <1>10. CASE WriteFile
    BY <1>5, <1>10, WriteEffect
  <1>11. CASE ClearRunning
    BY <1>11 DEF ClearRunning, PhaseInv
  <1>12. CASE Crash
    BY <1>12 DEF Crash, PhaseInv
  <1>13. CASE UNCHANGED vars
    BY <1>13 DEF vars, PhaseInv
  <1> QED
    BY <1>1, <1>2, <1>3, <1>4, <1>6, <1>7, <1>8, <1>9, <1>10, <1>11, <1>12, <1>13 DEF Next, SaverStep

LEMMA InitTypes == Init => TypeOK /\ PhaseInv
  <1> SUFFICES ASSUME Init PROVE TypeOK /\ PhaseInv
    OBVIOUS
  <1>1. 0 \in 0 .. MaxWrites /\ 0 \in 0 .. MaxCrashes /\ 0 \in 0 .. MaxFaults /\ 0 \in 0 .. MaxStops
    BY SnapshotAssumption
  <1>2. spc \in SaverType /\ phase \in {"down", "running", "stopping"} /\ running = (phase = "running")
    BY DEF Init, SaverType, SaverPc
  <1>3. TypeOK
    BY <1>1, <1>2, EntryTypes DEF Init, TypeOK, SaverType
  <1>4. PhaseInv
    BY DEF Init, PhaseInv, InSave
  <1> QED
    BY <1>3, <1>4

\* The store keeps its type; no handler and no loop outlives running_.
THEOREM TypeCorrect == Spec => [](TypeOK /\ PhaseInv)
  <1> QED
    BY InitTypes, StepType, StepPhase, PTL DEF Spec

-----------------------------------------------------------------------------
(* What is in the files *)

\* The first crash or fault is never undone.
LEMMA StillClean ==
    ASSUME TypeOK, [Next]_vars, crashes' + faults' = 0
    PROVE  crashes + faults = 0 /\ ~Fault /\ ~Crash
  <1>0. crashes \in Nat /\ faults \in Nat
    BY Numbers
  <1>1. ~Fault \/ faults' = faults + 1
    BY DEF Fault
  <1>2. CASE Crash
    <2>1. crashes' = crashes + 1 /\ faults' = faults
      BY <1>2 DEF Crash, counts
    <2> QED
      BY <1>0, <2>1
  <1>3. CASE UNCHANGED <<crashes, faults>>
    <2>1. ~Fault
      BY <1>0, <1>1, <1>3
    <2>2. ~Crash
      BY <1>0, <1>3 DEF Crash
    <2> QED
      BY <1>3, <2>1, <2>2
  <1>4. CASE crashes' = crashes /\ faults' = faults + 1
    BY <1>0, <1>4
  <1>5. UNCHANGED <<crashes, faults>> \/ (crashes' = crashes /\ Fault) \/ Crash
    <2> USE DEF counts
    <2>1. ASSUME NEW w \in Writer, NEW t \in Tag, StoreEntry(w, t) PROVE UNCHANGED counts
      BY <2>1 DEF StoreEntry
    <2>2. ASSUME NEW w \in Writer, SetDirty(w) PROVE UNCHANGED counts
      BY <2>2 DEF SetDirty
    <2>3. CASE StartUp \/ ClearRunning \/ UNCHANGED vars
      BY <2>3 DEF StartUp, ClearRunning, vars
    <2>4. CASE SaverStep
      BY <2>4, LoopEffect, ExchangeEffect, RenameEffect, CollectEffect, OpenEffect, WriteEffect DEF SaverStep
    <2> QED
      BY <2>1, <2>2, <2>3, <2>4 DEF Next
  <1> QED
    BY <1>1, <1>2, <1>3, <1>4, <1>5

LEMMA StepSaved == TypeOK /\ PhaseInv /\ SavedInv /\ [Next]_vars => SavedInv'
  <1> SUFFICES ASSUME TypeOK, PhaseInv, SavedInv, [Next]_vars, crashes' + faults' = 0 PROVE SavedInv'
    BY DEF SavedInv
  <1> USE DEF files, counts
  <1>0. /\ ~Fault /\ ~Crash
        /\ main.state # "torn"
        /\ phase # "down" => map = newest
        /\ phase = "down" => main.entries = newest
        /\ Unannounced /\ phase # "down" =>
               /\ spc.at \notin InSave => main.entries = map
               /\ spc.at \in {"open", "write"} => image = map
    BY StillClean DEF SavedInv
  <1>1. CASE StartUp
    BY <1>0, <1>1 DEF StartUp, SavedInv, Loadable, InSave
  <1>2. ASSUME NEW w \in Writer, NEW t \in Tag, StoreEntry(w, t) PROVE SavedInv'
    <2>1. /\ phase = "running" /\ wpc'[w] = "stored" /\ UNCHANGED <<phase, main>>
          /\ map' = [map EXCEPT ![t] = writes + 1] /\ newest' = [newest EXCEPT ![t] = writes + 1]
      BY <1>2 DEF StoreEntry, TypeOK
    <2>2. ~Unannounced'
      BY <2>1 DEF Unannounced
    <2> QED
      BY <1>0, <2>1, <2>2 DEF SavedInv
  <1>3. ASSUME NEW w \in Writer, SetDirty(w) PROVE SavedInv'
    <2>1. phase # "down" /\ ~Unannounced' /\ UNCHANGED <<phase, map, newest, main>>
      BY <1>3 DEF SetDirty, PhaseInv, Unannounced
    <2> QED
      BY <1>0, <2>1 DEF SavedInv
  <1>4. CASE EnterLoop \/ WakeUp \/ Joined
    <2>1. /\ UNCHANGED <<phase, map, dirty, wpc, newest, main>>
          /\ spc.at \notin InSave /\ spc'.at \notin InSave
      BY <1>4, LoopEffect
    <2> QED
      BY <1>0, <2>1 DEF SavedInv, Unannounced, InSave
  <1>5. CASE ExchangeDirty
    <2>1. UNCHANGED <<map, wpc, newest, main, image>> /\ spc.at = "woken" /\ phase # "down"
      BY <1>5, ExchangeEffect DEF PhaseInv
    <2>2. CASE spc'.at = "backup" /\ UNCHANGED phase
      BY <1>0, <2>1, <2>2 DEF SavedInv, InSave
    <2>3. CASE ~dirty /\ RoundEnds
      <3>1. Unannounced' => Unannounced
        BY <2>1, <2>3 DEF Unannounced
      <3>2. phase' = "down" => Unannounced
        BY <2>1, <2>3 DEF RoundEnds, Unannounced, PhaseInv, TypeOK
      <3>3. spc'.at \notin InSave /\ phase' \in {phase, "down"}
        BY <2>3 DEF RoundEnds, InSave
      <3> QED
        BY <1>0, <2>1, <3>1, <3>2, <3>3 DEF SavedInv, InSave
    <2> QED
      BY <1>5, <2>2, <2>3, ExchangeEffect
  <1>6. CASE RenameToBackup
    <2>1. /\ UNCHANGED <<phase, map, newest>> /\ spc.at = "backup" /\ spc'.at = "collect"
          /\ main' \in {main, NoFile}
      BY <1>6, RenameEffect
    <2>2. phase # "down"
      BY <2>1 DEF PhaseInv
    <2> QED
      BY <1>0, <2>1, <2>2 DEF SavedInv, InSave, NoFile
  <1>7. CASE Collect
    <2>1. /\ UNCHANGED <<phase, map, newest, main>> /\ spc.at = "collect" /\ spc'.at = "open"
          /\ image' = map
      BY <1>7, CollectEffect
    <2>2. phase # "down"
      BY <2>1 DEF PhaseInv
    <2> QED
      BY <1>0, <2>1, <2>2 DEF SavedInv, InSave
  <1>8. CASE OpenFile
    <2>1. /\ UNCHANGED <<phase, map, dirty, wpc, newest, image>> /\ spc.at = "open" /\ spc'.at = "write"
          /\ main' = Parses(NoEntries)
      BY <1>0, <1>8, OpenEffect
    <2>2. phase # "down"
      BY <2>1 DEF PhaseInv
    <2> QED
      BY <1>0, <2>1, <2>2 DEF SavedInv, InSave, Unannounced, Parses
  <1>9. CASE WriteFile
    <2>1. /\ UNCHANGED <<map, dirty, wpc, newest>> /\ spc.at = "write" /\ main' = Parses(image) /\ RoundEnds
      BY <1>0, <1>9, WriteEffect
    <2>2. phase # "down"
      BY <2>1 DEF PhaseInv
    <2>3. main'.state # "torn" /\ main'.entries = image
      BY <2>1 DEF Parses
    <2>4. phase' = "down" => Unannounced
      BY <2>1, <2>2 DEF RoundEnds, Unannounced, PhaseInv, InSave
    <2>5. spc'.at \notin InSave /\ phase' \in {phase, "down"} /\ (Unannounced' <=> Unannounced)
      BY <2>1 DEF RoundEnds, InSave, Unannounced
    <2> QED
      BY <1>0, <2>1, <2>2, <2>3, <2>4, <2>5 DEF SavedInv, InSave
  <1>10. CASE ClearRunning
    <2>1. phase # "down" /\ phase' # "down" /\ UNCHANGED <<map, dirty, wpc, spc, image, main, newest>>
      BY <1>10 DEF ClearRunning
    <2> QED
      BY <1>0, <2>1 DEF SavedInv, Unannounced
  <1>11. CASE UNCHANGED vars
    BY <1>0, <1>11 DEF vars, SavedInv, Unannounced
  <1> QED
    BY <1>0, <1>1, <1>2, <1>3, <1>4, <1>5, <1>6, <1>7, <1>8, <1>9, <1>10, <1>11 DEF Next, SaverStep

\* No write falls between the thread's last save and the join: after clean
\* shutdowns Init loads exactly the last write to every tag.
THEOREM ShutdownSavesAll == Spec => []CleanShutdownSaves
  <1>1. Init => SavedInv
    BY DEF Init, SavedInv, NoFile
  <1>2. SavedInv => CleanShutdownSaves
    BY DEF SavedInv, CleanShutdownSaves, Loadable
  <1> QED
    BY <1>1, <1>2, StepSaved, TypeCorrect, PTL DEF Spec

LEMMA StepBackup == TypeOK /\ PhaseInv /\ BackupInv /\ [Next]_vars => BackupInv'
  <1> SUFFICES ASSUME TypeOK, PhaseInv, BackupInv, [Next]_vars, crashes' + faults' = 0, saved' # NoEntries
               PROVE  IF spc'.at \in InSave \ {"backup"} THEN bak' = Parses(saved') ELSE main' = Parses(saved')
    BY DEF BackupInv
  <1> DEFINE Goal == IF spc'.at \in InSave \ {"backup"} THEN bak' = Parses(saved') ELSE main' = Parses(saved')
  <1> USE DEF files, counts, InSave
  <1>0. /\ ~Fault /\ ~Crash
        /\ saved # NoEntries =>
              IF spc.at \in InSave \ {"backup"} THEN bak = Parses(saved) ELSE main = Parses(saved)
    BY StillClean DEF BackupInv
  <1>1. ASSUME spc.at \notin InSave \ {"backup"}, spc'.at \notin InSave \ {"backup"}, UNCHANGED <<main, saved>>
        PROVE  Goal
    BY <1>0, <1>1
  <1>2. CASE StartUp
    <2>1. spc.at = "off" /\ spc'.at = "starting" /\ UNCHANGED <<main, saved>>
      BY <1>2 DEF StartUp, PhaseInv
    <2> QED
      BY <1>1, <2>1
  <1>3. ASSUME UNCHANGED <<spc, main, bak, saved>> PROVE Goal
    BY <1>0, <1>3
  <1>4. ASSUME NEW w \in Writer, NEW t \in Tag, StoreEntry(w, t) PROVE Goal
    BY <1>3, <1>4 DEF StoreEntry
  <1>5. CASE ClearRunning \/ UNCHANGED vars \/ \E w \in Writer : SetDirty(w)
    BY <1>3, <1>5 DEF ClearRunning, vars, SetDirty
  <1>6. CASE EnterLoop \/ WakeUp \/ Joined
    BY <1>1, <1>6, LoopEffect
  <1>7. CASE ExchangeDirty
    <2>1. spc.at = "woken" /\ spc'.at \notin InSave \ {"backup"} /\ UNCHANGED <<main, saved>>
      BY <1>7, ExchangeEffect DEF RoundEnds
    <2> QED
      BY <1>1, <2>1
  <1>8. CASE RenameToBackup
    <2>1. spc.at = "backup" /\ spc'.at = "collect" /\ saved' = saved
      BY <1>8, RenameEffect
    <2>2. main = Parses(saved)
      BY <1>0, <2>1
    <2>3. bak' = main
      BY <1>0, <1>8, <2>2, RenameEffect DEF Parses
    <2> QED
      BY <2>1, <2>2, <2>3
  <1>9. CASE Collect
    BY <1>0, <1>9, CollectEffect
  <1>10. CASE OpenFile
    BY <1>0, <1>10, OpenEffect
  <1>11. CASE WriteFile
    BY <1>0, <1>11, WriteEffect DEF RoundEnds
  <1> QED
    BY <1>0, <1>2, <1>4, <1>5, <1>6, <1>7, <1>8, <1>9, <1>10, <1>11 DEF Next, SaverStep

\* At every moment up to the first crash or fault one of the two files is the
\* last completed save.
THEOREM SaveSurvives == Spec => []OneFileHoldsSave
  <1>1. Init => BackupInv
    BY DEF Init, BackupInv
  <1>2. TypeOK /\ BackupInv => OneFileHoldsSave
    <2> SUFFICES ASSUME TypeOK, BackupInv, crashes + faults = 0, saved # NoEntries
                 PROVE  \E f \in {main, bak} : f.state = "parses" /\ AtLeast(f.entries, saved)
      BY DEF OneFileHoldsSave
    <2>1. AtLeast(saved, saved)
      BY SnapshotAssumption DEF AtLeast, TypeOK, Entries
    <2>2. Parses(saved).state = "parses" /\ Parses(saved).entries = saved
      BY DEF Parses
    <2>3. main = Parses(saved) \/ bak = Parses(saved)
      BY DEF BackupInv
    <2> QED
      BY <2>1, <2>2, <2>3
  <1> QED
    BY <1>1, <1>2, StepBackup, TypeCorrect, PTL DEF Spec

-----------------------------------------------------------------------------
(* The abstract specification *)

LEMMA StillUnfailed ==
    ASSUME TypeOK, [Next]_vars, faults' = 0
    PROVE  faults = 0 /\ ~Fault
  <1>0. faults \in Nat
    BY Numbers
  <1>1. UNCHANGED faults \/ Fault
    <2> USE DEF counts
    <2>1. ASSUME NEW w \in Writer, NEW t \in Tag, StoreEntry(w, t) PROVE UNCHANGED faults
      BY <2>1 DEF StoreEntry
    <2>2. ASSUME NEW w \in Writer, SetDirty(w) PROVE UNCHANGED faults
      BY <2>2 DEF SetDirty
    <2>3. CASE StartUp \/ ClearRunning \/ Crash \/ UNCHANGED vars
      BY <2>3 DEF StartUp, ClearRunning, Crash, vars
    <2>4. CASE SaverStep
      BY <2>4, LoopEffect, ExchangeEffect, RenameEffect, CollectEffect, OpenEffect, WriteEffect DEF SaverStep
    <2> QED
      BY <2>1, <2>2, <2>3, <2>4 DEF Next
  <1> QED
    BY <1>0, <1>1 DEF Fault

\* Only the steps of a save touch what a start would load.
LEMMA LoadableStays == UNCHANGED <<main, bak>> => Loadable' = Loadable
  BY DEF Loadable

LEMMA StepAnnounced == TypeOK /\ PhaseInv /\ AnnouncedInv /\ [Next]_vars => AnnouncedInv'
  <1> SUFFICES ASSUME TypeOK, PhaseInv, AnnouncedInv, [Next]_vars, faults' = 0 PROVE AnnouncedInv'
    BY DEF AnnouncedInv
  <1> USE DEF files, counts
  <1>0. /\ ~Fault
        /\ Unannounced /\ phase # "down" =>
               /\ spc.at \notin InSave => Loadable = map
               /\ spc.at \in {"open", "write"} => image = map
    BY StillUnfailed DEF AnnouncedInv
  <1>1. CASE StartUp
    <2>1. map' = Loadable /\ UNCHANGED <<main, bak>> /\ spc'.at = "starting"
      BY <1>1 DEF StartUp
    <2> QED
      BY <2>1, LoadableStays DEF AnnouncedInv
  <1>2. ASSUME NEW w \in Writer, NEW t \in Tag, StoreEntry(w, t) PROVE AnnouncedInv'
    <2>1. wpc'[w] = "stored"
      BY <1>2 DEF StoreEntry, TypeOK
    <2> QED
      BY <2>1 DEF AnnouncedInv, Unannounced
  <1>3. ASSUME NEW w \in Writer, SetDirty(w) PROVE AnnouncedInv'
    BY <1>3 DEF SetDirty, AnnouncedInv, Unannounced
  <1>4. CASE EnterLoop \/ WakeUp \/ Joined
    <2>1. UNCHANGED <<phase, map, dirty, wpc, main, bak>> /\ spc.at \notin InSave /\ spc'.at \notin InSave
      BY <1>4, LoopEffect
    <2> QED
      BY <1>0, <2>1, LoadableStays DEF AnnouncedInv, Unannounced, InSave
  <1>5. CASE ExchangeDirty
    <2>1. UNCHANGED <<map, wpc, main, bak, image>> /\ spc.at = "woken" /\ phase # "down"
      BY <1>5, ExchangeEffect DEF PhaseInv
    <2>2. CASE spc'.at = "backup"
      BY <2>2 DEF AnnouncedInv, InSave
    <2>3. CASE ~dirty /\ RoundEnds
      <3>1. Unannounced' => Unannounced
        BY <2>1, <2>3 DEF Unannounced
      <3>2. spc'.at \notin InSave /\ spc.at \notin InSave
        BY <2>1, <2>3 DEF RoundEnds, InSave
      <3> QED
        BY <1>0, <2>1, <3>1, <3>2, LoadableStays DEF AnnouncedInv, InSave
    <2> QED
      BY <1>5, <2>2, <2>3, ExchangeEffect
  <1>6. CASE RenameToBackup
    BY <1>6, RenameEffect DEF AnnouncedInv, InSave
  <1>7. CASE Collect
    BY <1>7, CollectEffect DEF AnnouncedInv, InSave
  <1>8. CASE OpenFile
    <2>1. UNCHANGED <<phase, map, dirty, wpc, image>> /\ spc.at = "open" /\ spc'.at = "write"
      BY <1>0, <1>8, OpenEffect
    <2> QED
      BY <1>0, <2>1 DEF AnnouncedInv, InSave, Unannounced
  <1>9. CASE WriteFile
    <2>1. UNCHANGED <<map, dirty, wpc>> /\ spc.at = "write" /\ main' = Parses(image) /\ RoundEnds
      BY <1>0, <1>9, WriteEffect
    <2>2. phase # "down" /\ spc'.at \notin InSave
      BY <2>1 DEF PhaseInv, RoundEnds, InSave
    <2>3. Loadable' = image
      BY <2>1 DEF Loadable, Parses
    <2> QED
      BY <1>0, <2>1, <2>2, <2>3 DEF AnnouncedInv, InSave, Unannounced
  <1>10. CASE ClearRunning
    <2>1. phase # "down" /\ UNCHANGED <<map, dirty, wpc, spc, image, main, bak>>
      BY <1>10 DEF ClearRunning
    <2> QED
      BY <1>0, <2>1, LoadableStays DEF AnnouncedInv, Unannounced
  <1>11. CASE Crash
    BY <1>11 DEF Crash, AnnouncedInv
  <1>12. CASE UNCHANGED vars
    BY <1>0, <1>12, LoadableStays DEF vars, AnnouncedInv, Unannounced
  <1> QED
    BY <1>1, <1>2, <1>3, <1>4, <1>5, <1>6, <1>7, <1>8, <1>9, <1>10, <1>11, <1>12 DEF Next, SaverStep

\* When Shutdown returns, a start would load the map.
LEMMA EndSaved ==
    ASSUME TypeOK, PhaseInv, AnnouncedInv, ExchangeDirty \/ WriteFile, phase' = "down"
    PROVE  faults' > 0 \/ Loadable' = map'
  <1> SUFFICES ASSUME faults' = 0 PROVE Loadable' = map'
    <2>1. faults \in Nat /\ (UNCHANGED faults \/ Fault)
      BY Numbers, ExchangeEffect, WriteEffect DEF counts
    <2>2. faults' \in Nat
      BY <2>1 DEF Fault
    <2> QED
      BY <2>2
  <1>0. faults = 0 /\ ~Fault
    <2>1. [Next]_vars
      BY DEF Next, SaverStep
    <2> QED
      BY <2>1, StillUnfailed
  <1>1. phase # "down" /\ UNCHANGED map
    BY ExchangeEffect, WriteEffect DEF PhaseInv
  <1>2. CASE ExchangeDirty
    <2>1. ~dirty /\ RoundEnds /\ UNCHANGED <<main, bak>> /\ spc.at = "woken"
      BY <1>1, <1>2, ExchangeEffect DEF files
    <2>2. Unannounced /\ spc.at \notin InSave
      BY <1>1, <2>1 DEF RoundEnds, Unannounced, PhaseInv, InSave
    <2>3. Loadable = map
      BY <1>0, <1>1, <2>2 DEF AnnouncedInv
    <2> QED
      BY <1>1, <2>1, <2>3, LoadableStays
  <1>3. CASE WriteFile
    <2>1. RoundEnds /\ spc.at = "write" /\ main' = Parses(image)
      BY <1>0, <1>3, WriteEffect
    <2>2. Unannounced
      BY <1>1, <2>1 DEF RoundEnds, Unannounced, PhaseInv, InSave
    <2>3. image = map
      BY <1>0, <1>1, <2>1, <2>2 DEF AnnouncedInv
    <2> QED
      BY <1>1, <2>1, <2>3 DEF Loadable, Parses
  <1> QED
    BY <1>2, <1>3

\* Every step of the store is a step of the saved map, or none.
LEMMA StepImplements ==
    ASSUME TypeOK, TypeOK', PhaseInv, AnnouncedInv, [Next]_vars
    PROVE  [Saved!Next]_(Saved!vars)
  <1> USE DEF files, counts
  <1> DEFINE Stutter == UNCHANGED Saved!vars
  <1>0. Loadable' \in Saved!Entries /\ Saved!Nothing = NoEntries
    BY DEF TypeOK, Loadable, File, Saved!Entries, Entries, Saved!Nothing, NoEntries
  <1>1. CASE StartUp
    <2>1. /\ phase = "down" /\ phase' = "running" /\ spc.at = "off" /\ spc'.at = "starting"
          /\ map' = Loadable /\ UNCHANGED <<image, main, bak, faults>>
      BY <1>1 DEF StartUp, PhaseInv
    <2>2. Saved!Open
      BY <2>1, LoadableStays DEF Saved!Open, Replacing
    <2> QED
      BY <2>2 DEF Saved!Next
  <1>2. ASSUME NEW w \in Writer, NEW t \in Tag, StoreEntry(w, t) PROVE Saved!Next
    <2>1. writes + 1 \in 0 .. MaxWrites
      BY <1>2, SnapshotAssumption DEF StoreEntry, TypeOK
    <2>2. /\ phase = "running" /\ map' = [map EXCEPT ![t] = writes + 1]
          /\ UNCHANGED <<phase, spc, image, main, bak, faults>>
      BY <1>2 DEF StoreEntry
    <2>3. Saved!Store(t, writes + 1)
      BY <2>2, LoadableStays DEF Saved!Store
    <2> QED
      BY <2>1, <2>3 DEF Saved!Next
  <1>3. ASSUME UNCHANGED <<map, image, main, bak, faults>>, spc.at \notin Replacing, spc'.at \notin Replacing,
               phase # "down", phase' # "down"
        PROVE  Stutter
    BY <1>3, LoadableStays DEF Saved!vars
  <1>4. ASSUME NEW w \in Writer, SetDirty(w) PROVE Stutter
    BY <1>4, LoadableStays DEF SetDirty, Saved!vars
  <1>5. CASE EnterLoop \/ WakeUp \/ Joined
    <2>1. spc.at \notin Replacing /\ spc'.at \notin Replacing /\ phase # "down"
      BY <1>5, LoopEffect DEF PhaseInv, InSave, Replacing
    <2> QED
      BY <1>3, <1>5, <2>1, LoopEffect
  <1>6. CASE ExchangeDirty
    <2>1. /\ UNCHANGED <<map, image, main, bak, faults>> /\ spc.at = "woken" /\ phase # "down"
          /\ spc'.at \notin Replacing
      BY <1>6, ExchangeEffect DEF PhaseInv, RoundEnds, Replacing
    <2>2. CASE phase' = "down"
      <3>1. Saved!Close
        BY <1>6, <2>1, <2>2, EndSaved, LoadableStays DEF Saved!Close, Saved!MayEnd, Replacing
      <3> QED
        BY <3>1 DEF Saved!Next
    <2>3. CASE phase' # "down"
      BY <1>3, <2>1, <2>3 DEF Replacing
    <2> QED
      BY <2>2, <2>3
  <1>7. CASE RenameToBackup
    <2>1. /\ UNCHANGED <<phase, map, image>> /\ spc.at = "backup" /\ spc'.at = "collect"
          /\ phase # "down"
      BY <1>7, RenameEffect DEF PhaseInv
    <2>2. (faults' > 0) \in {faults > 0, TRUE}
      <3>1. CASE UNCHANGED faults
        BY <3>1
      <3>2. CASE Fault
        <4>1. faults' > 0
          BY <3>2, Numbers DEF Fault
        <4> QED
          BY <4>1
      <3> QED
        BY <1>7, <3>1, <3>2, RenameEffect
    <2>3. Saved!Begin
      BY <1>0, <2>1, <2>2 DEF Saved!Begin, Replacing
    <2> QED
      BY <2>3 DEF Saved!Next
  <1>8. CASE Collect
    <2>1. Saved!Take
      BY <1>8, CollectEffect DEF Saved!Take, Replacing
    <2> QED
      BY <2>1 DEF Saved!Next
  <1>9. CASE OpenFile
    <2>1. UNCHANGED <<map, image>> /\ spc.at = "open" /\ phase # "down"
      BY <1>9, OpenEffect DEF PhaseInv
    <2>2. CASE spc'.at = "write" /\ UNCHANGED <<phase, faults>>
      BY <2>1, <2>2 DEF Saved!vars, Replacing
    <2>3. CASE Fault /\ RoundEnds
      <3>1. faults' > 0 /\ spc'.at \notin Replacing
        BY <2>3, Numbers DEF Fault, RoundEnds, Replacing
      <3>2. Saved!Spoil
        BY <1>0, <2>1, <3>1 DEF Saved!Spoil, Replacing
      <3> QED
        BY <3>2 DEF Saved!Next
    <2> QED
      BY <1>9, <2>2, <2>3, OpenEffect
  <1>10. CASE WriteFile
    <2>1. UNCHANGED <<map, image>> /\ spc.at = "write" /\ spc'.at \notin Replacing /\ phase # "down"
      BY <1>10, WriteEffect DEF PhaseInv, RoundEnds, Replacing
    <2>2. CASE main' = Parses(image) /\ UNCHANGED faults
      <3>1. Loadable' = image
        BY <2>2 DEF Loadable, Parses
      <3>2. phase' # "down" \/ faults' > 0 \/ Loadable' = map'
        BY <1>10, EndSaved
      <3>3. Saved!Keep
        BY <2>1, <2>2, <3>1, <3>2 DEF Saved!Keep, Saved!MayEnd, Replacing
      <3> QED
        BY <3>3 DEF Saved!Next
    <2>3. CASE Fault
      <3>1. faults' > 0
        BY <2>3, Numbers DEF Fault
      <3>2. Saved!Spoil
        BY <1>0, <2>1, <3>1 DEF Saved!Spoil, Replacing
      <3> QED
        BY <3>2 DEF Saved!Next
    <2> QED
      BY <1>10, <2>2, <2>3, WriteEffect
  <1>11. CASE ClearRunning
    BY <1>11, LoadableStays DEF ClearRunning, Saved!vars
  <1>12. CASE Crash
    <2>1. /\ phase # "down" /\ phase' = "down" /\ map' = NoEntries /\ image' = NoEntries
          /\ spc'.at = "off" /\ UNCHANGED <<bak, faults>>
      BY <1>12 DEF Crash
    <2>2. spc.at \notin Replacing => Loadable' = Loadable
      BY <1>12, LoadableStays DEF Crash, Replacing
    <2>3. Saved!Crash
      BY <1>0, <2>1, <2>2 DEF Saved!Crash, Replacing
    <2> QED
      BY <2>3 DEF Saved!Next
  <1>13. CASE UNCHANGED vars
    BY <1>13, LoadableStays DEF vars, Saved!vars
  <1> QED
    BY <1>1, <1>2, <1>4, <1>5, <1>6, <1>7, <1>8, <1>9, <1>10, <1>11, <1>12, <1>13 DEF Next, SaverStep

\* The snapshot store, with its files, its flag and its threads, is a map with
\* save points: after any crashes and failures a start finds the last save.
THEOREM StoreIsSavedMap == Spec => ImplementsSavedMap
  <1>1. Init => AnnouncedInv
    BY DEF Init, AnnouncedInv
  <1>2. Spec => []AnnouncedInv
    BY <1>1, StepAnnounced, TypeCorrect, PTL DEF Spec
  <1>3. Init => Saved!Init
    <2> SUFFICES ASSUME Init PROVE Saved!Init
      OBVIOUS
    <2>1. Loadable = NoEntries
      BY DEF Init, Loadable, NoFile
    <2> QED
      BY <2>1 DEF Init, Saved!Init, Saved!Nothing, NoEntries, Replacing
  <1> QED
    BY <1>2, <1>3, StepImplements, TypeCorrect, PTL DEF Spec, ImplementsSavedMap, Saved!Spec

-----------------------------------------------------------------------------
(* Shutdown *)

\* A step that brings Shutdown nearer to its end, or ends it.
Nearer == phase' = "down" \/ (phase' = "stopping" /\ Stage' > Stage)

LEMMA StageRises ==
    ASSUME TypeOK, spc' \in SaverType, spc'.by = spc.by,
           \/ spc.at \in {"starting", "waiting"} /\ spc'.at \in {"woken", "exited"}
           \/ spc.at = "woken" /\ spc'.at \in {"backup", "exited"}
           \/ spc.at = "backup" /\ spc'.at = "collect"
           \/ spc.at = "collect" /\ spc'.at = "open"
           \/ spc.at = "open" /\ spc'.at \in {"write", "exited"}
           \/ spc.at = "write" /\ spc'.at = "exited"
    PROVE  Stage' > Stage
  <1>1. spc.by \in {"loop", "shutdown"}
    BY DEF TypeOK
  <1>2. CASE spc.by = "loop"
    BY <1>2 DEF Stage
  <1>3. CASE spc.by = "shutdown"
    BY <1>3 DEF Stage
  <1> QED
    BY <1>1, <1>2, <1>3

\* The test of running_ at the end of a round ends the thread.
LEMMA RoundIsLast ==
    ASSUME TypeOK, phase = "stopping", SaverAt(Finished), EndPhase
    PROVE  \/ phase' = "down"
           \/ /\ phase' = "stopping" /\ spc' \in SaverType
              /\ spc'.at = "exited" /\ spc'.by = spc.by
  <1>1. CASE spc.by = "loop"
    <2>1. ~running
      BY DEF TypeOK
    <2>2. Finished = "exited"
      BY <1>1, <2>1 DEF Finished, LoopTest
    <2>3. phase' = phase
      BY <1>1 DEF EndPhase
    <2> QED
      BY <2>2, <2>3, AtEffect DEF SaverPc
  <1>2. CASE spc.by # "loop"
    BY <1>2 DEF EndPhase
  <1> QED
    BY <1>1, <1>2

LEMMA SaverNears ==
    ASSUME TypeOK, LastSaveInv, phase = "stopping", SaverStep
    PROVE  Nearer
  <1> USE DEF Nearer
  <1>1. CASE EnterLoop
    <2>1. LoopTest = "exited"
      BY DEF LoopTest, TypeOK
    <2>2. spc.at = "starting" /\ phase' = "stopping" /\ SaverAt("exited")
      BY <1>1, <2>1 DEF EnterLoop
    <2> QED
      BY <2>2, AtEffect, StageRises DEF SaverPc
  <1>2. CASE WakeUp
    <2>1. spc.at = "waiting" /\ phase' = "stopping" /\ SaverAt("woken")
      BY <1>2 DEF WakeUp
    <2> QED
      BY <2>1, AtEffect, StageRises DEF SaverPc
  <1>3. CASE ExchangeDirty
    <2>1. CASE dirty
      <3>1. spc.at = "woken" /\ phase' = "stopping" /\ SaverAt("backup")
        BY <1>3, <2>1 DEF ExchangeDirty
      <3> QED
        BY <3>1, AtEffect, StageRises DEF SaverPc
    <2>2. CASE ~dirty
      <3>1. spc.at = "woken" /\ SaverAt(Finished) /\ EndPhase
        BY <1>3, <2>2 DEF ExchangeDirty
      <3> QED
        BY <3>1, RoundIsLast, StageRises
    <2> QED
      BY <2>1, <2>2
  <1>4. CASE RenameToBackup
    BY <1>4, RenameEffect, StageRises
  <1>5. CASE Collect
    BY <1>5, CollectEffect, StageRises
  <1>6. CASE OpenFile
    <2>1. CASE SaverAt("write") /\ UNCHANGED phase
      BY <1>6, <2>1, AtEffect, StageRises DEF OpenFile, SaverPc
    <2>2. CASE SaverAt(Finished) /\ EndPhase
      BY <1>6, <2>2, RoundIsLast, StageRises DEF OpenFile
    <2> QED
      BY <1>6, <2>1, <2>2 DEF OpenFile
  <1>7. CASE WriteFile
    BY <1>7, RoundIsLast, StageRises DEF WriteFile
  <1>8. CASE Joined
    <2>1. /\ spc.at = "exited" /\ spc' = [at |-> "woken", by |-> "shutdown"]
          /\ phase' = "stopping"
      BY <1>8 DEF Joined
    <2>2. spc.by = "loop"
      BY <2>1 DEF TypeOK, LastSaveInv, InSave
    <2> QED
      BY <2>1, <2>2 DEF Stage
  <1> QED
    BY <1>1, <1>2, <1>3, <1>4, <1>5, <1>6, <1>7, <1>8 DEF SaverStep

LEMMA StepLastSave == TypeOK /\ LastSaveInv /\ [Next]_vars => LastSaveInv'
  <1> SUFFICES ASSUME TypeOK, LastSaveInv, [Next]_vars PROVE LastSaveInv'
    OBVIOUS
  <1> USE DEF LastSaveInv, InSave
  <1>1. CASE StartUp \/ Crash
    BY <1>1 DEF StartUp, Crash
  <1>2. CASE EnterLoop \/ WakeUp
    <2>1. spc.by = "loop"
      BY <1>2 DEF EnterLoop, WakeUp, TypeOK
    <2>2. spc'.by = spc.by
      BY <1>2 DEF EnterLoop, WakeUp, SaverAt, TypeOK
    <2> QED
      BY <2>1, <2>2
  <1>3. CASE Joined
    BY <1>3 DEF Joined
  <1>4. CASE ExchangeDirty
    BY <1>4, ExchangeEffect DEF RoundEnds
  <1>5. CASE RenameToBackup \/ Collect
    BY <1>5, RenameEffect, CollectEffect
  <1>6. CASE OpenFile \/ WriteFile
    BY <1>6, OpenEffect, WriteEffect DEF RoundEnds
  <1>7. CASE (\E w \in Writer : SetDirty(w) \/ \E t \in Tag : StoreEntry(w, t)) \/ ClearRunning
    BY <1>7 DEF SetDirty, StoreEntry, ClearRunning
  <1>8. CASE UNCHANGED vars
    BY <1>8 DEF vars
  <1> QED
    BY <1>1, <1>2, <1>3, <1>4, <1>5, <1>6, <1>7, <1>8 DEF Next, SaverStep

\* Nothing but the saving thread moves while Shutdown waits for it.
LEMMA OthersDoNotDelay ==
    ASSUME [Next]_vars, phase = "stopping", ~SaverStep
    PROVE  phase' = "down" \/ UNCHANGED <<phase, spc>>
  <1>1. ~StartUp /\ ~ClearRunning
    BY DEF StartUp, ClearRunning
  <1>2. CASE \E w \in Writer : SetDirty(w) \/ \E t \in Tag : StoreEntry(w, t)
    BY <1>2 DEF SetDirty, StoreEntry
  <1>3. CASE Crash
    BY <1>3 DEF Crash
  <1>4. CASE UNCHANGED vars
    BY <1>4 DEF vars
  <1> QED
    BY <1>1, <1>2, <1>3, <1>4 DEF Next

\* Shutdown is at most twelve steps of the saving thread and of its own save away
\* from its end: one more round of the thread, if it wakes up with the flag set,
\* and one save after the join.
THEOREM ShutdownIsBounded == Spec => ShutdownAdvances
  <1>1. Init => LastSaveInv
    BY DEF Init, LastSaveInv
  <1>2. TypeOK /\ LastSaveInv /\ [Next]_vars =>
            [phase = "stopping" =>
                 \/ phase' = "down"
                 \/ IF SaverStep THEN phase' = "stopping" /\ Stage' > Stage
                                 ELSE UNCHANGED <<phase, spc>>]_vars
    BY SaverNears, OthersDoNotDelay DEF Nearer
  <1> QED
    BY <1>1, <1>2, StepLastSave, TypeCorrect, PTL DEF Spec, ShutdownAdvances
=============================================================================
