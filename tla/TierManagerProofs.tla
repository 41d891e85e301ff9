-------------------------- MODULE TierManagerProofs --------------------------
(***************************************************************************)
(* Type correctness of the tier manager, the safety of the files it moves, *)
(* archives and deletes, that it implements RetainedFlushes, and that its  *)
(* worker stops, for any retention times, volumes, buffers and bounds.     *)
(***************************************************************************)
EXTENDS TierManager, TLAPS

Slot == File \union {NoFile}

\* The files of the three tiers and the numbers they consist of.
LEMMA TierTypes ==
    ASSUME TypeOK
    PROVE  /\ hot \in [Name -> Slot] /\ cold \in [Name -> Slot] /\ archive \in [Name -> Slot]
           /\ now \in Int /\ cutoff \in Int /\ flushes \in Int /\ faults \in Int /\ crashes \in Int
           /\ HotDays \in Nat \ {0} /\ ColdDays \in Nat
           /\ \A n \in Name : n.day \in Int
  BY TierAssumption DEF TypeOK, Slot, Name, Day

LEMMA FileFacts ==
    /\ NoFile.id = -1
    /\ \A f \in File : f # NoFile /\ f.id \in 0 .. MaxFlushes /\ f.mtime \in Day
    /\ \A d \in Day, i \in 0 .. MaxFlushes : [mtime |-> d, id |-> i] \in File
  BY DEF NoFile, File

LEMMA SlotFacts == \A f \in Slot : f.id \in Int /\ (f # NoFile => f \in File)
  BY FileFacts DEF Slot

\* A day ago, as cutoff keeps it.
LEMMA CutoffType ==
    ASSUME TypeOK
    PROVE  /\ DaysAgo(HotDays) \in -(HotDays + ColdDays) .. MaxDay
           /\ DaysAgo(ColdDays) \in -(HotDays + ColdDays) .. MaxDay
  BY TierAssumption DEF TypeOK, DaysAgo, Day

LEMMA FaultType == TypeOK /\ (Fault \/ UNCHANGED faults) => faults' \in 0 .. MaxFaults
  BY TierAssumption DEF Fault, TypeOK

-----------------------------------------------------------------------------
(* The steps *)

\* The steps of the worker that leave the tiers alone.
LookingStep ==
    WorkerExit \/ ListHot \/ TestTagDir \/ RemoveTagDir \/ ListCold \/ RoundDone

\* The steps outside flush and worker.
OtherStep == FlushFails \/ Start \/ Stop \/ Crash \/ Tick \/ UNCHANGED vars

LEMMA NextSteps ==
    ASSUME [Next]_vars
    PROVE  \/ \E t \in Ts : FlushMkdir(t)
           \/ FlushOpen \/ FlushClose
           \/ \E n \in toVisit : MoveFile(n) \/ PruneFile(n)
           \/ OpenCopy \/ FillCopy \/ UnlinkHot \/ DeleteCold
           \/ LookingStep \/ OtherStep
  BY DEF Next, WorkerStep, LookingStep, OtherStep

LEMMA LookingEffect ==
    ASSUME LookingStep
    PROVE  /\ UNCHANGED <<now, hot, cold, archive, flush, running, cur, born, rewritten, flushes,
                          crashes>>
           /\ Fault \/ UNCHANGED faults
           /\ dirExists' \in {dirExists, Holding(hot) # {}}
           /\ toVisit' \in {toVisit, {}, Holding(hot), Holding(cold)}
           /\ cutoff' \in {cutoff, DaysAgo(HotDays), DaysAgo(ColdDays)}
           /\ tpc' \in {"stopped", "waiting", "moving", "removingDir", "pruneNext", "pruning"}
  BY DEF LookingStep, WorkerExit, ListHot, TestTagDir, RemoveTagDir, ListCold, RoundDone, tiers, work, past

LEMMA OtherEffect ==
    ASSUME OtherStep
    PROVE  /\ UNCHANGED <<dirExists, hot, cold, archive, cutoff, cur, born, rewritten, flushes>>
           /\ Fault \/ UNCHANGED faults
           /\ \/ now' = now
              \/ now < MaxDay /\ now' = now + 1 /\ flush.at = "idle" /\ UNCHANGED faults
           /\ \/ crashes' = crashes
              \/ crashes < MaxCrashes /\ crashes' = crashes + 1
           /\ flush' = flush \/ flush' = [flush EXCEPT !.at = "idle"]
           /\ \/ tpc' = tpc /\ toVisit' = toVisit
              \/ tpc' = "waiting" /\ toVisit' = toVisit
              \/ tpc' = "stopped" /\ toVisit' = {}
  <1> USE DEF tiers, work, past
  <1>1. CASE Start
    BY <1>1 DEF Start
  <1>2. CASE Stop
    BY <1>2 DEF Stop
  <1>3. CASE Crash
    BY <1>3 DEF Crash
  <1>4. CASE Tick
    BY <1>4 DEF Tick
  <1>5. CASE UNCHANGED vars
    BY <1>5 DEF vars
  <1>6. CASE FlushFails
    BY <1>6 DEF FlushFails
  <1> QED
    BY <1>1, <1>2, <1>3, <1>4, <1>5, <1>6 DEF OtherStep

LEMMA StepType == TypeOK /\ FlushInv /\ WorkInv /\ [Next]_vars => TypeOK'
  <1> SUFFICES ASSUME TypeOK, FlushInv, WorkInv, [Next]_vars PROVE TypeOK'
    OBVIOUS
  <1> USE DEF tiers, work, past
  <1>0. /\ hot \in [Name -> Slot] /\ cold \in [Name -> Slot] /\ archive \in [Name -> Slot]
        /\ now \in Day /\ 0 \in 0 .. MaxFlushes
        /\ NoFile \in Slot /\ File \subseteq Slot
    BY TierTypes, TierAssumption DEF TypeOK, Slot
  <1>1. ASSUME NEW t \in Ts, FlushMkdir(t) PROVE TypeOK'
    <2>1. flushes' \in 0 .. MaxFlushes
      BY <1>1, TierAssumption DEF FlushMkdir, TypeOK
    <2>2. SstName(t) \in Name
      BY <1>0 DEF SstName, Name
    <2> QED
      BY <1>1, <2>1, <2>2 DEF FlushMkdir, TypeOK
  <1>2. CASE FlushOpen
    <2>1. [mtime |-> now, id |-> 0] \in Slot
      BY <1>0, FileFacts
    <2>2. hot' \in [Name -> Slot]
      BY <1>0, <1>2, <2>1 DEF FlushOpen, TypeOK
    <2>3. flush' \in [at : {"idle", "mkdir", "writing"}, name : Name] /\ rewritten' \in BOOLEAN
      BY <1>2 DEF FlushOpen, TypeOK
    <2> QED
      BY <1>2, <2>2, <2>3 DEF FlushOpen, TypeOK, Slot
  <1>3. CASE FlushClose
    <2>0. flushes \in FlushId /\ flushes \in 0 .. MaxFlushes
      BY <1>3, TierAssumption DEF FlushClose, FlushInv, TypeOK, FlushId
    <2>1. [mtime |-> now, id |-> flushes] \in Slot
      BY <1>0, <2>0, FileFacts
    <2>2. hot' \in [Name -> Slot] /\ born' \in [FlushId -> Day \union {-1}]
      BY <1>0, <1>3, <2>0, <2>1 DEF FlushClose, TypeOK
    <2>3. flush' \in [at : {"idle", "mkdir", "writing"}, name : Name]
      BY <1>3 DEF FlushClose, TypeOK
    <2> QED
      BY <1>3, <2>2, <2>3 DEF FlushClose, TypeOK, Slot
  <1>4. ASSUME NEW n \in toVisit, MoveFile(n) PROVE TypeOK'
    <2>0. n \in Name
      BY DEF TypeOK
    <2>1. hot' \in [Name -> Slot] /\ cold' \in [Name -> Slot] /\ cur' \in Name
      BY <1>0, <1>4, <2>0 DEF MoveFile, TypeOK
    <2>2. faults' \in 0 .. MaxFaults
      BY <1>4, FaultType DEF MoveFile
    <2>3. tpc' \in WorkerPc /\ toVisit' \subseteq Name
      BY <1>4 DEF MoveFile, TypeOK, WorkerPc
    <2> QED
      BY <1>4, <2>1, <2>2, <2>3 DEF MoveFile, TypeOK, Slot
  <1>5. CASE OpenCopy
    <2>1. cold' \in [Name -> Slot]
      BY <1>0, <1>5, FileFacts DEF OpenCopy, TypeOK
    <2>2. faults' \in 0 .. MaxFaults
      BY <1>5, FaultType DEF OpenCopy
    <2> QED
      BY <1>5, <2>1, <2>2 DEF OpenCopy, TypeOK, Slot, WorkerPc
  <1>6. CASE FillCopy
    <2>0. hot[cur].id \in 0 .. MaxFlushes
      BY <1>0, <1>6, SlotFacts, FileFacts DEF FillCopy, WorkInv, Expired, TypeOK
    <2>1. cold' \in [Name -> Slot]
      BY <1>0, <1>6, <2>0, FileFacts DEF FillCopy, TypeOK
    <2>2. faults' \in 0 .. MaxFaults
      BY <1>6, FaultType DEF FillCopy
    <2> QED
      BY <1>6, <2>1, <2>2 DEF FillCopy, TypeOK, Slot, WorkerPc, AfterFailedCopy
  <1>7. CASE UnlinkHot
    <2>1. hot' \in [Name -> Slot]
      BY <1>0, <1>7 DEF UnlinkHot, RemoveOriginal, TypeOK
    <2>2. faults' \in 0 .. MaxFaults
      BY <1>7, FaultType DEF UnlinkHot, RemoveOriginal
    <2> QED
      BY <1>7, <2>1, <2>2 DEF UnlinkHot, TypeOK, Slot, WorkerPc
  <1>8. ASSUME NEW n \in toVisit, PruneFile(n) PROVE TypeOK'
    <2>0. n \in Name
      BY DEF TypeOK
    <2>1. cold' \in [Name -> Slot] /\ archive' \in [Name -> Slot] /\ cur' \in Name
      BY <1>0, <1>8, <2>0 DEF PruneFile, ArchiveToExternal, TypeOK
    <2>2. faults' \in 0 .. MaxFaults
      BY <1>8, FaultType DEF PruneFile, ArchiveToExternal
    <2>3. tpc' \in WorkerPc /\ toVisit' \subseteq Name
      BY <1>8 DEF PruneFile, TypeOK, WorkerPc
    <2> QED
      BY <1>8, <2>1, <2>2, <2>3 DEF PruneFile, TypeOK, Slot
  <1>9. CASE DeleteCold
    <2>1. cold' \in [Name -> Slot]
      BY <1>0, <1>9 DEF DeleteCold, TypeOK
    <2>2. faults' \in 0 .. MaxFaults
      BY <1>9, FaultType DEF DeleteCold
    <2> QED
      BY <1>9, <2>1, <2>2 DEF DeleteCold, TypeOK, Slot, WorkerPc
  <1>10. CASE LookingStep
    <2>1. toVisit' \subseteq Name
      BY <1>10, LookingEffect DEF TypeOK, Holding
    <2>2. dirExists' \in BOOLEAN /\ tpc' \in WorkerPc
      BY <1>10, LookingEffect DEF TypeOK, WorkerPc
    <2>3. cutoff' \in -(HotDays + ColdDays) .. MaxDay
      BY <1>10, LookingEffect, CutoffType DEF TypeOK
    <2> QED
      BY <1>10, <2>1, <2>2, <2>3, LookingEffect, FaultType DEF TypeOK
  <1>11. CASE OtherStep
    <2>1. now' \in Day /\ crashes' \in 0 .. MaxCrashes
      BY <1>11, OtherEffect, TierAssumption DEF TypeOK, Day
    <2>2. flush' \in [at : {"idle", "mkdir", "writing"}, name : Name]
      BY <1>11, OtherEffect DEF TypeOK
    <2>3. toVisit' \subseteq Name /\ tpc' \in WorkerPc
      BY <1>11, OtherEffect DEF TypeOK, WorkerPc
    <2>4. running' \in BOOLEAN
      BY <1>11, Zenon DEF OtherStep, FlushFails, Start, Stop, Crash, Tick, vars, TypeOK
    <2> QED
      BY <1>11, <2>1, <2>2, <2>3, <2>4, OtherEffect, FaultType DEF TypeOK
  <1> QED
    BY <1>1, <1>2, <1>3, <1>4, <1>5, <1>6, <1>7, <1>8, <1>9, <1>10, <1>11, NextSteps

-----------------------------------------------------------------------------
(* What each tier holds under a name *)

\* The worker touches no file that a flush is writing.
LEMMA ExpiredIsOld ==
    ASSUME TypeOK, NameInv, WorkInv, tpc \in InMove, NEW n \in Name, Expired(hot, n)
    PROVE  hot[n] # NoFile /\ n.day = hot[n].mtime /\ n.day < cutoff /\ n.day < now - HotDays /\ n.day < now
  BY TierTypes DEF NameInv, WorkInv, Expired

\* A step of the worker moves, copies or removes the file of one name.
TierStep(n) ==
    \/ n \in toVisit /\ (MoveFile(n) \/ PruneFile(n))
    \/ n = cur /\ (OpenCopy \/ FillCopy \/ UnlinkHot \/ DeleteCold)

LEMMA TierStepEffect ==
    ASSUME TypeOK, NameInv, WorkInv, NEW n, TierStep(n)
    PROVE  /\ n \in Name
           /\ UNCHANGED <<now, dirExists, flush, running, cutoff, born, rewritten, flushes, crashes>>
           /\ \A m \in Name : m # n => hot'[m] = hot[m] /\ cold'[m] = cold[m] /\ archive'[m] = archive[m]
           /\ hot'[n] \in {hot[n], NoFile}
           /\ archive'[n] \in {archive[n], cold[n]}
           /\ toVisit' \in {toVisit, toVisit \ {n}}
           /\ cur' \in {cur, n}
  <1> USE DEF tiers, work, past
  <1>1. n \in Name
    BY DEF TierStep, TypeOK
  <1>2. CASE MoveFile(n)
    BY <1>1, <1>2, TierTypes DEF MoveFile
  <1>3. CASE PruneFile(n)
    BY <1>1, <1>3, TierTypes DEF PruneFile, ArchiveToExternal
  <1>4. CASE n = cur /\ OpenCopy
    BY <1>1, <1>4, TierTypes DEF OpenCopy
  <1>5. CASE n = cur /\ FillCopy
    BY <1>1, <1>5, TierTypes DEF FillCopy
  <1>6. CASE n = cur /\ UnlinkHot
    BY <1>1, <1>6, TierTypes DEF UnlinkHot, RemoveOriginal
  <1>7. CASE n = cur /\ DeleteCold
    BY <1>1, <1>7, TierTypes DEF DeleteCold
  <1> QED
    BY <1>2, <1>3, <1>4, <1>5, <1>6, <1>7, <1>1 DEF TierStep

\* What comes into the cold tier is the expired file of the hot one, whole or
\* in part; what leaves it has outlived both retention times.
Stays(n) ==
    /\ cold'[n] = cold[n] /\ archive'[n] = archive[n]
    /\ \/ hot'[n] = hot[n]
       \/ hot'[n] = NoFile /\ cold[n] # NoFile /\ cold[n].id = hot[n].id

Arrives(n) ==
    /\ hot[n] # NoFile /\ n.day < cutoff /\ n.day < now - HotDays /\ tpc \in InMove
    /\ cold'[n] # NoFile /\ n.day <= cold'[n].mtime /\ archive'[n] = archive[n]
    /\ \/ cold'[n].id = hot[n].id
       \/ cold'[n].id = 0 /\ hot'[n] = hot[n]

Leaves(n) ==
    /\ cold'[n] = NoFile /\ hot'[n] = hot[n] /\ n.day < now - ColdDays /\ tpc \in InPrune
    /\ \/ archive'[n] = archive[n] /\ tpc = "deleting" /\ n = cur
       \/ archive'[n] = cold[n] /\ cold[n] # NoFile

LEMMA ColdEffect ==
    ASSUME TypeOK, NameInv, WorkInv, NEW n, TierStep(n)
    PROVE  Stays(n) \/ Arrives(n) \/ Leaves(n)
  <1> USE DEF tiers, work, past
  <1>0. n \in Name
    BY TierStepEffect
  <1>1. CASE MoveFile(n)
    <2>1. CASE ~Expired(hot, n)
      BY <1>1, <2>1 DEF MoveFile, Stays
    <2>2. CASE Expired(hot, n)
      <3>1. hot[n] # NoFile /\ n.day = hot[n].mtime /\ n.day < cutoff /\ n.day < now - HotDays /\ tpc \in InMove
        BY <1>0, <1>1, <2>2, ExpiredIsOld DEF MoveFile, InMove
      <3>2. n.day <= hot[n].mtime
        BY <1>0, <3>1, TierTypes
      <3>3. \/ hot'[n] = hot[n] /\ cold'[n] = cold[n] /\ archive'[n] = archive[n]
            \/ hot'[n] = NoFile /\ cold'[n] = hot[n] /\ archive'[n] = archive[n]
        BY <1>0, <1>1, <2>2, TierTypes DEF MoveFile
      <3> QED
        BY <3>1, <3>2, <3>3 DEF Stays, Arrives
    <2> QED
      BY <2>1, <2>2
  <1>2. CASE n = cur /\ (OpenCopy \/ FillCopy)
    <2>1. Expired(hot, n) /\ tpc \in InMove
      BY <1>2 DEF OpenCopy, FillCopy, WorkInv, InMove
    <2>2. hot[n] # NoFile /\ n.day < cutoff /\ n.day < now - HotDays /\ n.day <= now
      BY <1>0, <2>1, ExpiredIsOld, TierTypes
    <2>3. /\ hot'[n] = hot[n] /\ archive'[n] = archive[n]
          /\ \/ cold'[n] = cold[n]
             \/ cold'[n] = [mtime |-> now, id |-> 0]
             \/ cold'[n] = [mtime |-> now, id |-> hot[n].id]
      BY <1>0, <1>2, TierTypes DEF OpenCopy, FillCopy
    <2>4. hot[n].id # -1
      BY <1>0, <2>2, TierTypes, SlotFacts, FileFacts
    <2> QED
      BY <2>1, <2>2, <2>3, <2>4 DEF NoFile, Stays, Arrives
  <1>3. CASE n = cur /\ UnlinkHot
    BY <1>0, <1>3, TierTypes DEF UnlinkHot, RemoveOriginal, WorkInv, Stays
  <1>4. CASE PruneFile(n)
    <2>1. CASE ~Expired(cold, n)
      BY <1>4, <2>1 DEF PruneFile, Stays
    <2>2. CASE Expired(cold, n)
      <3>1. cold[n] # NoFile /\ n.day <= cold[n].mtime /\ cold[n].mtime < cutoff /\ cutoff <= now - ColdDays
            /\ tpc = "pruning"
        BY <1>0, <1>4, <2>2 DEF PruneFile, Expired, NameInv, WorkInv
      <3>2. cold[n].mtime \in Int
        BY <1>0, <3>1, TierTypes, SlotFacts DEF File, Day
      <3>3. n.day < now - ColdDays
        BY <1>0, <3>1, <3>2, TierTypes
      <3>4. /\ hot'[n] = hot[n]
            /\ \/ cold'[n] = cold[n] /\ archive'[n] = archive[n]
               \/ cold'[n] = NoFile /\ archive'[n] = cold[n]
        BY <1>0, <1>4, <2>2, TierTypes DEF PruneFile, ArchiveToExternal
      <3> QED
        BY <3>1, <3>3, <3>4 DEF InPrune, Stays, Leaves
    <2> QED
      BY <2>1, <2>2
  <1>5. CASE n = cur /\ DeleteCold
    <2>1. n.day < now - ColdDays /\ tpc = "deleting"
      BY <1>5 DEF DeleteCold, WorkInv
    <2>2. hot'[n] = hot[n] /\ archive'[n] = archive[n] /\ cold'[n] \in {cold[n], NoFile}
      BY <1>0, <1>5, TierTypes DEF DeleteCold
    <2> QED
      BY <1>5, <2>1, <2>2 DEF InPrune, Stays, Leaves
  <1> QED
    BY <1>1, <1>2, <1>3, <1>4, <1>5 DEF TierStep

-----------------------------------------------------------------------------
(* The invariants *)

IInv == TypeOK /\ FlushInv /\ NameInv /\ WorkInv

LEMMA StepCases ==
    ASSUME [Next]_vars
    PROVE  \/ \E t \in Ts : FlushMkdir(t)
           \/ FlushOpen \/ FlushClose
           \/ \E n : TierStep(n)
           \/ LookingStep \/ OtherStep
  BY NextSteps DEF TierStep

\* A flush begins or opens its file: that of today's name is new or truncated.
LEMMA OpenEffect ==
    ASSUME IInv, FlushOpen
    PROVE  /\ UNCHANGED <<now, cold, archive, tpc, cutoff, toVisit, cur, born, flushes, faults>>
           /\ flush.at = "mkdir" /\ flush'.name = flush.name /\ flush.name \in Name /\ flush.name.day = now
           /\ \/ ~dirExists /\ hot' = hot /\ flush'.at = "idle" /\ rewritten' = rewritten
              \/ /\ dirExists /\ flush'.at = "writing"
                 /\ hot' = [hot EXCEPT ![flush.name] = [mtime |-> now, id |-> 0]]
                 /\ rewritten' = (rewritten \/ hot[flush.name] # NoFile)
           /\ dirExists' = dirExists
  BY DEF FlushOpen, IInv, TypeOK, FlushInv, work

LEMMA CloseEffect ==
    ASSUME IInv, FlushClose
    PROVE  /\ UNCHANGED <<now, dirExists, cold, archive, tpc, cutoff, toVisit, cur, rewritten, flushes, faults>>
           /\ flush.name \in Name /\ flush.name.day = now /\ flush'.at = "idle"
           /\ flushes \in FlushId /\ born[flushes] = -1 /\ born' = [born EXCEPT ![flushes] = now]
           /\ hot[flush.name] = [mtime |-> now, id |-> 0]
           /\ hot' = [hot EXCEPT ![flush.name] = [mtime |-> now, id |-> flushes]]
  <1>1. flush.at = "writing" /\ flushes > 0 /\ flushes \in 0 .. MaxFlushes
    BY DEF FlushClose, IInv, TypeOK, FlushInv
  <1>2. flushes \in FlushId
    BY <1>1, TierAssumption DEF FlushId
  <1>3. ~(born[flushes] >= 0)
    BY <1>1, <1>2 DEF IInv, FlushInv
  <1>4. born[flushes] \in Day \union {-1}
    BY <1>2 DEF IInv, TypeOK
  <1>5. born[flushes] = -1
    BY <1>3, <1>4, TierAssumption DEF Day
  <1>6. /\ flush.name \in Name /\ flush.name.day = now
        /\ hot[flush.name] = [mtime |-> now, id |-> 0]
    BY <1>1 DEF IInv, TypeOK, FlushInv
  <1> QED
    BY <1>2, <1>5, <1>6 DEF FlushClose, work, IInv, TypeOK

LEMMA StepFlush == IInv /\ [Next]_vars => FlushInv'
  <1> SUFFICES ASSUME IInv, [Next]_vars PROVE FlushInv'
    OBVIOUS
  <1> USE DEF tiers, work, past
  <1>0. /\ TypeOK /\ FlushInv /\ NameInv /\ WorkInv
        /\ \A i \in FlushId : i \in Int
        /\ \A i \in FlushId : born[i] \in Int
    BY TierAssumption DEF IInv, TypeOK, FlushId, Day
  <1>1. ASSUME NEW t \in Ts, FlushMkdir(t) PROVE FlushInv'
    <2>1. flush'.at = "mkdir" /\ flush'.name.day = now' /\ flushes' = flushes + 1 /\ UNCHANGED born
      BY <1>1 DEF FlushMkdir, SstName
    <2>2. flushes' > 0 /\ \A i \in FlushId : i <= flushes => i <= flushes' /\ i # flushes'
      BY <1>0, <2>1, TierAssumption DEF TypeOK
    <2> QED
      BY <1>0, <2>1, <2>2 DEF FlushInv
  <1>2. CASE FlushOpen
    <2>1. flush'.at = "writing" => hot'[flush'.name] = [mtime |-> now', id |-> 0]
      BY <1>0, <1>2, OpenEffect, TierTypes
    <2>2. flush'.at # "idle" => flush'.name.day = now' /\ flushes' > 0
      BY <1>0, <1>2, OpenEffect DEF FlushInv
    <2>3. \A i \in FlushId : born'[i] >= 0 => i <= flushes' /\ i # flushes'
      BY <1>0, <1>2, OpenEffect DEF FlushInv
    <2> QED
      BY <2>1, <2>2, <2>3 DEF FlushInv
  <1>3. CASE FlushClose
    <2>1. \A i \in FlushId : i # flushes => born'[i] = born[i]
      BY <1>0, <1>3, CloseEffect DEF TypeOK
    <2>2. flushes <= flushes
      BY <1>0, TierTypes
    <2> QED
      BY <1>0, <1>3, <2>1, <2>2, CloseEffect DEF FlushInv
  <1>4. ASSUME NEW n, TierStep(n) PROVE FlushInv'
    <2>1. /\ UNCHANGED <<now, flush, born, flushes>> /\ n \in Name
          /\ \A m \in Name : m # n => hot'[m] = hot[m]
      BY <1>0, <1>4, TierStepEffect
    <2>2. flush.at = "writing" => flush.name \in Name /\ hot'[flush.name] = hot[flush.name]
      <3> SUFFICES ASSUME flush.at = "writing", flush.name = n PROVE hot'[n] = hot[n]
        BY <1>0, <2>1 DEF TypeOK
      <3>1. n.day = now
        BY <1>0 DEF FlushInv
      <3>2. ~(n.day < now - HotDays) /\ cold[n] = NoFile
        BY <1>0, <2>1, <3>1, TierTypes DEF NameInv
      <3> QED
        BY <1>0, <1>4, <3>2, ColdEffect DEF Stays, Arrives, Leaves
    <2> QED
      BY <1>0, <2>1, <2>2 DEF FlushInv
  <1>5. CASE LookingStep
    BY <1>0, <1>5, LookingEffect DEF FlushInv
  <1>6. CASE OtherStep
    <2>1. UNCHANGED <<hot, born, flushes>>
      BY <1>6, OtherEffect
    <2>2. \/ now' = now /\ flush' = flush
          \/ flush'.at = "idle"
      BY <1>0, <1>6, OtherEffect DEF TypeOK
    <2> QED
      BY <1>0, <2>1, <2>2 DEF FlushInv
  <1> QED
    BY <1>1, <1>2, <1>3, <1>4, <1>5, <1>6, StepCases

\* NameInv for one name.
NameOK(n) ==
    /\ hot[n] # NoFile => hot[n].mtime = n.day /\ n.day <= now
    /\ cold[n] # NoFile => n.day <= cold[n].mtime /\ n.day < now - HotDays
    /\ archive[n] # NoFile => n.day < now - HotDays
    /\ hot[n].id > 0 => born[hot[n].id] = n.day
    /\ cold[n].id > 0 => born[cold[n].id] = n.day
    /\ archive[n].id > 0 => born[archive[n].id] = n.day
    /\ hot[n] # NoFile /\ cold[n] # NoFile => cold[n].id \in {0, hot[n].id}

LEMMA NameInvIff == NameInv <=> \A n \in Name : NameOK(n)
  BY DEF NameInv, NameOK

LEMMA StepName == IInv /\ [Next]_vars => NameInv'
  <1> SUFFICES ASSUME IInv, [Next]_vars PROVE NameInv'
    OBVIOUS
  <1> USE DEF tiers, work, past
  <1>0. TypeOK /\ FlushInv /\ NameInv /\ WorkInv /\ \A n \in Name : NameOK(n)
    BY NameInvIff DEF IInv
  <1>s. ASSUME UNCHANGED <<now, hot, cold, archive, born>> PROVE NameInv'
    BY <1>0, <1>s DEF NameInv
  <1>1. ASSUME NEW t \in Ts, FlushMkdir(t) PROVE NameInv'
    BY <1>1, <1>s DEF FlushMkdir
  <1>2. ASSUME FlushOpen, NEW n \in Name PROVE NameOK(n)'
    <2>1. UNCHANGED <<now, cold, archive, born>>
      BY <1>2, OpenEffect
    <2>2. CASE hot'[n] = hot[n]
      BY <1>0, <2>1, <2>2 DEF NameOK
    <2>3. CASE hot'[n] # hot[n]
      <3>1. n = flush.name /\ hot'[n] = [mtime |-> now, id |-> 0] /\ n.day = now
        BY <1>0, <1>2, <2>3, OpenEffect, TierTypes
      <3>2. cold[n] = NoFile /\ archive[n] = NoFile /\ now <= now
        BY <1>0, <3>1, TierTypes DEF NameOK
      <3> QED
        BY <1>0, <2>1, <3>1, <3>2 DEF NameOK
    <2> QED
      BY <2>2, <2>3
  <1>3. ASSUME FlushClose, NEW n \in Name PROVE NameOK(n)'
    <2>1. /\ UNCHANGED <<now, cold, archive>> /\ born[flushes] = -1
          /\ \A i \in FlushId : i # flushes => born'[i] = born[i]
          /\ born'[flushes] = now /\ flushes \in FlushId
      BY <1>0, <1>3, CloseEffect DEF TypeOK
    <2>0. n.day # -1
      BY TierAssumption DEF Name, Day
    <2>2. \A f \in Slot : f.id > 0 => f.id \in FlushId
      BY TierAssumption DEF Slot, File, NoFile, FlushId
    <2>3. /\ cold[n].id > 0 => born'[cold[n].id] = n.day
          /\ archive[n].id > 0 => born'[archive[n].id] = n.day
          /\ hot[n].id > 0 => born'[hot[n].id] = n.day
      BY <1>0, <2>0, <2>1, <2>2, TierTypes DEF NameOK
    <2>4. CASE n # flush.name
      <3>1. hot'[n] = hot[n]
        BY <1>0, <1>3, <2>4, CloseEffect, TierTypes
      <3> QED
        BY <1>0, <2>1, <2>3, <3>1 DEF NameOK
    <2>5. CASE n = flush.name
      <3>1. hot'[n] = [mtime |-> now, id |-> flushes] /\ n.day = now
        BY <1>0, <1>3, <2>5, CloseEffect, TierTypes
      <3>2. cold[n] = NoFile /\ archive[n] = NoFile /\ now <= now
        BY <1>0, <3>1, TierTypes DEF NameOK
      <3> QED
        BY <1>0, <2>1, <2>3, <3>1, <3>2 DEF NameOK
    <2> QED
      BY <2>4, <2>5
  <1>4. ASSUME NEW n, TierStep(n), NEW m \in Name PROVE NameOK(m)'
    <2>1. UNCHANGED <<now, born>> /\ n \in Name
      BY <1>0, <1>4, TierStepEffect
    <2>2. CASE m # n
      <3>1. hot'[m] = hot[m] /\ cold'[m] = cold[m] /\ archive'[m] = archive[m]
        BY <1>0, <1>4, <2>2, TierStepEffect
      <3> QED
        BY <1>0, <2>1, <3>1 DEF NameOK
    <2>3. CASE m = n
      <3>1. CASE Stays(n)
        BY <1>0, <2>1, <2>3, <3>1, FileFacts DEF NameOK, Stays
      <3>2. CASE Arrives(n)
        <4>1. hot'[n] \in {hot[n], NoFile}
          BY <1>0, <1>4, TierStepEffect
        <4> QED
          BY <1>0, <2>1, <2>3, <3>2, <4>1, FileFacts DEF NameOK, Arrives
      <3>3. CASE Leaves(n)
        BY <1>0, <2>1, <2>3, <3>3, FileFacts DEF NameOK, Leaves
      <3> QED
        BY <1>0, <1>4, <3>1, <3>2, <3>3, ColdEffect
    <2> QED
      BY <2>2, <2>3
  <1>5. CASE LookingStep
    BY <1>5, <1>s, LookingEffect
  <1>6. ASSUME OtherStep, NEW n \in Name PROVE NameOK(n)'
    <2>1. UNCHANGED <<hot, cold, archive, born>> /\ (now' = now \/ now' = now + 1)
      BY <1>6, OtherEffect
    <2>2. (n.day <= now => n.day <= now') /\ (n.day < now - HotDays => n.day < now' - HotDays)
      BY <1>0, <2>1, TierTypes
    <2> QED
      BY <1>0, <2>1, <2>2 DEF NameOK
  <1>7. NameInv' <=> \A n \in Name : NameOK(n)'
    BY DEF NameInv, NameOK
  <1> QED
    BY <1>1, <1>2, <1>3, <1>4, <1>5, <1>6, <1>7, StepCases

LEMMA StepWork == IInv /\ [Next]_vars => WorkInv'
  <1> SUFFICES ASSUME IInv, [Next]_vars PROVE WorkInv'
    OBVIOUS
  <1> USE DEF tiers, work, past
  <1>0. TypeOK /\ FlushInv /\ NameInv /\ WorkInv
    BY DEF IInv
  \* The worker's file is no longer today's, and a flush touches no other.
  <1>f. ASSUME NEW g \in Name, g.day = now, UNCHANGED <<now, cold, tpc, cutoff, cur>>,
               \A m \in Name : m # g => hot'[m] = hot[m]
        PROVE  WorkInv'
    <2>1. ASSUME tpc \in {"copyOpen", "copying", "unlinking"} PROVE cur # g
      <3>1. Expired(hot, cur) /\ cur \in Name /\ tpc \in InMove
        BY <1>0, <2>1 DEF WorkInv, TypeOK, InMove
      <3>2. cur.day < now
        BY <1>0, <3>1, ExpiredIsOld
      <3>3. ~(now < now)
        BY <1>0, TierTypes
      <3> QED
        BY <1>f, <3>2, <3>3
    <2>2. tpc \in {"copyOpen", "copying", "unlinking"} => hot'[cur] = hot[cur]
      BY <1>0, <1>f, <2>1 DEF TypeOK
    <2> QED
      BY <1>0, <1>f, <2>2 DEF WorkInv, Expired
  <1>1. ASSUME NEW t \in Ts, FlushMkdir(t) PROVE WorkInv'
    BY <1>0, <1>1 DEF FlushMkdir, WorkInv, Expired
  <1>2. CASE FlushOpen
    <2>1. \A m \in Name : m # flush.name => hot'[m] = hot[m]
      BY <1>0, <1>2, OpenEffect, TierTypes
    <2> QED
      BY <1>2, <1>f, <2>1, OpenEffect
  <1>3. CASE FlushClose
    <2>1. \A m \in Name : m # flush.name => hot'[m] = hot[m]
      BY <1>0, <1>3, CloseEffect, TierTypes
    <2> QED
      BY <1>3, <1>f, <2>1, CloseEffect
  <1>4. ASSUME NEW n \in toVisit, MoveFile(n) PROVE WorkInv'
    <2>1. tpc = "moving" /\ UNCHANGED <<now, cutoff>>
      BY <1>4 DEF MoveFile
    <2>2. \/ tpc' = "moving"
          \/ tpc' = "copyOpen" /\ Expired(hot, n) /\ cur' = n /\ hot' = hot
      BY <1>4 DEF MoveFile
    <2> QED
      BY <1>0, <2>1, <2>2 DEF WorkInv, InMove, Expired
  <1>5. CASE OpenCopy
    <2>1. /\ tpc = "copyOpen" /\ UNCHANGED <<now, cutoff, hot, cur>>
          /\ tpc' \in {"copying", "moving"}
      BY <1>5 DEF OpenCopy
    <2> QED
      BY <1>0, <2>1 DEF WorkInv, InMove, Expired
  <1>6. CASE FillCopy
    <2>1. /\ tpc = "copying" /\ UNCHANGED <<now, cutoff, hot, cur>>
          /\ \/ tpc' = "moving"
             \/ tpc' = "unlinking" /\ cold'[cur] = [mtime |-> now, id |-> hot[cur].id]
      BY <1>0, <1>6, TierTypes DEF FillCopy, AfterFailedCopy, TypeOK
    <2>2. hot[cur].id # -1
      BY <1>0, <2>1, TierTypes, SlotFacts, FileFacts DEF WorkInv, Expired, TypeOK
    <2> QED
      BY <1>0, <2>1, <2>2 DEF WorkInv, InMove, Expired, NoFile
  <1>7. CASE UnlinkHot
    <2>1. tpc = "unlinking" /\ tpc' = "moving" /\ UNCHANGED <<now, cutoff>>
      BY <1>7 DEF UnlinkHot
    <2> QED
      BY <1>0, <2>1 DEF WorkInv, InMove
  <1>8. ASSUME NEW n \in toVisit, PruneFile(n) PROVE WorkInv'
    <2>1. tpc = "pruning" /\ UNCHANGED <<now, cutoff>> /\ n \in Name
      BY <1>0, <1>8 DEF PruneFile, TypeOK
    <2>2. \/ tpc' = "pruning"
          \/ tpc' = "deleting" /\ Expired(cold, n) /\ cur' = n
      BY <1>8, <2>1 DEF PruneFile
    <2>3. Expired(cold, n) => n.day < now - ColdDays
      <3> SUFFICES ASSUME Expired(cold, n) PROVE n.day < now - ColdDays
        OBVIOUS
      <3>1. cold[n] # NoFile /\ n.day <= cold[n].mtime /\ cold[n].mtime < cutoff /\ cutoff <= now - ColdDays
        BY <1>0, <2>1 DEF Expired, NameInv, WorkInv
      <3>2. cold[n].mtime \in Int
        BY <1>0, <2>1, <3>1, TierTypes, SlotFacts DEF File, Day
      <3> QED
        BY <1>0, <2>1, <3>1, <3>2, TierTypes
    <2> QED
      BY <1>0, <2>1, <2>2, <2>3 DEF WorkInv, InMove
  <1>9. CASE DeleteCold
    <2>1. tpc = "deleting" /\ tpc' = "pruning" /\ UNCHANGED <<now, cutoff>>
      BY <1>9 DEF DeleteCold
    <2> QED
      BY <1>0, <2>1 DEF WorkInv, InMove
  <1>10. CASE LookingStep
    <2>1. now' = now /\ now - HotDays <= now - HotDays /\ now - ColdDays <= now - ColdDays
      BY <1>0, <1>10, LookingEffect, TierTypes
    <2>2. \/ tpc' \in {"stopped", "waiting", "removingDir", "pruneNext"}
          \/ tpc' = "moving" /\ cutoff' = now - HotDays
          \/ tpc' = "pruning" /\ cutoff' = now - ColdDays
      BY <1>10 DEF LookingStep, WorkerExit, ListHot, TestTagDir, RemoveTagDir, ListCold, RoundDone, DaysAgo
    <2> QED
      BY <2>1, <2>2 DEF WorkInv, InMove
  <1>11. CASE OtherStep
    <2>1. /\ UNCHANGED <<hot, cold, cutoff, cur>> /\ (tpc' = tpc \/ tpc' \in {"waiting", "stopped"})
          /\ now' = now \/ now' = now + 1
      BY <1>11, OtherEffect
    <2>2. /\ cutoff <= now - HotDays => cutoff <= now' - HotDays
          /\ cutoff <= now - ColdDays => cutoff <= now' - ColdDays
          /\ cur.day < now - ColdDays => cur.day < now' - ColdDays
      BY <1>0, <2>1, TierTypes DEF TypeOK
    <2> QED
      BY <1>0, <2>1, <2>2 DEF WorkInv, InMove, Expired
  <1> QED
    BY <1>1, <1>2, <1>3, <1>4, <1>5, <1>6, <1>7, <1>8, <1>9, <1>10, <1>11, NextSteps

LEMMA InitIInv == Init => IInv
  <1> SUFFICES ASSUME Init PROVE IInv
    OBVIOUS
  <1>1. 0 \in Day /\ 0 \in 0 .. MaxFlushes /\ 0 \in 0 .. MaxCrashes /\ 0 \in 0 .. MaxFaults
        /\ 0 \in -(HotDays + ColdDays) .. MaxDay
    BY TierAssumption DEF Day
  <1>2. AnyName \in Name
    <2>1. PICK t \in Ts : TRUE
      BY TierAssumption
    <2>2. [day |-> 0, ts |-> t] \in Name
      BY <1>1 DEF Name
    <2> QED
      BY <2>2 DEF AnyName
  <1>3. TypeOK
    BY <1>1, <1>2 DEF Init, TypeOK, WorkerPc
  <1>4. \A n \in Name : hot[n] = NoFile /\ cold[n] = NoFile /\ archive[n] = NoFile
    BY DEF Init
  <1>5. NameInv
    BY <1>4, FileFacts DEF NameInv
  <1>6. FlushInv
    BY DEF Init, FlushInv
  <1>7. WorkInv
    BY DEF Init, WorkInv, InMove
  <1> QED
    BY <1>3, <1>5, <1>6, <1>7 DEF IInv

\* The tier manager and the flush callback keep their types, what the names of
\* the files say and what the worker has read stays true until it is used.
THEOREM TypeCorrect == Spec => []IInv
  <1>1. IInv /\ [Next]_vars => IInv'
    BY StepType, StepFlush, StepName, StepWork DEF IInv
  <1> QED
    BY <1>1, InitIInv, PTL DEF Spec

-----------------------------------------------------------------------------
(* No directory is removed from under a file *)

LEMMA StepDirectory == IInv /\ FilesHaveDirectory /\ [Next]_vars => FilesHaveDirectory'
  <1> SUFFICES ASSUME IInv, FilesHaveDirectory, [Next]_vars PROVE FilesHaveDirectory'
    OBVIOUS
  <1> USE DEF tiers, work, past
  <1>0. TypeOK /\ NameInv /\ WorkInv
    BY DEF IInv
  <1>1. ASSUME dirExists' = dirExists, \A n \in Name : hot'[n] # NoFile => hot[n] # NoFile
        PROVE  FilesHaveDirectory'
    BY <1>1 DEF FilesHaveDirectory, Holding
  <1>2. ASSUME NEW t \in Ts, FlushMkdir(t) PROVE FilesHaveDirectory'
    BY <1>2 DEF FlushMkdir, FilesHaveDirectory
  <1>3. CASE FlushOpen
    BY <1>1, <1>3, OpenEffect DEF FilesHaveDirectory
  <1>4. CASE FlushClose
    <2>1. hot[flush.name] # NoFile
      BY <1>4, CloseEffect DEF NoFile
    <2>2. \A n \in Name : n # flush.name => hot'[n] = hot[n]
      BY <1>0, <1>4, CloseEffect, TierTypes
    <2> QED
      BY <1>1, <1>4, <2>1, <2>2, CloseEffect
  <1>5. ASSUME NEW n, TierStep(n) PROVE FilesHaveDirectory'
    BY <1>0, <1>1, <1>5, TierStepEffect
  <1>6. CASE LookingStep
    <2>1. hot' = hot
      BY <1>6, LookingEffect
    <2>2. CASE dirExists' = dirExists
      BY <1>1, <2>1, <2>2
    <2>3. CASE dirExists' = (Holding(hot) # {})
      BY <2>1, <2>3 DEF FilesHaveDirectory, Holding
    <2> QED
      BY <1>6, <2>2, <2>3, LookingEffect
  <1>7. CASE OtherStep
    BY <1>1, <1>7, OtherEffect
  <1> QED
    BY <1>2, <1>3, <1>4, <1>5, <1>6, <1>7, StepCases

\* What is in the hot tier has a directory to be listed in.
LEMMA DirectoriesStay == Spec => []FilesHaveDirectory
  <1>1. Init => FilesHaveDirectory
    BY DEF Init, FilesHaveDirectory, Holding
  <1> QED
    BY <1>1, StepDirectory, TypeCorrect, PTL DEF Spec

-----------------------------------------------------------------------------
(* The points of a flush stay until they have expired *)

\* Some tier holds the points of flush i under the name n.
Under(n, i) == hot[n].id = i \/ cold[n].id = i \/ archive[n].id = i

LEMMA KeptIff == \A i : Kept(i) <=> \E n \in Name : Under(n, i)
  BY DEF Kept, Under

\* The worker loses no points, except expired ones that it deletes or writes over
\* in the archive.
LEMMA TierStepKeeps ==
    ASSUME IInv, NEW n, TierStep(n), NEW i \in FlushId, NEW m \in Name, Under(m, i)
    PROVE  Under(m, i)' \/ (m = n /\ Leaves(n) /\ born[i] = n.day /\ hot[n].id # i)
  <1>0. TypeOK /\ NameInv /\ WorkInv /\ NameOK(m)
    BY NameInvIff DEF IInv
  <1>1. i > 0 /\ i \in Int
    BY TierAssumption DEF FlushId
  <1>2. CASE m # n
    BY <1>0, <1>2, TierStepEffect DEF Under
  <1>3. CASE m = n
    <2>1. CASE Stays(n)
      BY <1>3, <2>1 DEF Stays, Under
    <2>2. CASE Arrives(n)
      <3>1. cold[n].id = i => hot[n].id = i
        BY <1>0, <1>1, <1>3, <2>2, FileFacts DEF Arrives, NameOK
      <3> QED
        BY <1>1, <1>3, <2>2, <3>1 DEF Arrives, Under
    <2>3. CASE Leaves(n)
      BY <1>0, <1>1, <1>3, <2>3 DEF Leaves, Under, NameOK
    <2> QED
      BY <1>0, <2>1, <2>2, <2>3, ColdEffect
  <1> QED
    BY <1>2, <1>3

LEMMA RewrittenStays == [Next]_vars /\ ~rewritten' => ~rewritten
  <1> SUFFICES ASSUME [Next]_vars, rewritten PROVE rewritten'
    OBVIOUS
  <1>1. CASE FlushOpen
    BY <1>1, Zenon DEF FlushOpen
  <1>2. rewritten' = rewritten \/ FlushOpen
    BY NextSteps, LookingEffect, OtherEffect
       DEF FlushMkdir, FlushClose, MoveFile, PruneFile, OpenCopy, FillCopy, UnlinkHot, DeleteCold, past
  <1> QED
    BY <1>1, <1>2

\* The steps that are not the worker's lose points only by writing over a file.
LEMMA FlushKeeps ==
    ASSUME IInv, [Next]_vars, ~\E n : TierStep(n), ~rewritten', NEW i \in FlushId
    PROVE  /\ born[i] >= 0 /\ Kept(i) => Kept(i)'
           /\ born[i] >= 0 => born'[i] = born[i] /\ now - born[i] <= now' - born'[i]
           /\ born'[i] >= 0 => born[i] >= 0 \/ Kept(i)'
  <1> DEFINE Keeps == /\ born[i] >= 0 /\ Kept(i) => Kept(i)'
                      /\ born[i] >= 0 => born'[i] = born[i] /\ now - born[i] <= now' - born'[i]
                      /\ born'[i] >= 0 => born[i] >= 0 \/ Kept(i)'
  <1> USE DEF tiers, work, past
  <1>0. /\ TypeOK /\ NameInv /\ i > 0 /\ i \in Int /\ born[i] \in Int /\ now \in Int
        /\ now - born[i] <= now - born[i]
    BY TierAssumption DEF IInv, TypeOK, FlushId, Day
  <1>s. ASSUME UNCHANGED <<hot, cold, archive, born, now>> PROVE Keeps
    BY <1>0, <1>s DEF Kept
  <1>1. ASSUME NEW t \in Ts, FlushMkdir(t) PROVE Keeps
    <2>1. UNCHANGED <<hot, cold, archive, born, now>>
      BY <1>1 DEF FlushMkdir
    <2> QED
      BY <1>s, <2>1
  <1>2. CASE FlushOpen
    <2>1. UNCHANGED <<born, now, cold, archive>>
      BY <1>2, OpenEffect
    <2>2. \A n \in Name : hot'[n] = hot[n] \/ hot[n] = NoFile
      <3>1. hot' = hot \/ hot[flush.name] = NoFile
        BY <1>2, Zenon DEF FlushOpen
      <3> QED
        BY <1>0, <1>2, <3>1, OpenEffect, TierTypes
    <2>3. \A n \in Name : Under(n, i) => Under(n, i)'
      BY <1>0, <2>1, <2>2, FileFacts DEF Under
    <2>4. Kept(i) => Kept(i)'
      BY <2>3 DEF Kept, Under
    <2> QED
      BY <1>0, <2>1, <2>4
  <1>3. CASE FlushClose
    <2>1. UNCHANGED <<now, cold, archive>> /\ born[flushes] = -1
      BY <1>3, CloseEffect
    <2>2. \A n \in Name : hot'[n] = hot[n] \/ hot[n].id = 0
      BY <1>0, <1>3, CloseEffect, TierTypes
    <2>3. \A n \in Name : Under(n, i) => Under(n, i)'
      BY <1>0, <2>1, <2>2 DEF Under
    <2>4. Kept(i) => Kept(i)'
      BY <2>3 DEF Kept, Under
    <2>5. i # flushes => born'[i] = born[i]
      BY <1>0, <1>3, CloseEffect DEF TypeOK
    <2>6. i = flushes => hot'[flush.name].id = i /\ flush.name \in Name
      BY <1>0, <1>3, CloseEffect, TierTypes
    <2>7. i = flushes => Kept(i)'
      BY <2>6 DEF Kept
    <2> QED
      BY <1>0, <2>1, <2>4, <2>5, <2>7
  <1>4. CASE LookingStep
    BY <1>4, <1>s, LookingEffect
  <1>5. CASE OtherStep
    <2>1. UNCHANGED <<hot, cold, archive, born>> /\ (now' = now \/ now' = now + 1)
      BY <1>5, OtherEffect
    <2>2. now - born[i] <= now' - born'[i]
      BY <1>0, <2>1
    <2> QED
      BY <2>1, <2>2 DEF Kept
  <1> QED
    BY <1>1, <1>2, <1>3, <1>4, <1>5, StepCases

LEMMA StepKept == IInv /\ KeptUntilExpired /\ [Next]_vars => KeptUntilExpired'
  <1> SUFFICES ASSUME IInv, KeptUntilExpired, [Next]_vars, ~rewritten', NEW i \in FlushId,
                      born'[i] >= 0, ~Kept(i)'
               PROVE  now' - born'[i] > ColdDays
    BY DEF KeptUntilExpired
  <1>0. TypeOK /\ NameInv /\ WorkInv /\ now \in Int /\ ColdDays \in Int /\ born[i] \in Int
    BY TierAssumption DEF IInv, TypeOK, Day
  <1>1. CASE \E n : TierStep(n)
    <2>1. PICK n : TierStep(n)
      BY <1>1
    <2>2. UNCHANGED <<now, born, rewritten>> /\ n \in Name
      BY <1>0, <2>1, TierStepEffect
    <2>3. CASE Kept(i)
      <3>1. PICK m \in Name : Under(m, i)
        BY <2>3, KeptIff
      <3>2. ~Under(m, i)'
        BY DEF Kept, Under
      <3>3. n.day < now - ColdDays /\ born[i] = n.day
        BY <2>1, <3>1, <3>2, TierStepKeeps DEF Leaves
      <3> QED
        BY <1>0, <2>2, <3>3
    <2>4. CASE ~Kept(i)
      BY <2>2, <2>4 DEF KeptUntilExpired
    <2> QED
      BY <2>3, <2>4
  <1>2. CASE ~\E n : TierStep(n)
    <2>1. /\ ~rewritten /\ born[i] >= 0 /\ ~Kept(i) /\ born'[i] = born[i]
          /\ now - born[i] <= now' - born'[i]
      BY <1>2, FlushKeeps, RewrittenStays
    <2>2. now - born[i] > ColdDays
      BY <2>1 DEF KeptUntilExpired
    <2>3. now' \in Int
      BY StepType, TierTypes, TierAssumption DEF IInv, TypeOK, Day
    <2> QED
      BY <1>0, <2>1, <2>2, <2>3
  <1> QED
    BY <1>1, <1>2

\* Neither copies, failed or cut short by a crash, nor removals lose the points
\* of a flush before the retention time is over.
THEOREM PointsKept == Spec => []KeptUntilExpired
  <1>1. Init => KeptUntilExpired
    BY DEF Init, KeptUntilExpired
  <1> QED
    BY <1>1, StepKept, TypeCorrect, PTL DEF Spec

\* The name of a file in the cold tier cannot come up again.
THEOREM ColdIsFinal == Spec => ColdNotOverwritten
  <1>1. IInv /\ [Next]_vars => [\A n \in Name : cold[n].id > 0 /\ cold'[n] # NoFile
                                    => cold[n].id \in {cold'[n].id, hot[n].id}]_vars
    <2> SUFFICES ASSUME IInv, [Next]_vars, NEW n \in Name, cold[n].id > 0, cold'[n] # NoFile
                 PROVE  cold[n].id \in {cold'[n].id, hot[n].id}
      OBVIOUS
    <2>0. TypeOK /\ NameInv /\ WorkInv /\ NameOK(n) /\ cold[n] # NoFile
      BY NameInvIff, FileFacts DEF IInv
    <2>1. CASE \E m : TierStep(m)
      <3>1. PICK m : TierStep(m)
        BY <2>1
      <3>2. CASE m # n
        BY <2>0, <3>1, <3>2, TierStepEffect
      <3>3. CASE m = n
        <4>1. Stays(n) \/ Arrives(n)
          BY <2>0, <3>1, <3>3, ColdEffect DEF Leaves
        <4> QED
          BY <2>0, <4>1 DEF Stays, Arrives, NameOK
      <3> QED
        BY <3>2, <3>3
    <2>2. CASE ~\E m : TierStep(m)
      <3>1. cold' = cold
        <4>1. ASSUME NEW t \in Ts, FlushMkdir(t) PROVE cold' = cold
          BY <4>1 DEF FlushMkdir, tiers
        <4> QED
          BY <2>2, <4>1, StepCases, OpenEffect, CloseEffect, LookingEffect, OtherEffect
      <3> QED
        BY <3>1
    <2> QED
      BY <2>1, <2>2
  <1> QED
    BY <1>1, TypeCorrect, PTL DEF Spec, ColdNotOverwritten

-----------------------------------------------------------------------------
(* With an archive, nothing is deleted as long as no system call fails *)

LEMMA NoFault ==
    ASSUME TypeOK, [Next]_vars, faults' = 0
    PROVE  faults = 0 /\ ~Fault
  <1>1. ~Fault
    BY TierTypes, TierAssumption DEF Fault, TypeOK
  <1>2. faults' = faults \/ Fault
    BY NextSteps, OpenEffect, CloseEffect, LookingEffect, OtherEffect
       DEF FlushMkdir, FlushOpen, FlushClose, MoveFile, PruneFile, ArchiveToExternal, OpenCopy,
           FillCopy, UnlinkHot, RemoveOriginal, DeleteCold
  <1> QED
    BY <1>1, <1>2

\* PairInv for one name.
PairOK(n) ==
    /\ hot[n] # NoFile /\ cold[n] # NoFile =>
           /\ tpc \notin InPrune
           /\ tpc \in InMove => n.day < cutoff /\ n \in toVisit \union (IF tpc = "moving" THEN {} ELSE {cur})
    /\ archive[n] # NoFile => hot[n] = NoFile /\ cold[n] = NoFile

ArchivedInv == tpc = "deleting" /\ Archive /\ ArchiveSameVolume => cold[cur] = NoFile

LEMMA PairInvIff == PairInv <=> (faults = 0 => (\A n \in Name : PairOK(n)) /\ ArchivedInv)
  BY DEF PairInv, PairOK, ArchivedInv

LEMMA StepPair ==
    ASSUME IInv, FilesHaveDirectory, [Next]_vars, faults = 0, ~Fault,
           \A n \in Name : PairOK(n), ArchivedInv
    PROVE  (\A n \in Name : PairOK(n)') /\ ArchivedInv'
  <1> DEFINE Goal == (\A n \in Name : PairOK(n)') /\ ArchivedInv'
  <1> USE DEF tiers, work, past
  <1>0. /\ TypeOK /\ FlushInv /\ NameInv /\ WorkInv /\ \A n \in Name : NameOK(n)
        /\ cur \in Name
    BY NameInvIff DEF IInv, TypeOK
  \* A flush writes a file of today, of which the other tiers have none.
  <1>f. ASSUME NEW g \in Name, g.day = now, UNCHANGED <<cold, archive, tpc, cutoff, toVisit, cur>>,
               \A m \in Name : m # g => hot'[m] = hot[m]
        PROVE  Goal
    <2>1. cold[g] = NoFile /\ archive[g] = NoFile
      BY <1>0, <1>f, TierTypes DEF NameOK
    <2> QED
      BY <1>f, <2>1 DEF PairOK, ArchivedInv
  <1>1. ASSUME NEW t \in Ts, FlushMkdir(t) PROVE Goal
    <2>1. UNCHANGED <<hot, cold, archive, tpc, cutoff, toVisit, cur>>
      BY <1>1 DEF FlushMkdir
    <2> QED
      BY <2>1 DEF PairOK, ArchivedInv
  <1>2. CASE FlushOpen
    <2>1. \A m \in Name : m # flush.name => hot'[m] = hot[m]
      BY <1>0, <1>2, OpenEffect, TierTypes
    <2> QED
      BY <1>2, <1>f, <2>1, OpenEffect
  <1>3. CASE FlushClose
    <2>1. \A m \in Name : m # flush.name => hot'[m] = hot[m]
      BY <1>0, <1>3, CloseEffect, TierTypes
    <2> QED
      BY <1>3, <1>f, <2>1, CloseEffect
  <1>4. ASSUME NEW n \in toVisit, MoveFile(n) PROVE Goal
    <2>1. tpc = "moving" /\ toVisit' = toVisit \ {n} /\ UNCHANGED <<archive, cutoff>> /\ n \in Name
      BY <1>0, <1>4 DEF MoveFile, TypeOK
    <2>2. CASE ~Expired(hot, n)
      <3>1. UNCHANGED <<hot, cold, tpc, cur>>
        BY <1>4, <2>2 DEF MoveFile
      <3>2. ~(hot[n] # NoFile /\ cold[n] # NoFile)
        BY <1>0, <2>1, <2>2 DEF PairOK, NameOK, Expired, InMove
      <3> QED
        BY <2>1, <3>1, <3>2 DEF PairOK, ArchivedInv, InMove, InPrune
    <2>3. CASE Expired(hot, n)
      <3>1. hot[n] # NoFile /\ n.day < cutoff /\ archive[n] = NoFile
        BY <1>0, <2>1, <2>3, ExpiredIsOld DEF InMove, PairOK
      <3>2. CASE tpc' = tpc
        <4>1. /\ hot'[n] = NoFile
              /\ \A m \in Name : m # n => hot'[m] = hot[m] /\ cold'[m] = cold[m]
          BY <1>0, <1>4, <2>1, <2>3, <3>2, TierTypes DEF MoveFile
        <4> QED
          BY <2>1, <3>1, <3>2, <4>1 DEF PairOK, ArchivedInv, InMove, InPrune
      <3>3. CASE tpc' # tpc
        <4>1. tpc' = "copyOpen" /\ cur' = n /\ UNCHANGED <<hot, cold>>
          BY <1>4, <2>3, <3>3 DEF MoveFile
        <4> QED
          BY <2>1, <3>1, <4>1 DEF PairOK, ArchivedInv, InMove, InPrune
      <3> QED
        BY <3>2, <3>3
    <2> QED
      BY <2>2, <2>3
  <1>5. CASE OpenCopy \/ FillCopy
    <2>1. /\ tpc \in {"copyOpen", "copying"} /\ tpc' \in {"copying", "unlinking"}
          /\ UNCHANGED <<hot, archive, cutoff, toVisit, cur>>
          /\ \A m \in Name : m # cur => cold'[m] = cold[m]
      BY <1>0, <1>5, TierTypes DEF OpenCopy, FillCopy
    <2>2. hot[cur] # NoFile /\ cur.day < cutoff /\ archive[cur] = NoFile
      BY <1>0, <2>1, ExpiredIsOld DEF InMove, PairOK, WorkInv
    <2> QED
      BY <1>0, <2>1, <2>2 DEF PairOK, ArchivedInv, InMove, InPrune
  <1>6. CASE UnlinkHot
    <2>1. /\ tpc = "unlinking" /\ tpc' = "moving" /\ UNCHANGED <<cold, archive, cutoff, toVisit, cur>>
          /\ hot'[cur] = NoFile /\ \A m \in Name : m # cur => hot'[m] = hot[m]
      BY <1>0, <1>6, TierTypes DEF UnlinkHot, RemoveOriginal
    <2> QED
      BY <1>0, <2>1 DEF PairOK, ArchivedInv, InMove, InPrune
  <1>7. ASSUME NEW n \in toVisit, PruneFile(n) PROVE Goal
    <2>1. /\ tpc = "pruning" /\ tpc' \in {"pruning", "deleting"} /\ UNCHANGED hot /\ n \in Name
          /\ \A m \in Name : m # n => cold'[m] = cold[m] /\ archive'[m] = archive[m]
      BY <1>0, <1>7, TierTypes DEF PruneFile, ArchiveToExternal, TypeOK
    <2>2. \/ cold'[n] = cold[n] /\ archive'[n] = archive[n]
          \/ cold'[n] = NoFile /\ archive'[n] = cold[n] /\ cold[n] # NoFile
      BY <1>0, <1>7, <2>1, TierTypes DEF PruneFile, ArchiveToExternal, Expired
    <2>3. cold[n] # NoFile => hot[n] = NoFile
      BY <2>1 DEF PairOK, InPrune
    <2>4. \A m \in Name : PairOK(m)'
      BY <2>1, <2>2, <2>3 DEF PairOK, InMove, InPrune
    <2>5. ASSUME tpc' = "deleting", Archive, ArchiveSameVolume PROVE cold'[cur'] = NoFile
      <3>1. cur' = n /\ cold' = [cold EXCEPT ![n] = NoFile]
        BY <1>7, <2>1, <2>5 DEF PruneFile, ArchiveToExternal
      <3> QED
        BY <1>0, <2>1, <3>1, TierTypes
    <2> QED
      BY <2>4, <2>5 DEF ArchivedInv
  <1>8. CASE DeleteCold
    <2>1. /\ tpc = "deleting" /\ tpc' = "pruning" /\ UNCHANGED <<hot, archive>>
          /\ \A m \in Name : cold'[m] \in {cold[m], NoFile}
      BY <1>0, <1>8, TierTypes DEF DeleteCold
    <2> QED
      BY <2>1 DEF PairOK, ArchivedInv, InMove, InPrune
  <1>9. CASE LookingStep
    <2>0. UNCHANGED <<hot, cold, archive, now>>
      BY <1>9, LookingEffect
    <2>1. CASE ListHot
      <3>1. tpc' = "moving" => cutoff' = now - HotDays /\ toVisit' = Holding(hot)
        BY <2>1 DEF ListHot, DaysAgo
      <3>2. tpc' # "moving" => tpc' = "pruneNext" /\ \A n \in Name : hot[n] = NoFile
        BY <2>1 DEF ListHot, FilesHaveDirectory, Holding
      <3> QED
        BY <1>0, <2>0, <3>1, <3>2 DEF PairOK, NameOK, ArchivedInv, InMove, InPrune, Holding
    <2>2. CASE TestTagDir \/ RemoveTagDir
      BY <2>0, <2>2 DEF TestTagDir, RemoveTagDir, PairOK, ArchivedInv, InMove, InPrune
    <2>3. CASE ListCold
      BY <2>0, <2>3 DEF ListCold, PairOK, ArchivedInv, InMove, InPrune
    <2>4. CASE RoundDone \/ WorkerExit
      BY <2>0, <2>4 DEF RoundDone, WorkerExit, PairOK, ArchivedInv, InMove, InPrune
    <2> QED
      BY <1>9, <2>1, <2>2, <2>3, <2>4 DEF LookingStep
  <1>10. CASE OtherStep
    <2>1. UNCHANGED <<hot, cold, archive, cutoff, cur>>
      BY <1>10, OtherEffect
    <2>2. \/ tpc' = tpc /\ toVisit' = toVisit
          \/ tpc' \in {"waiting", "stopped"}
      BY <1>10, OtherEffect
    <2> QED
      BY <2>1, <2>2 DEF PairOK, ArchivedInv, InMove, InPrune
  <1> QED
    BY <1>1, <1>2, <1>3, <1>4, <1>5, <1>6, <1>7, <1>8, <1>9, <1>10, NextSteps

LEMMA StepArchived == IInv /\ PairInv /\ ArchivedNotDeleted /\ [Next]_vars => ArchivedNotDeleted'
  <1> SUFFICES ASSUME IInv, PairInv, ArchivedNotDeleted, [Next]_vars, Archive, ArchiveSameVolume,
                      faults' = 0, ~rewritten', NEW i \in FlushId, born'[i] >= 0
               PROVE  Kept(i)'
    BY DEF ArchivedNotDeleted
  <1>0. /\ TypeOK /\ NameInv /\ WorkInv /\ ~rewritten /\ faults = 0 /\ i > 0 /\ i \in Int
        /\ \A n \in Name : PairOK(n)
        /\ ArchivedInv
    BY NoFault, RewrittenStays, PairInvIff, TierAssumption DEF IInv, FlushId
  <1>1. born[i] >= 0 => Kept(i)
    BY <1>0 DEF ArchivedNotDeleted
  <1>2. CASE \E n : TierStep(n)
    <2>1. PICK n : TierStep(n)
      BY <1>2
    <2>2. born' = born /\ n \in Name
      BY <1>0, <2>1, TierStepEffect
    <2>3. PICK m \in Name : Under(m, i)
      BY <1>1, <2>2, KeptIff
    <2>4. CASE Under(m, i)'
      BY <2>4 DEF Kept, Under
    <2>5. CASE Leaves(n) /\ m = n /\ hot[n].id # i
      <3>1. CASE archive'[n] = archive[n] /\ tpc = "deleting" /\ n = cur
        <4>1. cold[n] = NoFile
          BY <1>0, <3>1 DEF ArchivedInv
        <4>2. archive'[n].id = i
          BY <1>0, <2>3, <2>5, <3>1, <4>1, FileFacts DEF Under
        <4> QED
          BY <2>2, <4>2 DEF Kept
      <3>2. CASE archive'[n] = cold[n] /\ cold[n] # NoFile
        <4>1. archive[n] = NoFile
          BY <1>0, <2>2, <3>2 DEF PairOK
        <4>2. archive'[n].id = i
          BY <1>0, <2>3, <2>5, <3>2, <4>1, FileFacts DEF Under
        <4> QED
          BY <2>2, <4>2 DEF Kept
      <3> QED
        BY <2>5, <3>1, <3>2 DEF Leaves
    <2> QED
      BY <2>1, <2>3, <2>4, <2>5, TierStepKeeps
  <1>3. CASE ~\E n : TierStep(n)
    BY <1>1, <1>3, FlushKeeps
  <1> QED
    BY <1>2, <1>3

\* The files a crash leaves in two tiers are moved again before they are pruned.
LEMMA PairsAreMoved == Spec => []PairInv
  <1>1. Init => PairInv
    BY DEF Init, PairInv
  <1>2. IInv /\ FilesHaveDirectory /\ PairInv /\ [Next]_vars => PairInv'
    <2> SUFFICES ASSUME IInv, FilesHaveDirectory, PairInv, [Next]_vars, faults' = 0 PROVE PairInv'
      BY DEF PairInv
    <2>1. faults = 0 /\ ~Fault
      BY NoFault DEF IInv
    <2>2. (\A n \in Name : PairOK(n)') /\ ArchivedInv'
      BY <2>1, PairInvIff, StepPair
    <2> QED
      BY <2>2 DEF PairInv, PairOK, ArchivedInv
  <1> QED
    BY <1>1, <1>2, DirectoriesStay, TypeCorrect, PTL DEF Spec

\* With an archive on the volume of the cold tier, DeleteFile after
\* ArchiveToExternal never finds anything to delete, whenever the process
\* crashes and starts again in between.
THEOREM ArchiveKeepsAll == Spec => []ArchivedNotDeleted
  <1>1. Init => ArchivedNotDeleted
    BY DEF Init, ArchivedNotDeleted
  <1> QED
    BY <1>1, StepArchived, PairsAreMoved, TypeCorrect, PTL DEF Spec

-----------------------------------------------------------------------------
(* The tiers implement a set of retained flushes *)

KeptFlushes == {i \in FlushId : Kept(i)}

\* Points are kept of complete flushes only.
LEMMA KeptIsBorn ==
    ASSUME IInv, NEW i \in FlushId, Kept(i)
    PROVE  born[i] >= 0
  <1>1. PICK n \in Name : Under(n, i)
    BY KeptIff
  <1>2. NameOK(n) /\ i > 0
    BY NameInvIff, TierAssumption DEF IInv, FlushId
  <1>3. born[i] = n.day
    BY <1>1, <1>2 DEF NameOK, Under
  <1> QED
    BY <1>3, TierAssumption DEF Name, Day

\* No step but the end of a flush brings points that are in no tier.
LEMMA NothingReturns ==
    ASSUME IInv, [Next]_vars, NEW i \in FlushId, Kept(i)', ~(FlushClose /\ i = flushes)
    PROVE  Kept(i)
  <1> USE DEF tiers, work, past
  <1>0. TypeOK /\ NameInv /\ WorkInv /\ i > 0 /\ i \in Int
    BY TierAssumption DEF IInv, FlushId
  <1>1. PICK m \in Name : Under(m, i)'
    BY DEF Kept, Under
  <1> SUFFICES Under(m, i)
    BY KeptIff
  <1>s. CASE UNCHANGED <<hot, cold, archive>>
    BY <1>1, <1>s DEF Under
  <1>2. ASSUME NEW t \in Ts, FlushMkdir(t) PROVE Under(m, i)
    BY <1>s, <1>2 DEF FlushMkdir
  <1>3. CASE FlushOpen
    <2>1. hot'[m] = hot[m] \/ hot'[m].id = 0
      BY <1>0, <1>3, OpenEffect, TierTypes
    <2> QED
      BY <1>0, <1>1, <1>3, <2>1, OpenEffect DEF Under
  <1>4. CASE FlushClose
    <2>1. hot'[m] = hot[m] \/ hot'[m].id = flushes
      BY <1>0, <1>4, CloseEffect, TierTypes
    <2> QED
      BY <1>1, <1>4, <2>1, CloseEffect DEF Under
  <1>5. ASSUME NEW n, TierStep(n) PROVE Under(m, i)
    <2>1. CASE m # n
      BY <1>0, <1>1, <1>5, <2>1, TierStepEffect DEF Under
    <2>2. CASE m = n
      <3>1. Stays(n) \/ Arrives(n) \/ Leaves(n)
        BY <1>0, <1>5, ColdEffect
      <3>2. hot'[n] \in {hot[n], NoFile}
        BY <1>0, <1>5, TierStepEffect
      <3> QED
        BY <1>0, <1>1, <2>2, <3>1, <3>2, FileFacts DEF Stays, Arrives, Leaves, Under
    <2> QED
      BY <2>1, <2>2
  <1>6. CASE LookingStep
    BY <1>s, <1>6, LookingEffect
  <1>7. CASE OtherStep
    BY <1>s, <1>7, OtherEffect
  <1> QED
    BY <1>2, <1>3, <1>4, <1>5, <1>6, <1>7, StepCases

\* A failing call is counted, and failures are not forgotten.
LEMMA FaultsGrow ==
    ASSUME TypeOK, [Next]_vars
    PROVE  /\ UNCHANGED faults \/ faults' > 0
           /\ faults > 0 => faults' > 0
           /\ now' >= now
  <1>0. faults \in 0 .. MaxFaults /\ MaxFaults \in Nat /\ now \in Int
    BY TierTypes, TierAssumption DEF TypeOK
  <1>1. faults' = faults \/ Fault
    BY NextSteps, LookingEffect, OtherEffect
       DEF FlushMkdir, FlushOpen, FlushClose, MoveFile, PruneFile, ArchiveToExternal, OpenCopy,
           FillCopy, UnlinkHot, RemoveOriginal, DeleteCold
  <1>2. Fault => faults' > 0
    BY <1>0 DEF Fault
  <1>3. now' = now \/ now' = now + 1
    BY NextSteps, LookingEffect, OtherEffect
       DEF FlushMkdir, FlushOpen, FlushClose, MoveFile, PruneFile, OpenCopy, FillCopy, UnlinkHot,
           DeleteCold
  <1> QED
    BY <1>0, <1>1, <1>2, <1>3

\* What a step of the worker loses when it removes the file n of the cold tier
\* or writes over that of the archive.
Lost(n, i) ==
    /\ Leaves(n) /\ Under(n, i) /\ ~Under(n, i)' /\ born[i] = n.day
    /\ \/ archive'[n] = archive[n] /\ cold[n].id = i
       \/ archive'[n] = cold[n] /\ cold[n].id # i /\ archive[n].id = i

\* It is one flush, and the call that loses it does not fail.
LEMMA OneLost ==
    ASSUME IInv, NEW n, TierStep(n), NEW i \in FlushId, Kept(i), ~Kept(i)'
    PROVE  /\ Lost(n, i)
           /\ \A j \in FlushId : j # i /\ Kept(j) => Kept(j)'
           /\ UNCHANGED faults
  <1>0. TypeOK /\ NameInv /\ WorkInv /\ n \in Name
    BY TierStepEffect DEF IInv
  <1>l. ASSUME NEW j \in FlushId, Kept(j), ~Kept(j)' PROVE Lost(n, j)
    <2>0. j > 0 /\ j \in Int
      BY TierAssumption DEF FlushId
    <2>1. PICK m \in Name : Under(m, j)
      BY <1>l, KeptIff
    <2>2. ~Under(n, j)' /\ ~Under(m, j)'
      BY <1>0, <1>l DEF Kept, Under
    <2>3. m = n /\ Leaves(n) /\ born[j] = n.day /\ hot[n].id # j
      BY <2>1, <2>2, TierStepKeeps
    <2>4. \/ archive'[n] = archive[n] /\ cold[n].id = j
          \/ archive'[n] = cold[n] /\ cold[n].id # j /\ archive[n].id = j
      BY <2>1, <2>2, <2>3 DEF Leaves, Under
    <2> QED
      BY <2>1, <2>2, <2>3, <2>4 DEF Lost
  <1>1. Lost(n, i)
    BY <1>l
  <1>2. cold'[n] # cold[n] \/ archive'[n] # archive[n]
    <2>1. i > 0 /\ cold'[n] = NoFile /\ NoFile.id = -1 /\ i \in Int
      BY <1>1, FileFacts, TierAssumption DEF Lost, Leaves, FlushId
    <2> QED
      BY <1>1, <2>1 DEF Lost
  <1>3. tpc \in InPrune
    BY <1>1 DEF Lost, Leaves
  <1>4. UNCHANGED faults
    <2>1. CASE PruneFile(n)
      BY <1>2, <2>1, Zenon DEF PruneFile, ArchiveToExternal
    <2>2. CASE n = cur /\ DeleteCold
      BY <1>2, <2>2 DEF DeleteCold
    <2>3. ~MoveFile(n) /\ ~OpenCopy /\ ~FillCopy /\ ~UnlinkHot
      BY <1>3 DEF InPrune, MoveFile, OpenCopy, FillCopy, UnlinkHot
    <2> QED
      BY <2>1, <2>2, <2>3 DEF TierStep
  <1>5. ASSUME NEW j \in FlushId, j # i, Kept(j) PROVE Kept(j)'
    <2> SUFFICES ASSUME ~Kept(j)' PROVE FALSE
      OBVIOUS
    <2>1. Lost(n, j)
      BY <1>l, <1>5
    <2> QED
      BY <1>1, <1>5, <2>1 DEF Lost
  <1> QED
    BY <1>1, <1>4, <1>5

\* So the worker forgets one old flush or none.
LEMMA TierForgets ==
    ASSUME IInv, PairInv, ArchivedNotDeleted, ArchivedNotDeleted', ~rewritten, ~rewritten', [Next]_vars,
           NEW n, TierStep(n), NEW i \in FlushId, Kept(i), ~Kept(i)'
    PROVE  Tiers!Forget(i)
  <1>1. TypeOK /\ NameInv /\ WorkInv
    BY DEF IInv
  <1>2. UNCHANGED <<now, born, rewritten>>
    BY <1>1, TierStepEffect
  <1>3. UNCHANGED faults /\ Lost(n, i)
    BY OneLost
  <1>4. now - born[i] > ColdDays
    <2>1. n.day < now - ColdDays /\ born[i] = n.day
      BY <1>3 DEF Lost, Leaves
    <2>2. n \in Name
      BY <1>1, TierStepEffect
    <2> QED
      BY <1>1, <2>1, <2>2, TierTypes
  <1>5. Archive /\ ArchiveSameVolume => faults > 0
    <2> SUFFICES ASSUME Archive, ArchiveSameVolume, ~(faults > 0) PROVE FALSE
      OBVIOUS
    <2>1. faults' = 0
      BY <1>1, <1>3 DEF TypeOK
    <2>2. born'[i] >= 0
      BY <1>2, KeptIsBorn
    <2> QED
      BY <2>1, <2>2 DEF ArchivedNotDeleted
  <1>6. KeptFlushes' = KeptFlushes \ {i}
    <2>1. \A j \in FlushId : Kept(j)' => Kept(j)
      <3>1. ~FlushClose
        BY <1>1, TierStepEffect DEF FlushClose, TypeOK
      <3> QED
        BY <3>1, NothingReturns
    <2>2. \A j \in FlushId : j # i /\ Kept(j) => Kept(j)'
      BY OneLost
    <2> QED
      BY <2>1, <2>2 DEF KeptFlushes
  <1> QED
    BY <1>2, <1>3, <1>4, <1>5, <1>6 DEF Tiers!Forget, KeptFlushes

\* Every step of the tiers is one of the retained flushes, or none.
LEMMA StepRetains ==
    ASSUME IInv, IInv', PairInv, ArchivedNotDeleted, ArchivedNotDeleted', [Next]_vars
    PROVE  [Tiers!Next]_(Tiers!vars)
  <1> USE DEF tiers, work, past
  <1>0. TypeOK /\ TypeOK' /\ NameInv /\ WorkInv
    BY DEF IInv
  <1>f. /\ (faults > 0) \in BOOLEAN /\ rewritten \in BOOLEAN /\ rewritten' \in BOOLEAN
        /\ UNCHANGED faults \/ (faults' > 0) = TRUE
    BY <1>0, FaultsGrow DEF TypeOK
  <1>1. CASE rewritten'
    <2>1. Tiers!Spoilt
      BY <1>0, <1>1, <1>f, FaultsGrow DEF Tiers!Spoilt
    <2> QED
      BY <2>1 DEF Tiers!Next
  <1>2. CASE ~rewritten'
    <2>0. rewritten = FALSE /\ rewritten' = FALSE
      BY <1>2, <1>f, RewrittenStays
    \* Nothing happens to the flushes, and a call fails or not.
    <2>s. ASSUME UNCHANGED <<now, born, KeptFlushes>> PROVE [Tiers!Next]_(Tiers!vars)
      <3>1. CASE UNCHANGED faults
        BY <2>0, <2>s, <3>1 DEF Tiers!vars, KeptFlushes
      <3>2. CASE (faults' > 0) = TRUE
        <4>1. Tiers!Fail
          BY <2>0, <2>s, <3>2 DEF Tiers!Fail, KeptFlushes
        <4> QED
          BY <4>1 DEF Tiers!Next
      <3> QED
        BY <1>f, <3>1, <3>2
    <2>1. ASSUME UNCHANGED <<hot, cold, archive>> PROVE UNCHANGED KeptFlushes
      BY <2>1 DEF KeptFlushes, Kept
    <2>2. ASSUME NEW t \in Ts, FlushMkdir(t) PROVE [Tiers!Next]_(Tiers!vars)
      BY <2>s, <2>1, <2>2 DEF FlushMkdir
    <2>3. CASE FlushOpen \/ FlushClose
      <3>1. ~\E n : TierStep(n)
        BY <1>0, <2>3, TierStepEffect DEF FlushOpen, FlushClose, TypeOK
      <3>2. \A i \in FlushId : Kept(i) => Kept(i)'
        BY <1>2, <3>1, FlushKeeps, KeptIsBorn
      <3>3. \A i \in FlushId : Kept(i)' /\ ~(FlushClose /\ i = flushes) => Kept(i)
        BY NothingReturns
      <3>4. CASE FlushOpen
        <4>1. ~FlushClose /\ UNCHANGED <<now, born>>
          BY <3>4, OpenEffect DEF FlushClose
        <4>2. UNCHANGED KeptFlushes
          BY <3>2, <3>3, <4>1 DEF KeptFlushes
        <4> QED
          BY <2>s, <4>1, <4>2
      <3>5. CASE FlushClose
        <4>1. /\ UNCHANGED <<now, faults, flushes>> /\ flushes \in FlushId /\ born[flushes] = -1
              /\ born' = [born EXCEPT ![flushes] = now] /\ flush.name \in Name
              /\ hot'[flush.name].id = flushes
          BY <1>0, <3>5, CloseEffect, TierTypes
        <4>2. ~Kept(flushes)
          BY <4>1, KeptIsBorn
        <4>3. Kept(flushes)'
          BY <4>1 DEF Kept
        <4>4. KeptFlushes' = KeptFlushes \union {flushes}
          BY <3>2, <3>3, <4>1, <4>3 DEF KeptFlushes
        <4>5. /\ born[flushes] < 0
              /\ (faults' > 0) = (faults > 0)
              /\ rewritten' = rewritten
          <5>1. born[flushes] < 0
            BY <4>1
          <5>2. (faults' > 0) = (faults > 0)
            BY <4>1
          <5>3. rewritten' = rewritten
            BY <2>0, Zenon
          <5> QED
            BY <5>1, <5>2, <5>3, Zenon
        <4>6. Tiers!Complete(flushes)
          BY <4>1, <4>2, <4>4, <4>5, Zenon DEF Tiers!Complete, KeptFlushes
        <4> QED
          BY <4>1, <4>6 DEF Tiers!Next
      <3> QED
        BY <2>3, <3>4, <3>5
    <2>4. ASSUME NEW n, TierStep(n) PROVE [Tiers!Next]_(Tiers!vars)
      <3>1. CASE \E i \in FlushId : Kept(i) /\ ~Kept(i)'
        <4>1. PICK i \in FlushId : Kept(i) /\ ~Kept(i)'
          BY <3>1
        <4>2. Tiers!Forget(i)
          BY <2>0, <2>4, <4>1, TierForgets
        <4> QED
          BY <4>2 DEF Tiers!Next
      <3>2. CASE ~\E i \in FlushId : Kept(i) /\ ~Kept(i)'
        <4>1. ~FlushClose /\ UNCHANGED <<now, born>>
          BY <1>0, <2>4, TierStepEffect DEF FlushClose, TypeOK
        <4>2. UNCHANGED KeptFlushes
          BY <3>2, <4>1, NothingReturns DEF KeptFlushes
        <4> QED
          BY <2>s, <4>1, <4>2
      <3> QED
        BY <3>1, <3>2
    <2>5. CASE LookingStep
      BY <2>s, <2>1, <2>5, LookingEffect
    <2>6. CASE OtherStep
      <3>1. UNCHANGED <<hot, cold, archive, born>>
        BY <2>6, OtherEffect
      <3>0. now' = now \/ (now' = now + 1 /\ UNCHANGED faults)
        BY <2>6, OtherEffect
      <3>2. CASE now' = now
        BY <2>s, <2>1, <3>1, <3>2
      <3>3. CASE (now' = now + 1) /\ UNCHANGED faults
        <4>1. UNCHANGED KeptFlushes
          BY <2>1, <3>1
        <4>2. Tiers!NextDay
          BY <2>0, <3>1, <3>3, <4>1 DEF Tiers!NextDay, KeptFlushes
        <4> QED
          BY <4>2 DEF Tiers!Next
      <3> QED
        BY <3>0, <3>2, <3>3
    <2> QED
      BY <2>2, <2>3, <2>4, <2>5, <2>6, StepCases
  <1> QED
    BY <1>1, <1>2

\* The tiers, with their worker, their renames and copies and the crashes in
\* between, are a set of flushes from which only old ones are ever taken, one at
\* a time and for good.
THEOREM TiersRetainFlushes == Spec => ImplementsRetention
  <1>1. Init => Tiers!Init
    <2> SUFFICES ASSUME Init PROVE Tiers!Init
      OBVIOUS
    <2>1. \A i \in FlushId : ~Kept(i)
      <3>1. \A n \in Name : hot[n] = NoFile /\ cold[n] = NoFile /\ archive[n] = NoFile
        BY DEF Init
      <3>2. \A i \in FlushId : i > 0
        BY TierAssumption DEF FlushId
      <3> QED
        BY <3>1, <3>2, FileFacts DEF Kept
    <2>2. (faults > 0) = FALSE
      BY DEF Init
    <2> QED
      BY <2>1, <2>2 DEF Init, Tiers!Init
  <1> QED
    BY <1>1, StepRetains, TypeCorrect, PairsAreMoved, ArchiveKeepsAll, PTL
       DEF Spec, ImplementsRetention, Tiers!Spec

-----------------------------------------------------------------------------
(* Stop *)

\* A step of a worker that is to stop.
LEMMA WorkerAdvances == ASSUME ~running, WorkerStep PROVE RoundAdvances
  <1> USE DEF RoundAdvances
  <1>1. CASE WorkerExit
    <2>1. tpc = "waiting" /\ tpc' = "stopped"
      BY <1>1 DEF WorkerExit
    <2> QED
      BY <2>1 DEF Part
  <1>2. ~ListHot
    BY DEF ListHot, Continue
  <1>3. ASSUME NEW n \in toVisit, MoveFile(n) PROVE RoundAdvances
    <2>1. /\ tpc = "moving" /\ tpc' \in {"moving", "copyOpen"}
          /\ toVisit' = toVisit \ {n}
      BY <1>3 DEF MoveFile
    <2>2. Part' = Part
      BY <2>1 DEF Part
    <2> QED
      BY <2>1, <2>2
  <1>4. ASSUME NEW n \in toVisit, PruneFile(n) PROVE RoundAdvances
    <2>1. /\ tpc = "pruning" /\ tpc' \in {"pruning", "deleting"}
          /\ toVisit' = toVisit \ {n}
      BY <1>4 DEF PruneFile
    <2>2. Part' = Part
      BY <2>1 DEF Part
    <2> QED
      BY <2>1, <2>2
  <1>5. CASE OpenCopy \/ FillCopy \/ UnlinkHot
    <2>1. /\ UNCHANGED toVisit
          /\ \/ tpc = "copyOpen" /\ tpc' \in {"copying", "moving"}
             \/ tpc = "copying" /\ tpc' \in {"unlinking", "moving"}
             \/ tpc = "unlinking" /\ tpc' = "moving"
      BY <1>5 DEF OpenCopy, FillCopy, UnlinkHot, AfterFailedCopy
    <2>2. Part' = Part
      BY <2>1 DEF Part
    <2>3. Stage' > Stage
      BY <2>1 DEF Stage
    <2> QED
      BY <2>1, <2>2, <2>3
  <1>6. CASE DeleteCold
    <2>1. UNCHANGED toVisit /\ tpc = "deleting" /\ tpc' = "pruning"
      BY <1>6 DEF DeleteCold
    <2>2. Part' = Part
      BY <2>1 DEF Part
    <2>3. Stage' > Stage
      BY <2>1 DEF Stage
    <2> QED
      BY <2>1, <2>2, <2>3
  <1>7. CASE TestTagDir \/ RemoveTagDir \/ ListCold \/ RoundDone
    <2>1. \/ tpc = "moving" /\ tpc' \in {"removingDir", "pruneNext"}
          \/ tpc = "removingDir" /\ tpc' = "pruneNext"
          \/ tpc = "pruneNext" /\ tpc' = "pruning"
          \/ tpc = "pruning" /\ tpc' = "waiting"
      BY <1>7 DEF TestTagDir, RemoveTagDir, ListCold, RoundDone
    <2> QED
      BY <2>1 DEF Part
  <1> QED
    BY <1>1, <1>2, <1>3, <1>4, <1>5, <1>6, <1>7 DEF WorkerStep

\* Flushes, Stop itself, the date and a crash while it is to stop.
LEMMA OthersDoNotDelay ==
    ASSUME [Next]_vars, ~running', ~WorkerStep
    PROVE  tpc' = "stopped" \/ UNCHANGED work
  <1>1. ASSUME NEW t \in Ts, FlushMkdir(t) PROVE UNCHANGED work
    BY <1>1 DEF FlushMkdir
  <1>2. CASE FlushOpen \/ FlushClose \/ FlushFails \/ Stop \/ Tick \/ UNCHANGED vars
    BY <1>2 DEF FlushOpen, FlushClose, FlushFails, Stop, Tick, vars, tiers, work, past
  <1>3. ~Start
    BY DEF Start
  <1>4. CASE Crash
    BY <1>4 DEF Crash
  <1> QED
    BY <1>1, <1>2, <1>3, <1>4 DEF Next

\* The join in Stop waits for finitely many steps of the worker: at most four for
\* each file that was listed, and a few more.
THEOREM StopIsBounded == Spec => StopAdvances
  <1>1. [Next]_vars => [~running /\ ~running' =>
            IF WorkerStep THEN RoundAdvances ELSE tpc' = "stopped" \/ UNCHANGED work]_vars
    BY WorkerAdvances, OthersDoNotDelay
  <1> QED
    BY <1>1, PTL DEF Spec, StopAdvances
=============================================================================
