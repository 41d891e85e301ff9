----------------------------- MODULE TierManager -----------------------------
(***************************************************************************)
(* TierManager of src/storage/tier_manager.cpp: the background thread that *)
(* moves the expired SSTables of a tag from the hot to the cold tier and   *)
(* prunes or archives the expired ones there, while the flush callback of  *)
(* StorageEngine::Init adds files to the hot directory. The directories of *)
(* different tags share nothing, so one tag stands for all.                *)
(*                                                                         *)
(* Time is counted in days. A file is its modification time and the number *)
(* of the flush whose points it holds, 0 while they are not all there. The *)
(* file primitives are the POSIX ones of src/common/os/fs.cpp: rename      *)
(* keeps the modification time and fails between volumes, Copy does not    *)
(* keep it.                                                                *)
(***************************************************************************)
EXTENDS Integers

CONSTANTS
    Ts,                    \* first timestamps of the buffers that are flushed
    HotDays, ColdDays,     \* hot_retention_days_, cold_retention_days_
    Archive,               \* is archive_path_ set?
    ColdSameVolume,        \* is cold_path on the volume of hot_path?
    ArchiveSameVolume,     \* is archive_path on the volume of cold_path?
    MaxDay, MaxFlushes, MaxCrashes, MaxFaults   \* bounds

ASSUME TierAssumption ==
    /\ Ts # {}
    /\ HotDays \in Nat \ {0} /\ ColdDays \in Nat
    /\ Archive \in BOOLEAN /\ ColdSameVolume \in BOOLEAN /\ ArchiveSameVolume \in BOOLEAN
    /\ MaxDay \in Nat /\ MaxFlushes \in Nat /\ MaxCrashes \in Nat /\ MaxFaults \in Nat

VARIABLES
    now,        \* the date
    dirExists,  \* is there a directory hot/tags/<tag>?
    hot, cold, archive,   \* the three tiers
    flush,      \* where the flush callback is, and the name of its file
    running,    \* running_
    tpc,        \* where the worker is
    cutoff,     \* cutoff_ms
    toVisit,    \* the listed files it has not come to
    cur,        \* the one it is copying or deleting
    born,       \* history: the day of each completed flush, -1 before it
    rewritten,  \* history: did two flushes use the same name?
    flushes, crashes, faults   \* history: counts, for the bounds

tiers == <<hot, cold, archive>>
work == <<tpc, cutoff, toVisit, cur>>
past == <<born, rewritten, flushes>>
vars == <<now, dirExists, tiers, flush, running, work, past, crashes, faults>>

Day == 0 .. MaxDay
FlushId == 1 .. MaxFlushes
Name == [day : Day, ts : Ts]
File == [mtime : Day, id : 0 .. MaxFlushes]
NoFile == [mtime |-> 0, id |-> -1]

Holding(tier) == {n \in Name : tier[n] # NoFile}

WorkerPc ==
    {"stopped", "waiting", "moving", "copyOpen", "copying", "unlinking", "removingDir",
     "pruneNext", "pruning", "deleting"}

TypeOK ==
    /\ now \in Day
    /\ dirExists \in BOOLEAN
    /\ \A tier \in {hot, cold, archive} : tier \in [Name -> File \union {NoFile}]
    /\ flush \in [at : {"idle", "mkdir", "writing"}, name : Name]
    /\ running \in BOOLEAN
    /\ tpc \in WorkerPc
    /\ cutoff \in -(HotDays + ColdDays) .. MaxDay
    /\ toVisit \in SUBSET Name
    /\ cur \in Name
    /\ born \in [FlushId -> Day \union {-1}]
    /\ rewritten \in BOOLEAN
    /\ flushes \in 0 .. MaxFlushes
    /\ crashes \in 0 .. MaxCrashes
    /\ faults \in 0 .. MaxFaults

AnyName == CHOOSE n \in Name : TRUE

Init ==
    /\ now = 0
    /\ dirExists = FALSE
    /\ hot = [n \in Name |-> NoFile] /\ cold = hot /\ archive = hot
    /\ flush = [at |-> "idle", name |-> AnyName]
    /\ running = FALSE /\ tpc = "stopped"
    /\ cutoff = 0 /\ toVisit = {} /\ cur = AnyName
    /\ born = [i \in FlushId |-> -1] /\ rewritten = FALSE
    /\ flushes = 0 /\ crashes = 0 /\ faults = 0

\* MaxFaults bounds the failing calls and the crashes together.
Fault == faults + crashes < MaxFaults /\ faults' = faults + 1

-----------------------------------------------------------------------------
(* The flush callback of StorageEngine::Init *)

\* <date>_<ts>.sst
NameWithoutDate(t) == [day |-> 0, ts |-> t]
SstName(t) == [day |-> now, ts |-> t]

\* The file name is chosen and the tag's directory created.
FlushMkdir(t) ==
    /\ flush.at = "idle" /\ flushes < MaxFlushes
    /\ flush' = [at |-> "mkdir", name |-> SstName(t)]
    /\ flushes' = flushes + 1
    /\ dirExists' = TRUE
    /\ UNCHANGED <<now, tiers, running, work, born, rewritten, crashes, faults>>

\* SSTableWriter::Open creates or truncates the file, and fails if the directory
\* is gone; the callback then returns and the buffer is cleared all the same.
FlushOpen ==
    /\ flush.at = "mkdir"
    /\ IF dirExists
       THEN /\ hot' = [hot EXCEPT ![flush.name] = [mtime |-> now, id |-> 0]]
            /\ flush' = [flush EXCEPT !.at = "writing"]
            /\ rewritten' = (rewritten \/ hot[flush.name] # NoFile)
       ELSE /\ flush' = [flush EXCEPT !.at = "idle"]
            /\ UNCHANGED <<hot, rewritten>>
    /\ UNCHANGED <<now, dirExists, cold, archive, running, work, born, flushes, crashes, faults>>

\* SSTableWriter::Close
FlushClose ==
    /\ flush.at = "writing"
    /\ hot' = [hot EXCEPT ![flush.name] = [mtime |-> now, id |-> flushes]]
    /\ born' = [born EXCEPT ![flushes] = now]
    /\ flush' = [flush EXCEPT !.at = "idle"]
    /\ UNCHANGED <<now, dirExists, cold, archive, running, work, rewritten, flushes,
                   crashes, faults>>

\* CreateDirectories, Open, AddBlock or Close fails: the callback looks at the
\* result of Open only, and the buffer is cleared all the same. What has been
\* written stays.
FlushFails ==
    /\ flush.at # "idle"
    /\ Fault
    /\ flush' = [flush EXCEPT !.at = "idle"]
    /\ UNCHANGED <<now, dirExists, tiers, running, work, past, crashes>>

-----------------------------------------------------------------------------
(* Start, Stop, WorkerLoop *)

Start ==
    /\ ~running /\ tpc = "stopped"
    /\ running' = TRUE /\ tpc' = "waiting"
    /\ UNCHANGED <<now, dirExists, tiers, flush, cutoff, toVisit, cur, past, crashes, faults>>

\* Stop clears the flag and joins the worker, which finishes its round first.
Stop ==
    /\ running
    /\ running' = FALSE
    /\ UNCHANGED <<now, dirExists, tiers, flush, work, past, crashes, faults>>

\* while (running_)
AlwaysContinue == TRUE
Continue == running

WorkerExit ==
    /\ tpc = "waiting" /\ ~Continue
    /\ tpc' = "stopped"
    /\ UNCHANGED <<now, dirExists, tiers, flush, running, cutoff, toVisit, cur, past, crashes, faults>>

-----------------------------------------------------------------------------
(* MoveExpiredHotToCold *)

DaysAgo(days) == now - days

\* The clock is read and the tag's directory, if it is there, listed.
ListHot ==
    /\ tpc = "waiting" /\ Continue
    /\ cutoff' = DaysAgo(HotDays)
    /\ IF dirExists THEN tpc' = "moving" /\ toVisit' = Holding(hot)
                    ELSE tpc' = "pruneNext" /\ toVisit' = {}
    /\ UNCHANGED <<now, dirExists, tiers, flush, running, cur, past, crashes, faults>>

SwappedComparison(tier, n) == tier[n] # NoFile /\ tier[n].mtime > cutoff
Expired(tier, n) == tier[n] # NoFile /\ tier[n].mtime < cutoff

\* A file that is not expired is left; an expired one is renamed into the cold
\* tier or, if that fails, copied. Nothing but this thread touches an expired
\* file, so that the stat and the rename are one step.
MoveFile(n) ==
    /\ tpc = "moving" /\ n \in toVisit
    /\ toVisit' = toVisit \ {n}
    /\ \/ ~Expired(hot, n) /\ UNCHANGED <<hot, cold, tpc, cur, faults>>
       \/ /\ Expired(hot, n) /\ ColdSameVolume
          /\ cold' = [cold EXCEPT ![n] = hot[n]]
          /\ hot' = [hot EXCEPT ![n] = NoFile]
          /\ UNCHANGED <<tpc, cur, faults>>
       \/ /\ Expired(hot, n)
          /\ IF ColdSameVolume THEN Fault ELSE UNCHANGED faults
          /\ tpc' = "copyOpen" /\ cur' = n
          /\ UNCHANGED <<hot, cold>>
    /\ UNCHANGED <<now, dirExists, archive, flush, running, cutoff, past, crashes>>

\* os::fs::Copy: the target is created or truncated, then filled. When either
\* fails, what is there stays there, and so does the original.
OpenCopy ==
    /\ tpc = "copyOpen"
    /\ \/ /\ cold' = [cold EXCEPT ![cur] = [mtime |-> now, id |-> 0]]
          /\ tpc' = "copying"
          /\ UNCHANGED faults
       \/ Fault /\ tpc' = "moving" /\ UNCHANGED cold
    /\ UNCHANGED <<now, dirExists, hot, archive, flush, running, cutoff, toVisit, cur, past, crashes>>

RemoveAnyway == "unlinking"
AfterFailedCopy == "moving"

FillCopy ==
    /\ tpc = "copying"
    /\ \/ /\ cold' = [cold EXCEPT ![cur] = [mtime |-> now, id |-> hot[cur].id]]
          /\ tpc' = "unlinking"
          /\ UNCHANGED faults
       \/ Fault /\ tpc' = AfterFailedCopy /\ UNCHANGED cold
    /\ UNCHANGED <<now, dirExists, hot, archive, flush, running, cutoff, toVisit, cur, past, crashes>>

\* The original is removed; a failure goes unnoticed.
RemoveOriginal ==
    \/ hot' = [hot EXCEPT ![cur] = NoFile] /\ UNCHANGED faults
    \/ Fault /\ UNCHANGED hot

UnlinkHot ==
    /\ tpc = "unlinking"
    /\ RemoveOriginal
    /\ tpc' = "moving"
    /\ UNCHANGED <<now, dirExists, cold, archive, flush, running, cutoff, toVisit, cur, past, crashes>>

\* IsEmpty lists the tag's directory again; one it cannot open is empty to it.
TestTagDir ==
    /\ tpc = "moving" /\ toVisit = {}
    /\ \/ tpc' = (IF Holding(hot) = {} THEN "removingDir" ELSE "pruneNext") /\ UNCHANGED faults
       \/ Fault /\ tpc' = "removingDir"
    /\ UNCHANGED <<now, dirExists, tiers, flush, running, cutoff, toVisit, cur, past, crashes>>

\* os::fs::Remove, a call of its own. A flush may have come in between: if its
\* file is there already, rmdir fails; if only its CreateDirectories has been
\* called, the directory goes and FlushOpen will not find it.
RemoveTagDir ==
    /\ tpc = "removingDir"
    /\ \/ dirExists' = (Holding(hot) # {}) /\ UNCHANGED faults
       \/ Fault /\ UNCHANGED dirExists
    /\ tpc' = "pruneNext"
    /\ UNCHANGED <<now, tiers, flush, running, cutoff, toVisit, cur, past, crashes>>

-----------------------------------------------------------------------------
(* PruneExpiredCold *)

ListCold ==
    /\ tpc = "pruneNext"
    /\ cutoff' = DaysAgo(ColdDays)
    /\ toVisit' = Holding(cold)
    /\ tpc' = "pruning"
    /\ UNCHANGED <<now, dirExists, tiers, flush, running, cur, past, crashes, faults>>

\* ArchiveToExternal: a rename, which fails between volumes and whose result
\* nobody looks at.
SkipArchive(n) == UNCHANGED <<cold, archive, faults>>

ArchiveToExternal(n) ==
    \/ /\ ArchiveSameVolume
       /\ archive' = [archive EXCEPT ![n] = cold[n]]
       /\ cold' = [cold EXCEPT ![n] = NoFile]
       /\ UNCHANGED faults
    \/ /\ IF ArchiveSameVolume THEN Fault ELSE UNCHANGED faults
       /\ UNCHANGED <<cold, archive>>

\* A file that is not expired is left; an expired one is archived, if there is
\* an archive, and then deleted.
PruneFile(n) ==
    /\ tpc = "pruning" /\ n \in toVisit
    /\ toVisit' = toVisit \ {n}
    /\ \/ ~Expired(cold, n) /\ UNCHANGED <<cold, archive, tpc, cur, faults>>
       \/ /\ Expired(cold, n)
          /\ tpc' = "deleting" /\ cur' = n
          /\ IF Archive THEN ArchiveToExternal(n) ELSE UNCHANGED <<cold, archive, faults>>
    /\ UNCHANGED <<now, dirExists, hot, flush, running, cutoff, past, crashes>>

\* The file is removed, if it is still there.
DeleteCold ==
    /\ tpc = "deleting"
    /\ tpc' = "pruning"
    /\ \/ cold' = [cold EXCEPT ![cur] = NoFile] /\ UNCHANGED faults
       \/ Fault /\ UNCHANGED cold
    /\ UNCHANGED <<now, dirExists, hot, archive, flush, running, cutoff, toVisit, cur, past, crashes>>

RoundDone ==
    /\ tpc = "pruning" /\ toVisit = {}
    /\ tpc' = "waiting"
    /\ UNCHANGED <<now, dirExists, tiers, flush, running, cutoff, toVisit, cur, past, crashes, faults>>

-----------------------------------------------------------------------------
\* The process dies; the files stay as they are.
Crash ==
    /\ crashes < MaxCrashes /\ faults + crashes < MaxFaults
    /\ crashes' = crashes + 1
    /\ flush' = [flush EXCEPT !.at = "idle"]
    /\ running' = FALSE /\ tpc' = "stopped" /\ toVisit' = {}
    /\ UNCHANGED <<now, dirExists, tiers, cutoff, cur, past, faults>>

\* A day passes. No flush takes that long.
Tick ==
    /\ now < MaxDay /\ flush.at = "idle"
    /\ now' = now + 1
    /\ UNCHANGED <<dirExists, tiers, flush, running, work, past, crashes, faults>>

WorkerStep ==
    \/ WorkerExit \/ ListHot
    \/ \E n \in toVisit : MoveFile(n) \/ PruneFile(n)
    \/ OpenCopy \/ FillCopy \/ UnlinkHot \/ TestTagDir \/ RemoveTagDir
    \/ ListCold \/ DeleteCold \/ RoundDone

Next ==
    \/ \E t \in Ts : FlushMkdir(t)
    \/ FlushOpen \/ FlushClose \/ FlushFails
    \/ Start \/ Stop
    \/ WorkerStep
    \/ Crash \/ Tick

Spec == Init /\ [][Next]_vars

\* The worker thread is scheduled whenever it can run.
FairSpec == Spec /\ WF_vars(WorkerStep)

-----------------------------------------------------------------------------
(* Properties *)

Kept(i) == \E tier \in {hot, cold, archive} : \E n \in Name : tier[n].id = i

\* Whatever copies, removals and crashes come in between, the points of a flush
\* are whole in some tier until they are older than both retention times allow.
\* (No run lists this one: it is part of ImplementsRetention.)
KeptUntilExpired ==
    ~rewritten => \A i \in FlushId : born[i] >= 0 /\ ~Kept(i) => now - born[i] > ColdDays

\* A whole file of the cold tier is never written over by that of another flush:
\* the move does not look whether its target exists, but by the time a file is
\* moved its name, which has the date in it, cannot come up again. (A copy that
\* is repeated after a crash truncates its first attempt, not another file.)
ColdNotOverwritten ==
    [][\A n \in Name : cold[n].id > 0 /\ cold'[n] # NoFile
          => cold[n].id \in {cold'[n].id, hot[n].id}]_vars

\* While the worker runs, an expired file does leave the hot tier, failed
\* renames, copies and removals notwithstanding.
ExpiredLeavesHot ==
    \A n \in Name :
        (running /\ hot[n] # NoFile /\ hot[n].mtime < now - HotDays) ~> (hot[n] = NoFile \/ ~running)

\* Stop returns: the worker it joins comes to an end.
StopReturns == ~running ~> tpc = "stopped" \/ running

\* With an archive on the volume of the cold tier, nothing is ever deleted as
\* long as no system call fails; the removal that follows the rename finds
\* nothing to remove.
ArchivedNotDeleted ==
    Archive /\ ArchiveSameVolume /\ faults = 0 /\ ~rewritten =>
        \A i \in FlushId : born[i] >= 0 => Kept(i)

\* How far a round has come: the hot tier, the cold tier, the wait; and within a
\* tier how far the move or the deletion of one file.
Part ==
    CASE tpc \in {"moving", "copyOpen", "copying", "unlinking"} -> 1
      [] tpc = "removingDir"             -> 2
      [] tpc = "pruneNext"               -> 3
      [] tpc \in {"pruning", "deleting"} -> 4
      [] tpc = "waiting"                 -> 5
      [] tpc = "stopped"                 -> 6

Stage ==
    CASE tpc = "copyOpen"                -> 1
      [] tpc = "copying"                 -> 2
      [] tpc \in {"unlinking", "deleting"} -> 3
      [] tpc \in {"moving", "pruning"}   -> 4
      [] OTHER                           -> 5

RoundAdvances ==
    \/ Part' > Part
    \/ Part' = Part /\ toVisit' \subseteq toVisit /\ toVisit' # toVisit
    \/ Part' = Part /\ toVisit' = toVisit /\ Stage' > Stage

\* Once Stop has cleared the flag, the worker comes nearer to its end with each of
\* its steps, failed copies and removals included, and neither a flush nor the
\* date gives it more to do. (This is what makes StopReturns hold; it is proved,
\* and no run lists it.)
StopAdvances ==
    [][~running /\ ~running' =>
           IF WorkerStep THEN RoundAdvances ELSE tpc' = "stopped" \/ UNCHANGED work]_vars

-----------------------------------------------------------------------------
(* The abstract specification *)

Tiers == INSTANCE RetainedFlushes WITH
    Flush <- FlushId,
    Retention <- ColdDays,
    Archived <- Archive /\ ArchiveSameVolume,
    kept <- {i \in FlushId : Kept(i)},
    failed <- faults > 0,
    spoilt <- rewritten

\* Seen from outside, the worker does one thing only, and to one flush at a
\* time: it forgets a flush that is old enough. Nothing else that it, the flush
\* callback or a crash does takes a flush away or brings a forgotten one back.
ImplementsRetention == Tiers!Spec

-----------------------------------------------------------------------------
(* The inductive invariants behind these properties. *)

\* The callback writes a file of today, which is there until it is closed, and
\* numbers its flushes upwards.
FlushInv ==
    /\ flush.at # "idle" => flush.name.day = now /\ flushes > 0
    /\ flush.at = "writing" => hot[flush.name] = [mtime |-> now, id |-> 0]
    /\ \A i \in FlushId : born[i] >= 0 => i <= flushes /\ (flush.at # "idle" => i # flushes)

\* A name tells the day on which the only flush to use it (or the last one)
\* wrote its file, and by the time the file leaves the hot tier that day is
\* over: so what the tiers hold under one name is the same flush or no flush.
NameInv ==
    \A n \in Name :
        /\ hot[n] # NoFile => hot[n].mtime = n.day /\ n.day <= now
        /\ cold[n] # NoFile => n.day <= cold[n].mtime /\ n.day < now - HotDays
        /\ archive[n] # NoFile => n.day < now - HotDays
        /\ \A tier \in {hot, cold, archive} : tier[n].id > 0 => born[tier[n].id] = n.day
        /\ hot[n] # NoFile /\ cold[n] # NoFile => cold[n].id \in {0, hot[n].id}

\* What the worker has read stays true until it uses it.
InMove == {"moving", "copyOpen", "copying", "unlinking"}
InPrune == {"removingDir", "pruneNext", "pruning", "deleting"}

WorkInv ==
    /\ tpc \in InMove => cutoff <= now - HotDays
    /\ tpc \in {"pruning", "deleting"} => cutoff <= now - ColdDays
    /\ tpc \in {"copyOpen", "copying", "unlinking"} => Expired(hot, cur)
    /\ tpc = "unlinking" => cold[cur] # NoFile /\ cold[cur].id = hot[cur].id
    /\ tpc = "deleting" => cur.day < now - ColdDays

\* The files of the hot tier have a directory, so that the worker, which lists
\* it, sees them all.
FilesHaveDirectory == Holding(hot) # {} => dirExists

\* As long as no system call fails, every file that a crash has left in both
\* tiers is moved again before the cold tier is pruned, and so an archived file
\* is in the archive alone.
PairInv ==
    faults = 0 =>
        /\ \A n \in Name : hot[n] # NoFile /\ cold[n] # NoFile =>
               /\ tpc \notin InPrune
               /\ tpc \in InMove => n.day < cutoff /\ n \in toVisit \union (IF tpc = "moving" THEN {} ELSE {cur})
        /\ \A n \in Name : archive[n] # NoFile => hot[n] = NoFile /\ cold[n] = NoFile
        /\ tpc = "deleting" /\ Archive /\ ArchiveSameVolume => cold[cur] = NoFile
=============================================================================
