---------------------------- MODULE StorageEngine ----------------------------
(***************************************************************************)
(* StorageEngine of src/storage/engine.cpp: the write path (log, fsync,    *)
(* MemTable, latest-value cache, acknowledgement) run by several gRPC      *)
(* handler threads at once, recovery in Init, Flush, Close and crashes.    *)
(*                                                                         *)
(* Write takes no engine-wide lock, so each call it makes is a step of its *)
(* own; MemTable::Add and LatestCache::Update take their own locks. The    *)
(* alarm evaluation and SnapshotStore::OnWrite that follow touch the state *)
(* of AlarmEngine and SnapshotStore only and are modelled there.           *)
(***************************************************************************)
EXTENDS Wal, MemTable

CONSTANTS
    Writer,            \* handler threads
    NotDouble,         \* points whose value is an integer or a string
    LoseUnsyncedSst,   \* TRUE: a crash may empty SSTables, which are never fsynced
    MaxCrashes, MaxCloses, MaxFlushes   \* bounds

ASSUME EngineAssumption ==
    /\ NotDouble \subseteq Point
    /\ LoseUnsyncedSst \in BOOLEAN
    /\ MaxCrashes \in Nat /\ MaxCloses \in Nat /\ MaxFlushes \in Nat

VARIABLES
    phase,      \* "down", "recovering" (Init), "running" (initialized_), "closing"
    flusher,    \* where the thread in StorageEngine::Flush is
    pc,         \* where each handler is in StorageEngine::Write
    cur,        \* the point each handler is writing
    replayPos,  \* the next log entry Init replays
    cache,      \* latest_cache_: {} or {the newest point} for each tag
    seen,       \* history: points that reached the cache since Init
    submitted,  \* history: points whose Write was called
    acked,      \* history: points whose Write returned true
    crashes, closes, flushes   \* history: counts, for the bounds

engineVars == <<phase, flusher, pc, cur, replayPos, cache, seen, submitted, acked,
                crashes, closes, flushes>>
vars == <<walVars, memVars, engineVars>>

Phase == {"down", "recovering", "running", "closing"}
FlusherPc == {"idle", "flushAll", "truncate"}
WriterPc == {"idle", "header", "data", "synced", "flushing", "added", "cached"}

EngineTypeOK ==
    /\ phase \in Phase
    /\ flusher \in FlusherPc
    /\ pc \in [Writer -> WriterPc]
    /\ cur \in [Writer -> Point]
    /\ replayPos \in Nat \ {0}
    /\ cache \in [Tag -> SUBSET Point]
    /\ seen \in SUBSET Point
    /\ submitted \in SUBSET Point
    /\ acked \in SUBSET Point
    /\ crashes \in 0 .. MaxCrashes
    /\ closes \in 0 .. MaxCloses
    /\ flushes \in 0 .. MaxFlushes

TypeOK == WalTypeOK /\ MemTypeOK /\ EngineTypeOK

EmptyCache == [t \in Tag |-> {}]

\* The contents of cur[w] while w has no request in hand.
AnyPoint == CHOOSE p \in Point : TRUE

\* The process has never run and the data directory is empty.
Init ==
    /\ WalInit
    /\ MemInit
    /\ phase = "down"
    /\ flusher = "idle"
    /\ pc = [w \in Writer |-> "idle"]
    /\ cur = [w \in Writer |-> AnyPoint]
    /\ replayPos = 1
    /\ cache = EmptyCache
    /\ seen = {} /\ submitted = {} /\ acked = {}
    /\ crashes = 0 /\ closes = 0 /\ flushes = 0

history == <<submitted, acked, crashes, closes, flushes>>

\* The MemTable's mutex is free.
MemUnlocked == flushing = {} /\ flusher # "flushAll"

-----------------------------------------------------------------------------
(* StorageEngine::Write, one handler thread w *)

\* AppendWrite takes the value as a double before it writes anything, which
\* throws for any other value: the exception leaves Write and the point is
\* neither logged nor stored.
WriteThrows(w, p) ==
    /\ phase = "running" /\ pc[w] = "idle"
    /\ p \in NotDouble \ submitted
    /\ submitted' = submitted \union {p}
    /\ UNCHANGED <<walVars, memVars, phase, flusher, pc, cur, replayPos, cache, seen,
                   acked, crashes, closes, flushes>>

\* A call on the log fails, or returns at once because the log could not be
\* opened; Write ignores the result.
LogCallFails ==
    /\ Fault("wal") \/ (~walOpened /\ UNCHANGED faults)
    /\ UNCHANGED <<walVars, mem, flushing, sst, freshSst, day>>

\* The initialized_ check, then AppendWrite's first WriteRaw.
AppendHeader(w, p) ==
    /\ phase = "running" /\ pc[w] = "idle"
    /\ p \notin submitted \union NotDouble
    /\ submitted' = submitted \union {p}
    /\ cur' = [cur EXCEPT ![w] = p]
    /\ \/ WriteRaw(Header(p)) /\ pc' = [pc EXCEPT ![w] = "header"] /\ UNCHANGED memVars
       \/ LogCallFails /\ pc' = [pc EXCEPT ![w] = "data"]   \* no second WriteRaw
    /\ UNCHANGED <<phase, flusher, replayPos, cache, seen, acked, crashes, closes, flushes>>

\* AppendWrite's second WriteRaw.
AppendData(w) ==
    /\ pc[w] = "header"
    /\ pc' = [pc EXCEPT ![w] = "data"]
    /\ \/ WriteRaw(Data(cur[w])) /\ UNCHANGED memVars
       \/ LogCallFails
    /\ UNCHANGED <<phase, flusher, cur, replayPos, cache, seen, history>>

\* wal_->Flush()
SyncLog(w) ==
    /\ pc[w] = "data"
    /\ pc' = [pc EXCEPT ![w] = "synced"]
    /\ (WalFlush /\ UNCHANGED memVars) \/ LogCallFails
    /\ UNCHANGED <<phase, flusher, cur, replayPos, cache, seen, history>>

\* mem_table_->Add(tag, point), up to the opening of a file if the buffer is full
AddPoint(w) ==
    /\ pc[w] = "synced" /\ MemUnlocked
    /\ Add(cur[w])
    /\ pc' = [pc EXCEPT ![w] = IF flushing' = {} THEN "added" ELSE "flushing"]
    /\ UNCHANGED <<walVars, phase, flusher, cur, replayPos, cache, seen, history>>

\* the rest of the flush that this Add started
FinishFlush(w) ==
    /\ pc[w] = "flushing"
    /\ \E n \in flushing : CloseSst(n)
    /\ pc' = [pc EXCEPT ![w] = "added"]
    /\ UNCHANGED <<walVars, phase, flusher, cur, replayPos, cache, seen, history>>

\* What LatestCache::Update makes of the entry c when p arrives.
OverwriteLatest(c, p) == {p}
NewerOf(c, p) == IF \A q \in c : p.ts >= q.ts THEN {p} ELSE c

\* latest_cache_->Update(tag, point)
UpdateCache(w) ==
    /\ pc[w] = "added"
    /\ cache' = [cache EXCEPT ![cur[w].tag] = NewerOf(@, cur[w])]
    /\ seen' = seen \union {cur[w]}
    /\ pc' = [pc EXCEPT ![w] = "cached"]
    /\ UNCHANGED <<walVars, memVars, phase, flusher, cur, replayPos, history>>

\* return true
Acknowledge(w) ==
    /\ pc[w] = "cached"
    /\ acked' = acked \union {cur[w]}
    /\ pc' = [pc EXCEPT ![w] = "idle"]
    /\ cur' = [cur EXCEPT ![w] = AnyPoint]
    /\ UNCHANGED <<walVars, memVars, phase, flusher, replayPos, cache, seen, submitted,
                   crashes, closes, flushes>>

-----------------------------------------------------------------------------
(* StorageEngine::Init *)

\* A new MemTable, then the log opened for appending; when that fails Init goes
\* on, and the engine runs without a log.
InitOpen ==
    /\ phase = "down"
    /\ phase' = "recovering"
    /\ (WalOpen /\ UNCHANGED faults) \/ (WalOpenFails /\ Fault("wal"))
    /\ mem' = EmptyBuffers
    /\ freshSst' = {}
    /\ replayPos' = 1
    /\ UNCHANGED <<flushing, sst, day, flusher, pc, cur, cache, seen, history>>

\* The next entry that WalReader returned goes into the MemTable.
MoreToReplay == ReaderCanOpen /\ ReadsEntry(walFile, replayPos)

ReplayEntry ==
    /\ phase = "recovering" /\ flushing = {}
    /\ MoreToReplay
    /\ Add(walFile[2 * replayPos].point)
    /\ replayPos' = replayPos + 1
    /\ UNCHANGED <<walVars, phase, flusher, pc, cur, cache, seen, history>>

FinishReplayFlush ==
    /\ phase = "recovering"
    /\ \E n \in flushing : CloseSst(n)
    /\ UNCHANGED <<walVars, engineVars>>

\* The replay ends with the log, or where reading it fails. Then a new, empty
\* LatestCache; initialized_ = true. The log is not truncated.
InitDone ==
    /\ phase = "recovering" /\ flushing = {}
    /\ (~MoreToReplay /\ UNCHANGED faults) \/ Fault("wal")
    /\ phase' = "running"
    /\ cache' = EmptyCache
    /\ seen' = {}
    /\ UNCHANGED <<walVars, mem, flushing, sst, freshSst, day, flusher, pc, cur,
                   replayPos, history>>

-----------------------------------------------------------------------------
(* StorageEngine::Flush and Close *)

\* A caller enters Flush while handlers run: FlushAll takes the lock.
BeginFlush ==
    /\ phase = "running" /\ flusher = "idle" /\ flushing = {}
    /\ flushes < MaxFlushes
    /\ flushes' = flushes + 1
    /\ flusher' = "flushAll"
    /\ UNCHANGED <<walVars, memVars, phase, pc, cur, replayPos, cache, seen,
                   submitted, acked, crashes, closes>>

\* Close enters Flush. main.cpp stops the server, which waits for the handlers,
\* before it closes the engine.
BeginClose ==
    /\ phase = "running" /\ flusher = "idle"
    /\ \A w \in Writer : pc[w] = "idle"
    /\ closes < MaxCloses
    /\ closes' = closes + 1
    /\ phase' = "closing"
    /\ flusher' = "flushAll"
    /\ UNCHANGED <<walVars, memVars, pc, cur, replayPos, cache, seen,
                   submitted, acked, crashes, flushes>>

\* FlushAll's loop over the buffers.
FlushTag(t) ==
    /\ flusher = "flushAll" /\ flushing = {}
    /\ mem[t] # <<>>
    /\ FlushBuffer(mem, t)
    /\ UNCHANGED <<walVars, engineVars>>

FinishFlushTag ==
    /\ flusher = "flushAll"
    /\ \E n \in flushing : CloseSst(n)
    /\ UNCHANGED <<walVars, engineVars>>

FlushAllDone ==
    /\ flusher = "flushAll" /\ flushing = {}
    /\ mem = EmptyBuffers
    /\ flusher' = "truncate"
    /\ UNCHANGED <<walVars, memVars, phase, pc, cur, replayPos, cache, seen, history>>

\* WalReader::Truncate(wal_->Path())
TruncateLog ==
    /\ flusher = "truncate"
    /\ WalTruncate
    /\ flusher' = "idle"
    /\ UNCHANGED <<memVars, phase, pc, cur, replayPos, cache, seen, history>>

\* The rest of Close: the log is closed, initialized_ = false.
CloseDone ==
    /\ phase = "closing" /\ flusher = "idle"
    /\ phase' = "down"
    /\ UNCHANGED <<walVars, memVars, flusher, pc, cur, replayPos, cache, seen, history>>

-----------------------------------------------------------------------------
\* The process dies; with LoseUnsyncedSst the machine does, which may also
\* happen while the process is down.
Crash ==
    /\ phase # "down" \/ LoseUnsyncedSst
    /\ crashes < MaxCrashes
    /\ crashes' = crashes + 1
    /\ WalCrash
    /\ \E lost \in IF LoseUnsyncedSst THEN SUBSET freshSst ELSE {{}} :
           sst' = [n \in SstName |-> IF n \in lost THEN {} ELSE sst[n]]
    /\ mem' = EmptyBuffers
    /\ flushing' = {}
    /\ phase' = "down"
    /\ flusher' = "idle"
    /\ pc' = [w \in Writer |-> "idle"]
    /\ cur' = [w \in Writer |-> AnyPoint]
    /\ cache' = EmptyCache
    /\ seen' = {}
    /\ UNCHANGED <<freshSst, day, faults, replayPos, submitted, acked, closes, flushes>>

Midnight == NextDay /\ UNCHANGED <<walVars, engineVars>>

WriteStep(w) ==
    \/ AppendData(w) \/ SyncLog(w) \/ AddPoint(w) \/ FinishFlush(w)
    \/ UpdateCache(w) \/ Acknowledge(w)

RecoveryStep == ReplayEntry \/ FinishReplayFlush \/ InitDone

FlushStep ==
    \/ \E t \in Tag : FlushTag(t)
    \/ FinishFlushTag \/ FlushAllDone \/ TruncateLog \/ CloseDone

Next ==
    \/ \E w \in Writer, p \in Point : AppendHeader(w, p) \/ WriteThrows(w, p)
    \/ \E w \in Writer : WriteStep(w)
    \/ InitOpen \/ RecoveryStep
    \/ BeginFlush \/ BeginClose \/ FlushStep
    \/ Crash \/ Midnight

Spec == Init /\ [][Next]_vars

\* Threads that can take a step do: the OS schedules every thread, and no step
\* waits for anything but the MemTable's mutex. Starting, stopping, crashing
\* and the clients' requests are not forced.
Fairness ==
    /\ \A w \in Writer : WF_vars(WriteStep(w))
    /\ WF_vars(RecoveryStep)
    /\ WF_vars(FlushStep)

FairSpec == Spec /\ Fairness

-----------------------------------------------------------------------------
(* Properties *)

\* What Init would find again if the process were to start now.
Recoverable == SstPoints \union (IF Win32 THEN {} ELSE Readable(walFile))

\* Every acknowledged write can be recovered: for each of them a point of the
\* same tag and timestamp is in an SSTable or in the part of the log a replay
\* reads. This is what openspec/specs/lsm-storage-engine/spec.md promises.
AckedRecovered ==
    \A p \in acked : \E q \in Recoverable : q.tag = p.tag /\ q.ts = p.ts

\* The conditions under which the code keeps that promise: POSIX, no failed
\* I/O call, no Flush while handlers run, SSTables that survive a crash, and
\* no timestamp written twice.
SoundDeployment ==
    /\ ~Win32 /\ ~LoseUnsyncedSst
    /\ MaxFaults = 0 /\ MaxFlushes = 0
    /\ DistinctTs

\* As long as no two AppendWrite calls were interleaved and no crash cut an
\* entry that was later appended to, every acknowledged write is in an SSTable
\* or in the readable part of the log, across any number of crashes,
\* recoveries and clean restarts.
AckedDurable ==
    SoundDeployment /\ ~walDamaged => acked \subseteq SstPoints \union Readable(walFile)

\* Until the log is first truncated it holds every acknowledged write by
\* itself, whatever a power failure does to the SSTables and to the part of the
\* log that was not fsynced. On Windows the log is never truncated.
LogHoldsAcked ==
    (faults = 0 /\ (Win32 \/ flushes + closes = 0) /\ ~walDamaged)
        => acked \subseteq Readable(walFile)

\* A flush may reuse the name of an existing file (after a recovery the same
\* buffers fill again) and truncates it. Whatever thereby leaves the SSTables
\* is still in the log.
FlushKeepsPoints ==
    [][SoundDeployment /\ ~walDamaged'
          => SstPoints \ SstPoints' \subseteq Readable(walFile')]_vars

\* On either platform, an engine that only ever stopped by Close has every
\* acknowledged point in an SSTable when it is down.
CleanCloseDurable ==
    (phase = "down" /\ crashes + faults = 0 /\ DistinctTs)
        => acked \subseteq SstPoints

\* Whatever the order in which the handlers reach it, the latest-value cache
\* holds the newest of the points that were put in it since Init.
LatestIsNewest ==
    \A t \in Tag :
        LET S == {p \in seen : p.tag = t} IN
        /\ cache[t] = {} <=> S = {}
        /\ cache[t] \subseteq S
        /\ \A p \in cache[t], q \in S : p.ts >= q.ts

\* A Write that has started returns, unless the process dies: no handler waits
\* for ever on the MemTable's mutex or on a flush.
WriteReturns == \A w \in Writer : pc[w] # "idle" ~> pc[w] = "idle"

\* Init finishes its replay, and Close its flush, unless the process dies.
RestartCompletes ==
    phase \in {"recovering", "closing"} ~> phase \in {"running", "down"}

\* Whoever finds the MemTable's mutex taken waits for one holder that can go on:
\* a handler that is writing the file of a full buffer, FlushAll, or Init before
\* there are any handlers. A holder with a file open has points to put in it.
\* (This and the two after it are what makes WriteReturns and RestartCompletes
\* hold once threads are scheduled.)
MutexHasOwner ==
    /\ \A v, w \in Writer : pc[v] = "flushing" /\ pc[w] = "flushing" => v = w
    /\ \A w \in Writer : pc[w] = "flushing" =>
           phase = "running" /\ flusher # "flushAll" /\ flushing # {}
    /\ flushing # {} => \/ phase = "recovering" \/ flusher = "flushAll"
                        \/ \E w \in Writer : pc[w] = "flushing"
    /\ \A m, n \in flushing : m = n
    /\ \A n \in flushing : mem[n.tag] # <<>>

Unflushed == {t \in Tag : mem[t] # <<>>}

\* FlushAll gets nearer to its end with each of its steps, at most two to a
\* buffer, and whatever else runs meanwhile leaves the buffers to it.
FlushAllAdvances ==
    IF FlushStep
    THEN \/ flusher' = "truncate"
         \/ flushing' = {} /\ Unflushed' \subseteq Unflushed /\ Unflushed' # Unflushed
         \/ flushing = {} /\ flushing' # {} /\ UNCHANGED mem
    ELSE phase' = "down" \/ UNCHANGED <<phase, flusher, mem, flushing>>

\* So does Init: the log it replays stays as it is.
ReplayAdvances ==
    IF RecoveryStep
    THEN /\ UNCHANGED walFile
         /\ \/ phase' = "running"
            \/ replayPos' = replayPos + 1 /\ 2 * replayPos <= Len(walFile)
            \/ UNCHANGED replayPos /\ flushing # {} /\ flushing' = {}
    ELSE phase' = "down" \/ UNCHANGED <<phase, replayPos, walFile, mem, flushing>>

\* The waits for Init and for FlushAll are bounded, in steps of the thread that
\* is waited for.
WaitsAreBounded ==
    [][/\ flusher = "flushAll" => FlushAllAdvances
       /\ phase = "recovering" => ReplayAdvances]_vars

\* The engine as a DurableStore: a point is kept from the moment a restart would
\* find it, and the promise ends when the log is damaged.
Store == INSTANCE DurableStore WITH
    kept <- Recoverable,
    damaged <- walDamaged \/ ~SoundDeployment

\* The engine implements DurableStore: every step of a handler, of a flush, of
\* a recovery or of Close adds at most one point to what a restart would find
\* and takes none away (the truncation of the log, and a flush that reuses a
\* file name after a recovery, included), only a point that would be found is
\* acknowledged, and a crash loses unacknowledged points only.
ImplementsStore == Store!Spec

-----------------------------------------------------------------------------
(* The inductive invariant behind AckedDurable. *)

\* The points whose data piece is among the first n pieces of f; on a
\* well-formed file that is what a replay of those pieces yields.
DataIn(f, n) == {f[i].point : i \in {i \in 1 .. n : f[i].part = "data"}}

Logged == DataIn(walFile, Len(walFile))
LoggedSynced == DataIn(walFile, walSynced)
Buffered == UNION {PointsIn(mem[t]) : t \in Tag}
FreshPoints == UNION {sst[n] : n \in freshSst}

\* Points a handler has in hand that have not reached the MemTable.
InFlight == {cur[w] : w \in {w \in Writer : pc[w] \in {"header", "data", "synced"}}}

\* The file was named after p.
NamedAfter(n, p) == n.tag = p.tag /\ n.ts = p.ts

\* No point was logged twice.
DistinctData(f) ==
    \A i, j \in 1 .. Len(f) :
        f[i].part = "data" /\ f[j].part = "data" /\ f[i].point = f[j].point => i = j

LogInv ==
    /\ WellFormed(walFile) /\ walOpened
    /\ DistinctData(walFile)
    /\ phase \in {"down", "recovering"} => walSynced = Len(walFile)
    /\ phase \in {"recovering", "running"} => walLinked
    /\ phase = "closing" /\ flusher = "idle" => walFile = <<>>

ThreadInv ==
    /\ phase # "running" => \A w \in Writer : pc[w] = "idle"
    /\ flusher # "idle" => phase = "closing"
    /\ flusher = "truncate" => mem = EmptyBuffers /\ flushing = {}
    /\ phase \in {"down", "closing"} /\ flusher = "idle" => mem = EmptyBuffers /\ flushing = {}
    /\ \A v, w \in Writer : v # w /\ pc[v] # "idle" /\ pc[w] # "idle" => cur[v] # cur[w]

HandlerInv ==
    \A w \in Writer :
        /\ pc[w] # "idle" => cur[w] \in submitted
        /\ pc[w] = "header" => cur[w] \notin Logged
        /\ pc[w] = "data" => cur[w] \in Logged
        /\ pc[w] \in {"synced", "flushing", "added", "cached"} => cur[w] \in LoggedSynced
        /\ pc[w] \in {"header", "data", "synced"} => cur[w] \notin Buffered \union SstPoints

FileInv ==
    /\ \A n \in SstName : sst[n] # {} => \E p \in sst[n] : NamedAfter(n, p)
    /\ \A n \in SstName : (\E p \in Logged : NamedAfter(n, p)) => sst[n] \subseteq LoggedSynced
    /\ \A n \in flushing :
           /\ mem[n.tag] # <<>> /\ NamedAfter(n, mem[n.tag][1])
           /\ sst[n] = {} /\ n \notin freshSst

BufferInv ==
    /\ \A t \in Tag : \A p \in PointsIn(mem[t]) : p.tag = t
    /\ Buffered \subseteq LoggedSynced
    /\ Buffered \intersect FreshPoints = {}

\* Nothing in the log is missing from both the MemTable and the files of this
\* run, so that nothing is lost when the log is removed.
CoverInv ==
    /\ phase = "running" => Logged \subseteq Buffered \union FreshPoints \union InFlight
    /\ phase = "closing" => Logged \subseteq Buffered \union FreshPoints
    /\ phase = "recovering" =>
           \A k \in 1 .. Len(walFile) : 2 * k <= Len(walFile) =>
               IF k < replayPos THEN walFile[2 * k].point \in Buffered \union FreshPoints
                                ELSE walFile[2 * k].point \notin Buffered \union FreshPoints

HistoryInv ==
    /\ Logged \union SstPoints \subseteq submitted
    /\ acked \subseteq SstPoints \union LoggedSynced

NothingLost ==
    LogInv /\ ThreadInv /\ HandlerInv /\ FileInv /\ BufferInv /\ CoverInv /\ HistoryInv

\* The inductive invariant, checked by TLC before it is proved.
DurabilityInv == SoundDeployment /\ ~walDamaged => NothingLost

-----------------------------------------------------------------------------
(* The inductive invariants behind the other properties. *)

\* A request is on record before anything comes of it.
RequestInv ==
    /\ acked \subseteq submitted
    /\ \A w \in Writer : pc[w] # "idle" => cur[w] \in submitted

\* As long as nothing removed the log or cut it short, what a handler has
\* fsynced is in it, and so is what was acknowledged.
LogKept == faults = 0 /\ (Win32 \/ flushes + closes = 0) /\ ~walDamaged

LogKeptInv ==
    LogKept =>
        /\ WellFormed(walFile) /\ walOpened /\ walLinked
        /\ Win32 \/ flusher = "idle"
        /\ \A w \in Writer :
               /\ pc[w] = "data" => cur[w] \in Logged
               /\ pc[w] \in {"synced", "flushing", "added", "cached"} => cur[w] \in LoggedSynced
        /\ acked \subseteq LoggedSynced

\* An engine that was only ever stopped by Close finds no log to replay, and
\* every point is in exactly one place: with a handler, in a buffer or in a file.
CleanLogInv ==
    phase \in {"down", "recovering"} \/ (phase = "closing" /\ flusher = "idle")
        => Win32 \/ walFile = <<>>

CleanThreadInv ==
    /\ phase # "running" => \A w \in Writer : pc[w] = "idle"
    /\ flusher # "idle" => phase \in {"running", "closing"}
    /\ phase # "running" /\ flusher # "flushAll" => mem = EmptyBuffers /\ flushing = {}
    /\ \A v, w \in Writer : v # w /\ pc[v] # "idle" /\ pc[w] # "idle" => cur[v] # cur[w]

CleanHandlerInv ==
    \A w \in Writer :
        /\ pc[w] \in {"header", "data", "synced"} => cur[w] \notin Buffered \union SstPoints
        /\ pc[w] \in {"flushing", "added", "cached"} => cur[w] \in Buffered \union SstPoints

CleanFileInv ==
    /\ \A n \in SstName : sst[n] # {} => \E p \in sst[n] : NamedAfter(n, p)
    /\ \A n \in flushing :
           mem[n.tag] # <<>> /\ NamedAfter(n, mem[n.tag][1]) /\ sst[n] = {}

CleanBufferInv ==
    /\ \A t \in Tag : \A p \in PointsIn(mem[t]) : p.tag = t
    /\ Buffered \intersect SstPoints = {}

CleanHistoryInv ==
    /\ Buffered \union SstPoints \subseteq submitted
    /\ acked \subseteq Buffered \union SstPoints

CleanEngine == crashes + faults = 0 /\ DistinctTs

CleanInv ==
    CleanEngine =>
        /\ walOpened
        /\ CleanLogInv /\ CleanThreadInv /\ CleanHandlerInv
        /\ CleanFileInv /\ CleanBufferInv /\ CleanHistoryInv

\* The points of a buffer are of its tag, and so is the file they are flushed to.
BufferTags == \A t \in Tag : \A p \in PointsIn(mem[t]) : p.tag = t

\* Handlers run in a running engine only, and nothing is flushed while it is down.
MutexInv ==
    /\ phase # "running" => \A w \in Writer : pc[w] = "idle"
    /\ flusher # "idle" => phase \in {"running", "closing"}
    /\ MutexHasOwner
    /\ BufferTags
=============================================================================
