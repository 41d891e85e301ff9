------------------------------- MODULE MemTable -------------------------------
(***************************************************************************)
(* The MemTable of src/storage/memtable.cpp together with the flush        *)
(* callback that StorageEngine::Init installs, which writes a full tag     *)
(* buffer to an SSTable file named after the local date and the first      *)
(* timestamp of the buffer.                                                *)
(*                                                                         *)
(* An SSTable file is abstracted to the set of points a reader gets from   *)
(* it. A missing file, a file whose writer has not closed it yet and a     *)
(* file cut short by a crash all read as empty: SSTableReader::Open checks *)
(* the CRC that SSTableWriter::Close appends. Points a reader gets that    *)
(* were never written (the last bits of a block, which SstBlock models; a  *)
(* file with a piece missing, which Compaction does) are left out here, as *)
(* the properties ask for points that must be there.                       *)
(* The buffer size, in bytes in the code, is counted in points.            *)
(***************************************************************************)
EXTENDS DataPoints, Sequences

CONSTANTS
    FlushThreshold,    \* points that fill a tag buffer (memtable_size)
    MaxDay,            \* bound on the days that pass
    FaultKinds,        \* kinds of I/O failure that may happen: "sst", "wal"
    MaxFaults          \* bound on how many

ASSUME MemTableAssumption ==
    /\ FlushThreshold \in Nat \ {0}
    /\ MaxDay \in Nat \ {0}
    /\ FaultKinds \subseteq {"sst", "wal"}
    /\ MaxFaults \in Nat

VARIABLES
    mem,        \* buffers_: the points buffered for each tag, in order of arrival
    flushing,   \* {n} while the lock holder is writing file n, {} otherwise
    sst,        \* what each file under hot/tags reads as
    freshSst,   \* files completed by this run of the process, none ever fsynced
    day,        \* the local date
    faults      \* I/O failures so far

memVars == <<mem, flushing, sst, freshSst, day, faults>>

SstName == [tag : Tag, day : 1 .. MaxDay, ts : Ts]

\* hot/tags/<tag>/<date>_<ts of the first point>.sst
SstFilePerDay(p, d) == [tag |-> p.tag, day |-> d, ts |-> CHOOSE t \in Ts : TRUE]
SstFile(p, d) == [tag |-> p.tag, day |-> d, ts |-> p.ts]

\* The points of a buffer.
PointsIn(s) == {s[i] : i \in DOMAIN s}

SstPoints == UNION {sst[n] : n \in SstName}

MemTypeOK ==
    /\ mem \in [Tag -> Seq(Point)]
    /\ flushing \in SUBSET SstName
    /\ sst \in [SstName -> SUBSET Point]
    /\ freshSst \in SUBSET SstName
    /\ day \in 1 .. MaxDay
    /\ faults \in 0 .. MaxFaults

EmptyBuffers == [t \in Tag |-> <<>>]

MemInit ==
    /\ mem = EmptyBuffers
    /\ flushing = {}
    /\ sst = [n \in SstName |-> {}]
    /\ freshSst = {}
    /\ day = 1
    /\ faults = 0

-----------------------------------------------------------------------------
\* An I/O call of the given kind fails.
Fault(kind) ==
    /\ kind \in FaultKinds
    /\ faults < MaxFaults
    /\ faults' = faults + 1

\* FlushBuffer and the flush callback up to SSTableWriter::Open, which creates
\* or truncates the file. The points stay in the buffer until the file is
\* closed. When Open fails the callback returns silently and FlushBuffer clears
\* the buffer all the same.
FlushBuffer(m, t) ==
    LET n == SstFile(m[t][1], day) IN
    \/ /\ mem' = m
       /\ flushing' = {n}
       /\ sst' = [sst EXCEPT ![n] = {}]
       /\ freshSst' = freshSst \ {n}
       /\ UNCHANGED <<day, faults>>
    \/ /\ Fault("sst")
       /\ mem' = [m EXCEPT ![t] = <<>>]
       /\ UNCHANGED <<flushing, sst, freshSst, day>>

\* The buffer is emptied, but nothing tells the next Add that the file is done.
KeepLock(n) ==
    /\ sst' = [sst EXCEPT ![n] = PointsIn(mem[n.tag])]
    /\ freshSst' = freshSst \union {n}
    /\ mem' = [mem EXCEPT ![n.tag] = <<>>]
    /\ UNCHANGED <<flushing, day, faults>>

\* AddBlock and SSTableWriter::Close, then FlushBuffer clears the buffer and
\* the caller releases the lock (FlushAll keeps it until the last buffer). A
\* write of theirs that fails goes unnoticed, and the points are nowhere.
CloseSst(n) ==
    /\ \/ sst' = [sst EXCEPT ![n] = PointsIn(mem[n.tag])] /\ UNCHANGED faults
       \/ Fault("sst") /\ UNCHANGED sst
    /\ freshSst' = freshSst \union {n}
    /\ mem' = [mem EXCEPT ![n.tag] = <<>>]
    /\ flushing' = {}
    /\ UNCHANGED day

\* MemTable::Add: append the point and, in CheckFlush, flush the buffer once it
\* is full. The caller has checked that the lock is free.
Add(p) ==
    LET m == [mem EXCEPT ![p.tag] = Append(@, p)] IN
    IF Len(m[p.tag]) < FlushThreshold
    THEN mem' = m /\ UNCHANGED <<flushing, sst, freshSst, day, faults>>
    ELSE FlushBuffer(m, p.tag)

\* Midnight.
NextDay ==
    /\ day < MaxDay
    /\ day' = day + 1
    /\ UNCHANGED <<mem, flushing, sst, freshSst, faults>>
=============================================================================
