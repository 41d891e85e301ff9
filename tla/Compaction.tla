------------------------------ MODULE Compaction ------------------------------
(***************************************************************************)
(* The background compaction of src/storage/compaction.cpp on the directory*)
(* of one tag, while the engine's flush callback adds files to it. RunOnce *)
(* visits the tag directories one after the other and nothing is shared    *)
(* between them, so one directory stands for all.                          *)
(*                                                                         *)
(* An SSTable is the set of timestamps its one block decodes to and the    *)
(* range its header states, the first and the last timestamp in order of   *)
(* arrival. A file that its writer has not closed, was killed before it    *)
(* could close, or wrote with a failing call, may be one that              *)
(* SSTableReader::Open rejects: then it is not readable. Values are left   *)
(* out; std::unique then has nothing to do that a set does not do.         *)
(***************************************************************************)
EXTENDS FiniteSets, Integers

CONSTANTS
    MinTs, MaxTs,       \* the range of Timestamp
    BufferLimit,        \* timestamps that a buffer holds at most (memtable_size)
    SmallLimit,         \* timestamps from which on a file is not small (threshold_bytes)
    DodMax,             \* greatest second difference a block can code: 2^31 - 1
    Garbled,            \* blocks that a failing write can leave: pairs of what one
                        \* decodes to and the range it states
    MaxFlushes,         \* bound
    MaxFaults           \* bound: crashes and failing calls together

ASSUME CompactionAssumption ==
    /\ MinTs \in Int /\ MaxTs \in Int /\ MinTs <= MaxTs
    /\ BufferLimit \in Nat /\ SmallLimit \in Nat /\ DodMax \in Nat
    /\ \A g \in Garbled : g \in (SUBSET (MinTs .. MaxTs)) \X ((MinTs .. MaxTs) \X (MinTs .. MaxTs))
    /\ MaxFlushes \in Nat /\ MaxFaults \in Nat

VARIABLES
    present,     \* the .sst files in the tag's directory
    readable,    \* those of them that SSTableReader::Open accepts
    content,     \* the timestamps that the block of each decodes to
    span,        \* and the range that is stated in front of it
    flushPts,    \* the buffer the flush callback is writing, {} if none
    flushName,   \* and the file it writes it to
    cpc,         \* where the worker thread is
    running,     \* running_
    toRead,      \* small_files not looked at yet
    readFiles,   \* read_files, less the ones removed already
    points,      \* all_points
    stored,      \* history: timestamps that a flush put into a readable file
    hidden,      \* history: those of them outside the range of their block
    reused,      \* history: did a flush ever write over a readable file?
    outputTaken, \* history: did a merge ever?
    outputSpoilt, \* history: did a merge ever write, with a call that failed or
                 \* timestamps too far apart, something else than what it had read?
    flushes, crashes, faults   \* history: counts, for the bounds

dirVars == <<present, readable, content, span>>
flushVars == <<flushPts, flushName, flushes>>
workVars == <<cpc, toRead, readFiles, points>>
history == <<stored, hidden>>
past == <<reused, outputTaken, outputSpoilt>>
vars == <<dirVars, flushVars, workVars, running, history, past, crashes, faults>>

Ts == MinTs .. MaxTs
Name == [kind : {"flush", "tmp", "merged"}, lo : Ts, hi : Ts]
WorkerPc == {"stopped", "waiting", "reading", "merging", "writing", "renaming", "removing"}

Least(S) == CHOOSE t \in S : \A u \in S : t <= u
Greatest(S) == CHOOSE t \in S : \A u \in S : t >= u

\* <date>_<ts>.sst, .tmp_merge_<front>_<back>.sst and merged_<front>_<back>.sst
FlushFile(t) == [kind |-> "flush", lo |-> t, hi |-> t]
TmpFile(S) == [kind |-> "tmp", lo |-> Least(S), hi |-> Greatest(S)]
MergedFile(S) == [kind |-> "merged", lo |-> Least(S), hi |-> Greatest(S)]

AnyName == FlushFile(MinTs)
NoSpan == <<MinTs, MinTs>>

TypeOK ==
    /\ present \in SUBSET Name
    /\ readable \in SUBSET Name
    /\ content \in [Name -> SUBSET Ts]
    /\ span \in [Name -> Ts \X Ts]
    /\ flushPts \in SUBSET Ts
    /\ flushName \in Name
    /\ cpc \in WorkerPc
    /\ running \in BOOLEAN
    /\ toRead \in SUBSET Name
    /\ readFiles \in SUBSET Name
    /\ points \in SUBSET Ts
    /\ stored \in SUBSET Ts /\ hidden \in SUBSET Ts
    /\ reused \in BOOLEAN /\ outputTaken \in BOOLEAN /\ outputSpoilt \in BOOLEAN
    /\ flushes \in 0 .. MaxFlushes
    /\ crashes \in 0 .. MaxFaults
    /\ faults \in 0 .. MaxFaults

Init ==
    /\ present = {} /\ readable = {}
    /\ content = [n \in Name |-> {}] /\ span = [n \in Name |-> NoSpan]
    /\ flushPts = {} /\ flushName = AnyName
    /\ cpc = "stopped" /\ running = FALSE
    /\ toRead = {} /\ readFiles = {} /\ points = {}
    /\ stored = {} /\ hidden = {}
    /\ reused = FALSE /\ outputTaken = FALSE /\ outputSpoilt = FALSE
    /\ flushes = 0 /\ crashes = 0 /\ faults = 0

Fault == crashes + faults < MaxFaults /\ faults' = faults + 1

-----------------------------------------------------------------------------
(* The file primitives *)

\* SSTableWriter::Open: the file is created, or truncated if it exists.
OpenSst(n) ==
    /\ present' = present \union {n}
    /\ readable' = readable \ {n}
    /\ content' = [content EXCEPT ![n] = {}]
    /\ span' = [span EXCEPT ![n] = NoSpan]

\* SSTableWriter::Close: a block that states the range s and decodes to S is in
\* the file, and the CRC is right. If somebody unlinked the file in the meantime,
\* nobody will find it.
CloseSst(n, S, s) ==
    /\ IF n \in present
       THEN /\ readable' = readable \union {n}
            /\ content' = [content EXCEPT ![n] = S]
            /\ span' = [span EXCEPT ![n] = s]
       ELSE UNCHANGED <<readable, content, span>>
    /\ UNCHANGED present

RemoveSst(n) ==
    /\ present' = present \ {n}
    /\ readable' = readable \ {n}
    /\ content' = [content EXCEPT ![n] = {}]
    /\ span' = [span EXCEPT ![n] = NoSpan]

\* rename(2): the target, if there is one, is replaced.
RenameSst(from, to) ==
    /\ present' = (present \ {from}) \union {to}
    /\ readable' = (readable \ {from, to}) \union (IF from \in readable THEN {to} ELSE {})
    /\ content' = [content EXCEPT ![to] = content[from], ![from] = {}]
    /\ span' = [span EXCEPT ![to] = span[from], ![from] = NoSpan]

-----------------------------------------------------------------------------
(* BlockCompressor::Compress, and what Decompress makes of it *)

\* The timestamps S in some order. (One that arrives again codes a difference of
\* its own, which is left out.)
Orders(S) ==
    {q \in [1 .. Cardinality(S) -> S] : \A t \in S : \E i \in DOMAIN q : q[i] = t}

Delta(q, i) == IF i < 2 THEN 0 ELSE q[i] - q[i - 1]
FitsAt(q, i) == Delta(q, i) - Delta(q, i - 1) \in -(DodMax + 1) .. DodMax

\* What the block of S, compressed in the order q, decodes to: from the first
\* second difference on that 32 bits cut short, anything.
Decoded(S, q) ==
    IF \A i \in DOMAIN q : FitsAt(q, i)
    THEN {S}
    ELSE {D \in SUBSET Ts :
             \A i \in DOMAIN q : (\A j \in 1 .. i : FitsAt(q, j)) => q[i] \in D}

-----------------------------------------------------------------------------
(* The flush callback of StorageEngine::Init, under the MemTable's mutex *)

\* A buffer S whose first point, in order of arrival, has timestamp t. (One for
\* which Open fails is dropped without a trace.)
FlushOpen(S, t) ==
    /\ flushPts = {} /\ flushes < MaxFlushes
    /\ t \in S /\ Cardinality(S) <= BufferLimit
    /\ flushPts' = S
    /\ flushName' = FlushFile(t)
    /\ flushes' = flushes + 1
    /\ reused' = (reused \/ FlushFile(t) \in readable)
    /\ OpenSst(FlushFile(t))
    /\ UNCHANGED <<workVars, running, history, outputTaken, outputSpoilt, crashes, faults>>

Inside(s) == {t \in Ts : s[1] <= t /\ t <= s[2]}

FlushTo(D, s) ==
    /\ CloseSst(flushName, D, s)
    /\ stored' = stored \union (flushPts \intersect D)
    /\ hidden' = hidden \union (D \ Inside(s))

\* AddBlock and Close, which ignore what their writes return. One that fails can
\* leave a file that is rejected, or one that is accepted: its block may be cut or
\* shifted, and a block count of 0 makes it one without points. (A range that ends
\* before 0 hides the block, so this is also one without points.)
FlushClose ==
    /\ flushPts # {}
    /\ \/ /\ \E q \in Orders(flushPts), last \in flushPts :
                 /\ q[1] = flushName.lo
                 /\ \E D \in Decoded(flushPts, q) : FlushTo(D, <<q[1], last>>)
          /\ UNCHANGED faults
       \/ Fault /\ \E g \in Garbled : FlushTo(g[1], g[2])
       \/ Fault /\ UNCHANGED <<dirVars, history>>
    /\ flushPts' = {}
    /\ UNCHANGED <<flushName, flushes, workVars, running, past, crashes>>

-----------------------------------------------------------------------------
(* Start, Stop and WorkerLoop *)

Start ==
    /\ ~running /\ cpc = "stopped"
    /\ running' = TRUE
    /\ cpc' = "waiting"
    /\ UNCHANGED <<dirVars, flushVars, toRead, readFiles, points, history, past, crashes, faults>>

\* Stop clears the flag and joins the worker, which finishes its round first.
Stop ==
    /\ running
    /\ running' = FALSE
    /\ UNCHANGED <<dirVars, flushVars, workVars, history, past, crashes, faults>>

WorkerExit ==
    /\ cpc = "waiting" /\ ~running
    /\ cpc' = "stopped"
    /\ UNCHANGED <<dirVars, flushVars, toRead, readFiles, points, running, history, past,
                   crashes, faults>>

-----------------------------------------------------------------------------
(* CompactTag *)

Small == {n \in present : Cardinality(content[n]) < SmallLimit}

\* The round ends without touching anything: wait for the next one.
Return == cpc' = "waiting" /\ toRead' = {} /\ readFiles' = {} /\ points' = {}

\* The directory is listed; fewer than two small files are left alone.
ListFiles ==
    /\ cpc = "waiting" /\ running
    /\ Cardinality(Small) >= 2
    /\ cpc' = "reading"
    /\ toRead' = Small
    /\ UNCHANGED <<dirVars, flushVars, readFiles, points, running, history, past, crashes, faults>>

\* ReadRange passes over a block whose stated range does not overlap.
Overlaps(s, lo, hi) == s[1] <= hi /\ s[2] >= lo

\* ReadRange with full_range, which starts at 0, of a file that decodes to S.
FullRange(S, s) == IF Overlaps(s, 0, MaxTs) THEN {t \in S : t >= 0} ELSE {}

\* What a reader may find behind the last point of a file: the block does not
\* say how many points it has, and up to three more may be decoded from the
\* padding of its last bytes (see SstBlock). They continue the last interval; a
\* and b are the last two points, in order of arrival.
Phantoms(S) ==
    {{}} \union {{b + k * (b - a) : k \in 1 .. j} \cap Ts : a \in S, b \in S, j \in 1 .. 3}

Collect(f) ==
    \E X \in Phantoms(content[f]) :
        points' = points \union FullRange(content[f] \union X, span[f])

\* One small file: a reader that cannot open it skips it.
RetryUnreadable(f) ==
    IF f \notin readable
    THEN UNCHANGED <<readFiles, toRead, points>>
    ELSE readFiles' = readFiles \union {f} /\ toRead' = toRead \ {f} /\ Collect(f)

ReadWithoutSkip(f) ==
    /\ toRead' = toRead \ {f}
    /\ readFiles' = readFiles \union {f}
    /\ IF f \notin readable THEN UNCHANGED points ELSE Collect(f)

ReadOrSkip(f) ==
    /\ toRead' = toRead \ {f}
    /\ IF f \notin readable
       THEN UNCHANGED <<readFiles, points>>
       ELSE readFiles' = readFiles \union {f} /\ Collect(f)

ReadFile(f) ==
    /\ cpc = "reading" /\ f \in toRead
    /\ ReadOrSkip(f)
    /\ UNCHANGED <<dirVars, flushVars, cpc, running, history, past, crashes, faults>>

\* All read: return if there is nothing to merge.
ReadDone ==
    /\ cpc = "reading" /\ toRead = {}
    /\ IF points = {} THEN Return
                      ELSE cpc' = "merging" /\ UNCHANGED <<toRead, readFiles, points>>
    /\ UNCHANGED <<dirVars, flushVars, running, history, past, crashes, faults>>

\* The file the merged block is first written to.
OutputInPlace(S) == MergedFile(S)
Output(S) == TmpFile(S)

\* writer.Open() of the temporary file
OpenOutput ==
    /\ cpc = "merging"
    /\ \/ OpenSst(Output(points)) /\ cpc' = "writing" /\ UNCHANGED <<toRead, readFiles, points, faults>>
       \/ Fault /\ Return /\ UNCHANGED dirVars
    /\ UNCHANGED <<flushVars, running, history, past, crashes>>

\* The order of std::sort.
Ascending(q) == \A i, j \in DOMAIN q : i < j => q[i] < q[j]

\* writer.AddBlock() and writer.Close(): nothing tells CompactTag that a write
\* failed, or that the block decodes to something else.
CloseOutput ==
    /\ cpc = "writing"
    /\ \/ /\ \E q \in Orders(points) :
                 /\ Ascending(q)
                 /\ \E D \in Decoded(points, q) :
                        /\ CloseSst(Output(points), D, <<Least(points), Greatest(points)>>)
                        /\ outputSpoilt' = (outputSpoilt \/ D # points)
          /\ UNCHANGED faults
       \/ /\ Fault /\ outputSpoilt' = TRUE
          /\ \/ \E g \in Garbled : CloseSst(Output(points), g[1], g[2])
             \/ UNCHANGED dirVars
    /\ cpc' = "renaming"
    /\ UNCHANGED <<flushVars, toRead, readFiles, points, running, history, reused, outputTaken,
                   crashes>>

\* os::fs::Rename; when it fails the temporary file is removed.
RenameOutput ==
    /\ cpc = "renaming"
    /\ \/ /\ RenameSst(Output(points), MergedFile(points))
          /\ outputTaken' = (outputTaken \/ MergedFile(points) \in readable)
          /\ cpc' = "removing"
          /\ UNCHANGED <<toRead, readFiles, points, faults>>
       \/ Fault /\ RemoveSst(Output(points)) /\ Return /\ UNCHANGED outputTaken
    /\ UNCHANGED <<flushVars, running, history, reused, outputSpoilt, crashes>>

\* The files that were read are removed, whatever their name; a removal that
\* fails goes unnoticed.
RemoveOld(f) ==
    /\ cpc = "removing" /\ f \in readFiles
    /\ readFiles' = readFiles \ {f}
    /\ \/ RemoveSst(f) /\ UNCHANGED faults
       \/ Fault /\ UNCHANGED dirVars
    /\ UNCHANGED <<flushVars, cpc, toRead, points, running, history, past, crashes>>

RemoveDone ==
    /\ cpc = "removing" /\ readFiles = {}
    /\ Return
    /\ UNCHANGED <<dirVars, flushVars, running, history, past, crashes, faults>>

-----------------------------------------------------------------------------
\* The process dies; the files stay as they are.
Crash ==
    /\ crashes + faults < MaxFaults
    /\ crashes' = crashes + 1
    /\ flushPts' = {}
    /\ cpc' = "stopped" /\ running' = FALSE
    /\ toRead' = {} /\ readFiles' = {} /\ points' = {}
    /\ UNCHANGED <<dirVars, flushName, flushes, history, past, faults>>

WorkerStep ==
    \/ WorkerExit \/ ListFiles
    \/ \E f \in toRead : ReadFile(f)
    \/ ReadDone \/ OpenOutput \/ CloseOutput \/ RenameOutput
    \/ \E f \in readFiles : RemoveOld(f)
    \/ RemoveDone

Next ==
    \/ \E S \in SUBSET Ts : \E t \in S : FlushOpen(S, t)
    \/ FlushClose
    \/ Start \/ Stop
    \/ WorkerStep
    \/ Crash

Spec == Init /\ [][Next]_vars

-----------------------------------------------------------------------------
(* Properties *)

\* Compaction never makes a flushed timestamp unreadable, which is what the
\* merge scenario of openspec/specs/lsm-storage-engine/spec.md asks for. (A
\* flush that writes over a readable file is not compaction's doing.)
MergeKeepsTs == ~reused => stored \subseteq UNION {content[n] : n \in Name}

\* It keeps them as long as the name of its output is not that of a readable
\* file, its output decodes to what it had read and no timestamp is negative,
\* whatever flushes, crashes and other failed calls come between its steps.
KeptUnlessOutputTaken == MinTs >= 0 /\ ~outputTaken /\ ~outputSpoilt => MergeKeepsTs

\* The temporary file keeps a crash, or a call that CompactTag looks at and that
\* fails, from leaving a merged file that is half-written. (Calls it does not look
\* at, the writes of AddBlock and Close, can.)
MergedWhole ==
    ~outputSpoilt =>
        \A n \in present : n.kind = "merged" => n \in readable /\ content[n] # {}

\* Compaction::Stop returns: the worker it joins comes to an end.
StopReturns == ~running ~> cpc = "stopped" \/ running

Shrinks(S) == S' \subseteq S /\ S' # S

\* How far a round has come.
Stage ==
    CASE cpc = "reading"  -> 1
      [] cpc = "merging"  -> 2
      [] cpc = "writing"  -> 3
      [] cpc = "renaming" -> 4
      [] cpc = "removing" -> 5
      [] cpc = "waiting"  -> 6
      [] cpc = "stopped"  -> 7

RoundAdvances ==
    \/ Stage' > Stage
    \/ cpc = "reading" /\ cpc' = "reading" /\ Shrinks(toRead)
    \/ cpc = "removing" /\ cpc' = "removing" /\ Shrinks(readFiles)

\* Once Stop has cleared the flag, the worker comes nearer to its end with each of
\* its steps: no unreadable file, failing call or flush makes it take one again,
\* and nothing that others do gives it more to read or to remove. (This is what
\* makes StopReturns hold; it is proved, and no run lists it.)
StopAdvances ==
    [][~running /\ ~running' =>
           IF WorkerStep THEN RoundAdvances ELSE cpc' = "stopped" \/ UNCHANGED workVars]_vars

-----------------------------------------------------------------------------
(* The inductive invariant behind KeptUnlessOutputTaken and MergedWhole. *)

\* Nobody but the worker touches the temporary file between Open and Rename.
OutputInv ==
    /\ flushName.kind = "flush"
    /\ cpc \in {"merging", "writing", "renaming", "removing"} => points # {}
    /\ cpc = "writing" => TmpFile(points) \in present
    /\ cpc = "renaming" /\ ~outputSpoilt =>
           TmpFile(points) \in readable /\ content[TmpFile(points)] = points

\* A file that is read is there, and only such a file has points.
PresentInv ==
    /\ readable \subseteq present
    /\ \A n \in Name : content[n] # {} => n \in readable

\* What is about to be removed is in the merged file, or will be.
InputInv ==
    /\ cpc \in {"stopped", "waiting"} => readFiles = {} /\ points = {}
    /\ \A f \in readFiles :
           /\ f.kind # "tmp" => f \in readable
           /\ cpc # "removing" => content[f] \subseteq points
           /\ cpc = "removing" => /\ f # MergedFile(points)
                                  /\ content[f] \subseteq content[MergedFile(points)]

\* A flush in progress writes to a file of its own.
FlushInv ==
    flushPts # {} => /\ flushName \in present
                     /\ flushName \notin readFiles
                     /\ flushName \notin readable

\* The files other than temporary ones hold every flushed timestamp.
StoredInv == \A t \in stored : \E n \in Name : n.kind # "tmp" /\ t \in content[n]

KeepInv ==
    /\ OutputInv /\ MergedWhole /\ PresentInv
    /\ MinTs >= 0 /\ ~reused /\ ~outputTaken /\ ~outputSpoilt =>
           InputInv /\ FlushInv /\ StoredInv
=============================================================================
