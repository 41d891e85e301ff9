------------------------------- MODULE RawQuery -------------------------------
(***************************************************************************)
(* StorageEngine::ReadRaw of src/storage/engine.cpp on the directory of one*)
(* tag, while the flush callback and the compaction thread change it. No   *)
(* lock is shared: the query lists the directory and then opens what it    *)
(* has listed, one file after the other, wherever the merge is by then.    *)
(*                                                                         *)
(* A file is read only if the range its block states overlaps the range    *)
(* that is asked for; points that had arrived out of order may lie outside *)
(* the one that is stated.                                                 *)
(*                                                                         *)
(* As in Compaction, only timestamps are followed, so the sort and the     *)
(* std::unique at the end have nothing left to do. The points a reader may *)
(* decode from the padding of a block, and the one LatestCache may put in  *)
(* front, are left out: they can only add to what is found.                *)
(***************************************************************************)
EXTENDS Compaction

CONSTANT Range   \* the ranges asked for: pairs of timestamps

ASSUME RawQueryAssumption == Range \subseteq Ts \X Ts

VARIABLES
    qpc,        \* where the query is
    range,      \* the range it asks for
    entries,    \* listed .sst files not opened yet
    found,      \* result
    expected,   \* history: timestamps that it has to find
    renamed     \* history: has a merge put its output in place since then?

queryVars == <<qpc, range, entries, found, expected, renamed>>
allVars == <<vars, queryVars>>

\* The types of the query's state beside those of compaction.
QueryTypeOK ==
    /\ TypeOK
    /\ qpc \in {"idle", "reading"}
    /\ range \in Ts \X Ts
    /\ entries \in SUBSET Name
    /\ found \in SUBSET Inside(range)
    /\ expected \in SUBSET Inside(range)
    /\ renamed \in BOOLEAN

QueryInit ==
    /\ Init
    /\ qpc = "idle" /\ range = NoSpan /\ entries = {} /\ found = {} /\ expected = {}
    /\ renamed = FALSE

\* What a query of the range r has to find: what has been flushed, except, unless
\* it asks for everything, what lies outside the range of its block.
Due(r) == (IF Inside(r) = Ts THEN stored ELSE stored \ hidden) \intersect Inside(r)

\* ListDirectory; every .sst file counts, also a merge's temporary one.
QueryList(r) ==
    /\ qpc = "idle"
    /\ range' = r
    /\ entries' = present
    /\ expected' = Due(r)
    /\ qpc' = "reading"
    /\ UNCHANGED <<vars, found, renamed>>

\* What ReadRange returns; a file that is not readable has no content.
InFile(f) ==
    IF Overlaps(span[f], range[1], range[2]) THEN content[f] \intersect Inside(range) ELSE {}

\* reader.Open() and ReadRange. A file that is gone, or that nobody has closed
\* yet, is passed over.
BreakAtUnreadable(f) ==
    /\ entries' = IF f \notin readable THEN {} ELSE entries \ {f}
    /\ found' = found \union InFile(f)

ReadEntry(f) ==
    /\ entries' = entries \ {f}
    /\ found' = found \union InFile(f)

QueryFile(f) ==
    /\ qpc = "reading" /\ f \in entries
    /\ ReadEntry(f)
    /\ UNCHANGED <<vars, qpc, range, expected, renamed>>

QueryOver ==
    /\ qpc' = "idle" /\ range' = NoSpan /\ entries' = {} /\ found' = {} /\ expected' = {}
    /\ renamed' = FALSE

QueryReturn ==
    /\ qpc = "reading" /\ entries = {}
    /\ QueryOver
    /\ UNCHANGED vars

QueryStep == QueryReturn \/ \E f \in entries : QueryFile(f)

\* A query in progress notes the merge's rename.
NoteRename ==
    /\ renamed' = (qpc = "reading" /\ (renamed \/ (cpc = "renaming" /\ cpc' = "removing")))
    /\ UNCHANGED <<qpc, range, entries, found, expected>>

MergeStep == WorkerStep /\ NoteRename

\* The other threads. A query does not survive the process.
OthersStep ==
    \/ MergeStep
    \/ (FlushClose \/ Start \/ Stop) /\ UNCHANGED queryVars
    \/ (\E S \in SUBSET Ts : \E t \in S : FlushOpen(S, t)) /\ UNCHANGED queryVars
    \/ Crash /\ QueryOver

QueryNext ==
    \/ \E r \in Range : QueryList(r)
    \/ QueryStep
    \/ OthersStep

QuerySpec == QueryInit /\ [][QueryNext]_allVars

\* The worker thread is scheduled whenever it can run.
FairQuerySpec == QuerySpec /\ WF_allVars(MergeStep)

-----------------------------------------------------------------------------
(* Properties *)

\* A query returns every timestamp that was flushed when it listed the
\* directory and that it asks for, unless a merge put its output in place after
\* that; one that does not ask for everything may also miss those that had arrived
\* before the first or after the last of their block. Flushes in progress, a merge
\* that is still reading or writing, failed calls, the temporary files of a crash
\* and even the removal of files it has listed, by a merge whose output it has
\* listed too, cost it nothing.
QueryComplete ==
    (/\ qpc = "reading" /\ entries = {} /\ MinTs >= 0
     /\ ~reused /\ ~outputTaken /\ ~outputSpoilt /\ ~renamed) => expected \subseteq found

-----------------------------------------------------------------------------
(* The abstract specification *)

\* What is in the files, temporary ones apart.
Held == UNION {content[n] : n \in {m \in Name : m.kind # "tmp"}}

Tag == INSTANCE TagPoints WITH
    held <- Held,
    asked <- qpc = "reading",
    excused <- renamed,
    damaged <- MinTs < 0 \/ reused \/ outputTaken \/ outputSpoilt

\* Flushes, merges and queries that share a directory and no lock are one after
\* the other as far as a reader can tell: however a merge writes, renames and
\* removes files, and wherever it fails or dies, no timestamp that could be read
\* becomes unreadable, and a query misses one only if a merge's rename came
\* between its list of the directory and its answer.
ImplementsTagPoints == Tag!Spec

-----------------------------------------------------------------------------
(* The inductive invariant behind QueryComplete. *)

\* A flush's file has outside the range of its block only what is noted as hidden,
\* and what a merge writes is sorted.
SpanInv ==
    ~outputSpoilt =>
        /\ \A n \in Name : n.kind = "flush" => content[n] \ hidden \subseteq Inside(span[n])
        /\ \A n \in Name : n.kind = "merged" => content[n] \subseteq Inside(span[n])
        /\ cpc = "renaming" => points \subseteq Inside(span[TmpFile(points)])

\* What is expected and not found yet is in a listed file that no merge will
\* write. A merge that removes its inputs meanwhile had put its output in place
\* before the directory was listed: what is in there is found or still listed.
ReadInv ==
    (/\ qpc = "reading" /\ MinTs >= 0
     /\ ~reused /\ ~outputTaken /\ ~outputSpoilt /\ ~renamed) =>
        /\ \A t \in expected \ found : \E n \in entries : n.kind # "tmp" /\ t \in InFile(n)
        /\ (cpc = "removing" /\ MergedFile(points) \notin entries) =>
               content[MergedFile(points)] \intersect Inside(range) \subseteq found
=============================================================================
