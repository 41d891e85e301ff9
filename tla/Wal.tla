--------------------------------- MODULE Wal ---------------------------------
(***************************************************************************)
(* The write-ahead log of src/storage/wal.cpp: WalWriter and WalReader,    *)
(* over the file primitives of src/common/os.                              *)
(*                                                                         *)
(* The log file is a sequence of pieces, one per WriteRaw call: AppendWrite*)
(* issues two, the header (type, length, CRC of the data) and the data.    *)
(* Bytes, lengths and the CRC arithmetic are abstracted to what the reader *)
(* tells apart: a header followed by the data it was computed from passes  *)
(* the CRC check, a header followed by anything else fails it.             *)
(*                                                                         *)
(* The module declares the log's state and one operator per operation; the *)
(* processes that call them are in StorageEngine.                          *)
(***************************************************************************)
EXTENDS DataPoints, Sequences

CONSTANTS
    Win32,            \* TRUE: the _WIN32 branches of common/os, FALSE: the POSIX ones
    LoseUnsyncedWal   \* TRUE: a crash may drop what was appended since the last fsync

ASSUME WalAssumption == Win32 \in BOOLEAN /\ LoseUnsyncedWal \in BOOLEAN

VARIABLES
    walFile,     \* contents of wal/wal.log, as the directory entry leads to them
    walSynced,   \* how many pieces of walFile an fsync has covered
    walOpened,   \* opened_: did the writer's last Open succeed?
    walLinked,   \* does the open handle still write to wal/wal.log?
    walDamaged   \* history: was the file ever not a run of whole entries?

walVars == <<walFile, walSynced, walOpened, walLinked, walDamaged>>

\* What one WriteRaw leaves in the file; "torn" is a piece cut short by a crash.
Piece == [part : {"header", "data", "torn"}, point : Point]

Header(p) == [part |-> "header", point |-> p]
Data(p) == [part |-> "data", point |-> p]
Torn(p) == [part |-> "torn", point |-> p]

WalTypeOK ==
    /\ walFile \in Seq(Piece)
    /\ walSynced \in 0 .. Len(walFile)
    /\ walOpened \in BOOLEAN
    /\ walLinked \in BOOLEAN
    /\ walDamaged \in BOOLEAN

-----------------------------------------------------------------------------
(* WalReader *)

\* ReadEntry succeeds on the k-th pair of pieces of f: the header is whole, the
\* data is whole, and its CRC is the one in the header.
GoodEntry(f, k) ==
    /\ f[2 * k - 1].part = "header"
    /\ f[2 * k].part = "data"
    /\ f[2 * k].point = f[2 * k - 1].point

\* WalReader::Open stops at the first entry it cannot read: the k-th entry is
\* returned only when every entry up to it is good.
ReadsEntry(f, k) ==
    /\ 2 * k <= Len(f)
    /\ \A j \in 1 .. k : GoodEntry(f, j)

\* The points a replay of f yields.
Readable(f) == {f[2 * k].point : k \in {k \in 1 .. Len(f) : ReadsEntry(f, k)}}

\* The file is a run of whole entries, possibly followed by one more header.
WellFormed(f) ==
    /\ \A k \in 1 .. Len(f) : 2 * k <= Len(f) => GoodEntry(f, k)
    /\ \A k \in 1 .. Len(f) : 2 * k - 1 = Len(f) => f[2 * k - 1].part = "header"

\* On Windows the writer's handle shares nothing, so for as long as the engine
\* holds the log open WalReader cannot open it and nobody can delete it.
LockedByWriter == Win32 /\ walOpened
ReaderCanOpen == ~LockedByWriter

-----------------------------------------------------------------------------
(* WalWriter *)

WalInit ==
    /\ walFile = <<>>
    /\ walSynced = 0
    /\ walOpened = TRUE
    /\ walLinked = TRUE
    /\ walDamaged = FALSE

\* WalWriter::Open in APPEND mode: creates the file when it is missing and
\* keeps its contents, damage included, otherwise.
WalOpen ==
    /\ walOpened' = TRUE
    /\ walLinked' = TRUE
    /\ UNCHANGED <<walFile, walSynced, walDamaged>>

\* It fails, and every later WriteRaw and Flush returns false at once.
WalOpenFails ==
    /\ walOpened' = FALSE
    /\ UNCHANGED <<walFile, walSynced, walLinked, walDamaged>>

\* WriteRaw: one write at the end of the file behind the handle. After an
\* unlink (POSIX) that file has no name any more and no reader will find it.
WriteRaw(piece) ==
    /\ walOpened
    /\ walFile' = IF walLinked THEN Append(walFile, piece) ELSE walFile
    /\ walDamaged' = (walDamaged \/ ~WellFormed(walFile'))
    /\ UNCHANGED <<walSynced, walOpened, walLinked>>

SyncNothing == UNCHANGED walVars

\* WalWriter::Flush: fsync covers everything written to the file so far.
WalFlush ==
    /\ walOpened
    /\ walSynced' = Len(walFile)
    /\ UNCHANGED <<walFile, walOpened, walLinked, walDamaged>>

\* WalReader::Truncate removes the file and reports success whatever happens.
\* POSIX unlinks the open file; Windows refuses to delete it.
WalTruncate ==
    IF LockedByWriter
    THEN UNCHANGED walVars
    ELSE /\ walFile' = <<>>
         /\ walSynced' = 0
         /\ walLinked' = FALSE
         /\ UNCHANGED <<walOpened, walDamaged>>

\* What is left of the log when the process dies: everything, or, when the
\* machine dies, any length from the last fsync on, the cut possibly inside a
\* piece. What survived is on disk.
WalCrash ==
    /\ \/ walFile' = walFile
       \/ /\ LoseUnsyncedWal
          /\ \E n \in walSynced .. Len(walFile) - 1 :
                 \/ walFile' = SubSeq(walFile, 1, n)
                 \/ walFile' = Append(SubSeq(walFile, 1, n), Torn(walFile[n + 1].point))
    /\ walSynced' = Len(walFile')
    /\ walDamaged' = (walDamaged \/ ~WellFormed(walFile'))
    /\ UNCHANGED <<walOpened, walLinked>>
=============================================================================
