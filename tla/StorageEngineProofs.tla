------------------------- MODULE StorageEngineProofs -------------------------
(***************************************************************************)
(* Type correctness and durability of StorageEngine, that it implements    *)
(* DurableStore, and the latest-value cache, the log before its first      *)
(* truncation, the clean Close and the MemTable's mutex, for any set of    *)
(* points, any number of handlers and any values of the bounds.            *)
(***************************************************************************)
EXTENDS StorageEngine, TLAPS

\* A data point has a tag and a timestamp of the model.
LEMMA PointFields ==
    /\ AnyPoint \in Point
    /\ \A p \in Point : p.tag \in Tag /\ p.ts \in Ts
    /\ \A p \in Point, d \in 1 .. MaxDay : SstFile(p, d) \in SstName
    /\ \A n \in SstName : n.tag \in Tag
  BY PointAssumption DEF AnyPoint, Tag, Ts, SstFile, SstName

\* Appending a piece to the log keeps the log's type.
LEMMA WriteRawType ==
    ASSUME WalTypeOK, NEW x \in Piece, WriteRaw(x)
    PROVE  WalTypeOK'
  BY DEF WalTypeOK, WriteRaw

LEMMA WalTruncateType ==
    ASSUME WalTypeOK, WalTruncate
    PROVE  WalTypeOK'
  <1>1. CASE LockedByWriter
    BY <1>1 DEF WalTypeOK, WalTruncate, walVars
  <1>2. CASE ~LockedByWriter
    <2>1. <<>> \in Seq(Piece) /\ Len(<<>>) = 0
      OBVIOUS
    <2>2. walFile' = <<>> /\ walSynced' = 0 /\ walLinked' = FALSE /\ walDamaged' = walDamaged
      BY <1>2 DEF WalTruncate
    <2>3. walFile' \in Seq(Piece) /\ Len(walFile') = 0
      BY <2>1, <2>2
    <2>4. walSynced' \in 0 .. Len(walFile')
      BY <2>2, <2>3
    <2>5. walOpened' \in BOOLEAN /\ walLinked' \in BOOLEAN /\ walDamaged' \in BOOLEAN
      BY <1>2, <2>2 DEF WalTruncate, WalTypeOK
    <2> QED
      BY <2>3, <2>4, <2>5 DEF WalTypeOK
  <1> QED
    BY <1>1, <1>2

LEMMA WalCrashType ==
    ASSUME WalTypeOK, WalCrash
    PROVE  WalTypeOK'
  <1>1. walFile' \in Seq(Piece)
    <2>1. CASE walFile' = walFile
      BY <2>1 DEF WalTypeOK
    <2>2. ASSUME NEW n \in walSynced .. Len(walFile) - 1
          PROVE  SubSeq(walFile, 1, n) \in Seq(Piece) /\ Torn(walFile[n + 1].point) \in Piece
      <3>1. n \in Nat /\ n + 1 \in 1 .. Len(walFile)
        BY <2>2 DEF WalTypeOK
      <3>2. walFile[n + 1] \in Piece
        BY <3>1 DEF WalTypeOK
      <3>3. SubSeq(walFile, 1, n) \in Seq(Piece)
        BY <3>1 DEF WalTypeOK
      <3> QED
        BY <3>2, <3>3 DEF Torn, Piece
    <2> QED
      BY <2>1, <2>2 DEF WalCrash
  <1> QED
    BY <1>1 DEF WalTypeOK, WalCrash

\* Starting the flush of a non-empty buffer keeps the MemTable's type.
LEMMA FlushBufferType ==
    ASSUME MemTypeOK, NEW m \in [Tag -> Seq(Point)], NEW t \in Tag, m[t] # <<>>,
           FlushBuffer(m, t)
    PROVE  MemTypeOK'
  <1>1. m[t][1] \in Point
    OBVIOUS
  <1>2. SstFile(m[t][1], day) \in SstName
    BY <1>1, PointFields DEF MemTypeOK
  <1>3. <<>> \in Seq(Point)
    OBVIOUS
  <1>4. CASE Fault("sst") /\ mem' = [m EXCEPT ![t] = <<>>]
             /\ UNCHANGED <<flushing, sst, freshSst, day>>
    <2>1. mem' \in [Tag -> Seq(Point)]
      BY <1>3, <1>4
    <2>2. faults' \in 0 .. MaxFaults
      BY <1>4, MemTableAssumption DEF Fault, MemTypeOK
    <2> QED
      BY <1>4, <2>1, <2>2 DEF MemTypeOK
  <1>5. CASE /\ mem' = m
             /\ flushing' = {SstFile(m[t][1], day)}
             /\ sst' = [sst EXCEPT ![SstFile(m[t][1], day)] = {}]
             /\ freshSst' = freshSst \ {SstFile(m[t][1], day)}
             /\ UNCHANGED <<day, faults>>
    BY <1>2, <1>5 DEF MemTypeOK
  <1> QED
    BY <1>4, <1>5 DEF FlushBuffer

LEMMA AddType ==
    ASSUME MemTypeOK, NEW p \in Point, Add(p)
    PROVE  MemTypeOK'
  <1> DEFINE m == [mem EXCEPT ![p.tag] = Append(@, p)]
  <1>1. p.tag \in Tag
    BY PointFields
  <1>2. m \in [Tag -> Seq(Point)] /\ m[p.tag] # <<>>
    <2>1. mem[p.tag] \in Seq(Point)
      BY <1>1 DEF MemTypeOK
    <2>2. Append(mem[p.tag], p) \in Seq(Point) /\ Append(mem[p.tag], p) # <<>>
      BY <2>1
    <2> QED
      BY <1>1, <2>2 DEF MemTypeOK
  <1>3. CASE Len(m[p.tag]) < FlushThreshold
    BY <1>2, <1>3 DEF Add, MemTypeOK
  <1>4. CASE ~(Len(m[p.tag]) < FlushThreshold)
    <2>1. FlushBuffer(m, p.tag)
      BY <1>4 DEF Add
    <2> QED
      BY <1>1, <1>2, <2>1, FlushBufferType
  <1> QED
    BY <1>3, <1>4

LEMMA CloseSstType ==
    ASSUME MemTypeOK, NEW n \in SstName, CloseSst(n)
    PROVE  MemTypeOK'
  <1>1. n.tag \in Tag
    BY PointFields
  <1>2. PointsIn(mem[n.tag]) \subseteq Point
    BY <1>1 DEF PointsIn, MemTypeOK
  <1>3. <<>> \in Seq(Point)
    OBVIOUS
  <1>4. faults' \in 0 .. MaxFaults
    BY MemTableAssumption DEF CloseSst, Fault, MemTypeOK
  <1>5. sst' \in [SstName -> SUBSET Point]
    BY <1>2 DEF CloseSst, MemTypeOK
  <1> QED
    BY <1>1, <1>3, <1>4, <1>5 DEF CloseSst, MemTypeOK

LEMMA InitType == Init => TypeOK
  <1> SUFFICES ASSUME Init PROVE TypeOK
    OBVIOUS
  <1>1. <<>> \in Seq(Piece) /\ Len(<<>>) = 0 /\ <<>> \in Seq(Point)
    OBVIOUS
  <1>2. WalTypeOK
    <2>1. walFile \in Seq(Piece) /\ Len(walFile) = 0
      BY <1>1 DEF Init, WalInit
    <2>2. walSynced \in 0 .. Len(walFile)
      BY <2>1 DEF Init, WalInit
    <2>3. walOpened \in BOOLEAN /\ walLinked \in BOOLEAN /\ walDamaged \in BOOLEAN
      BY DEF Init, WalInit
    <2> QED
      BY <2>1, <2>2, <2>3 DEF WalTypeOK
  <1>3. MemTypeOK
    BY <1>1, MemTableAssumption DEF Init, MemInit, MemTypeOK, EmptyBuffers
  <1>4. 1 \in Nat \ {0} /\ 0 \in 0 .. MaxCrashes /\ 0 \in 0 .. MaxCloses /\ 0 \in 0 .. MaxFlushes
    BY EngineAssumption
  <1>5. cur \in [Writer -> Point] /\ pc \in [Writer -> WriterPc]
    BY PointFields DEF Init, WriterPc
  <1>6. EngineTypeOK
    BY <1>4, <1>5 DEF Init, EngineTypeOK, Phase, FlusherPc, EmptyCache
  <1> QED
    BY <1>2, <1>3, <1>6 DEF TypeOK

\* Every step keeps the types, action by action.
LEMMA StepType == TypeOK /\ [Next]_vars => TypeOK'
  <1> SUFFICES ASSUME TypeOK, [Next]_vars PROVE TypeOK'
    OBVIOUS
  <1> USE DEF Phase, FlusherPc, WriterPc
  <1>w. UNCHANGED walVars => WalTypeOK'
    BY DEF TypeOK, WalTypeOK, walVars
  <1>m. UNCHANGED memVars => MemTypeOK'
    BY DEF TypeOK, MemTypeOK, memVars
  <1>f. ASSUME NEW k, Fault(k), UNCHANGED <<mem, flushing, sst, freshSst, day>>
        PROVE  MemTypeOK'
    BY <1>f, MemTableAssumption DEF Fault, TypeOK, MemTypeOK
  <1>l. LogCallFails => WalTypeOK' /\ MemTypeOK'
    <2> SUFFICES ASSUME LogCallFails PROVE WalTypeOK' /\ MemTypeOK'
      OBVIOUS
    <2>1. CASE Fault("wal")
      BY <1>w, <1>f, <2>1 DEF LogCallFails
    <2>2. CASE UNCHANGED faults
      BY <1>w, <1>m, <2>2 DEF LogCallFails, memVars
    <2> QED
      BY <2>1, <2>2 DEF LogCallFails
  <1>t. ASSUME NEW w \in Writer, NEW p \in Point, WriteThrows(w, p)
        PROVE  TypeOK'
    <2>1. EngineTypeOK' /\ UNCHANGED <<walVars, memVars>>
      BY <1>t DEF WriteThrows, TypeOK, EngineTypeOK
    <2> QED
      BY <1>w, <1>m, <2>1 DEF TypeOK
  <1>s. <<>> \in Seq(Point)
    OBVIOUS
  <1>1. ASSUME NEW w \in Writer, NEW p \in Point, AppendHeader(w, p)
        PROVE  TypeOK'
    <2>1. EngineTypeOK'
      BY <1>1 DEF AppendHeader, TypeOK, EngineTypeOK
    <2>2. CASE WriteRaw(Header(p)) /\ UNCHANGED memVars
      <3>1. Header(p) \in Piece
        BY DEF Header, Piece
      <3> QED
        BY <1>m, <2>1, <2>2, <3>1, WriteRawType DEF TypeOK
    <2>3. CASE LogCallFails
      BY <1>l, <2>1, <2>3 DEF TypeOK
    <2> QED
      BY <1>1, <2>2, <2>3 DEF AppendHeader
  <1>2. ASSUME NEW w \in Writer, AppendData(w)
        PROVE  TypeOK'
    <2>1. EngineTypeOK'
      BY <1>2 DEF AppendData, TypeOK, EngineTypeOK, history
    <2>2. CASE WriteRaw(Data(cur[w])) /\ UNCHANGED memVars
      <3>1. Data(cur[w]) \in Piece
        BY DEF Data, Piece, TypeOK, EngineTypeOK
      <3> QED
        BY <1>m, <2>1, <2>2, <3>1, WriteRawType DEF TypeOK
    <2>3. CASE LogCallFails
      BY <1>l, <2>1, <2>3 DEF TypeOK
    <2> QED
      BY <1>2, <2>2, <2>3 DEF AppendData
  <1>3. ASSUME NEW w \in Writer, SyncLog(w)
        PROVE  TypeOK'
    <2>1. EngineTypeOK'
      BY <1>3 DEF SyncLog, TypeOK, EngineTypeOK, history
    <2>2. CASE WalFlush /\ UNCHANGED memVars
      <3>1. Len(walFile) \in Nat
        BY DEF TypeOK, WalTypeOK
      <3>2. WalTypeOK'
        BY <2>2, <3>1 DEF WalFlush, TypeOK, WalTypeOK
      <3> QED
        BY <1>m, <2>1, <2>2, <3>2 DEF TypeOK
    <2>3. CASE LogCallFails
      BY <1>l, <2>1, <2>3 DEF TypeOK
    <2> QED
      BY <1>3, <2>2, <2>3 DEF SyncLog
  <1>4. ASSUME NEW w \in Writer, AddPoint(w)
        PROVE  TypeOK'
    <2>1. EngineTypeOK' /\ UNCHANGED walVars
      BY <1>4 DEF AddPoint, TypeOK, EngineTypeOK, history
    <2>2. cur[w] \in Point
      BY DEF TypeOK, EngineTypeOK
    <2>3. MemTypeOK'
      BY <1>4, <2>2, AddType DEF AddPoint, TypeOK
    <2> QED
      BY <1>w, <2>1, <2>3 DEF TypeOK
  <1>5. ASSUME NEW w \in Writer, FinishFlush(w)
        PROVE  TypeOK'
    <2>1. EngineTypeOK' /\ UNCHANGED walVars
      BY <1>5 DEF FinishFlush, TypeOK, EngineTypeOK, history
    <2>2. PICK n \in flushing : CloseSst(n)
      BY <1>5 DEF FinishFlush
    <2>3. MemTypeOK'
      BY <2>2, CloseSstType DEF TypeOK, MemTypeOK
    <2> QED
      BY <1>w, <2>1, <2>3 DEF TypeOK
  <1>6. ASSUME NEW w \in Writer, UpdateCache(w)
        PROVE  TypeOK'
    <2>1. cur[w] \in Point /\ cur[w].tag \in Tag
      BY PointFields DEF TypeOK, EngineTypeOK
    <2>2. NewerOf(cache[cur[w].tag], cur[w]) \in SUBSET Point
      BY <2>1 DEF NewerOf, TypeOK, EngineTypeOK
    <2>3. cache' \in [Tag -> SUBSET Point]
      BY <1>6, <2>1, <2>2 DEF UpdateCache, TypeOK, EngineTypeOK
    <2>4. EngineTypeOK' /\ UNCHANGED <<walVars, memVars>>
      BY <1>6, <2>1, <2>3 DEF UpdateCache, TypeOK, EngineTypeOK, history
    <2> QED
      BY <1>w, <1>m, <2>4 DEF TypeOK
  <1>7. ASSUME NEW w \in Writer, Acknowledge(w)
        PROVE  TypeOK'
    <2>1. EngineTypeOK' /\ UNCHANGED <<walVars, memVars>>
      BY <1>7, PointFields DEF Acknowledge, TypeOK, EngineTypeOK
    <2> QED
      BY <1>w, <1>m, <2>1 DEF TypeOK
  <1>8. CASE InitOpen
    <2>1. EngineTypeOK'
      BY <1>8 DEF InitOpen, TypeOK, EngineTypeOK, history
    <2>2. MemTypeOK'
      BY <1>8, <1>s, MemTableAssumption DEF InitOpen, Fault, TypeOK, MemTypeOK, EmptyBuffers
    <2>3. WalTypeOK'
      BY <1>8 DEF InitOpen, WalOpen, WalOpenFails, TypeOK, WalTypeOK
    <2> QED
      BY <2>1, <2>2, <2>3 DEF TypeOK
  <1>9. CASE ReplayEntry
    <2>1. EngineTypeOK' /\ UNCHANGED walVars
      BY <1>9 DEF ReplayEntry, TypeOK, EngineTypeOK, history
    <2>2. 2 * replayPos \in 1 .. Len(walFile)
      BY <1>9 DEF ReplayEntry, MoreToReplay, ReadsEntry, TypeOK, EngineTypeOK, WalTypeOK
    <2>3. walFile[2 * replayPos].point \in Point
      <3>1. walFile[2 * replayPos] \in Piece
        BY <2>2 DEF TypeOK, WalTypeOK
      <3> QED
        BY <3>1 DEF Piece
    <2>4. MemTypeOK'
      BY <1>9, <2>3, AddType DEF ReplayEntry, TypeOK
    <2> QED
      BY <1>w, <2>1, <2>4 DEF TypeOK
  <1>10. ASSUME UNCHANGED <<walVars, engineVars>>, NEW n \in flushing, CloseSst(n)
         PROVE  TypeOK'
    <2>1. MemTypeOK'
      BY <1>10, CloseSstType DEF TypeOK, MemTypeOK
    <2>2. EngineTypeOK'
      BY <1>10 DEF TypeOK, EngineTypeOK, engineVars
    <2> QED
      BY <1>w, <1>10, <2>1, <2>2 DEF TypeOK
  <1>11. CASE InitDone
    <2>1. EngineTypeOK' /\ UNCHANGED walVars
      <3>1. cache' \in [Tag -> SUBSET Point] /\ seen' \in SUBSET Point
        BY <1>11 DEF InitDone, EmptyCache
      <3> QED
        BY <1>11, <3>1 DEF InitDone, TypeOK, EngineTypeOK, history
    <2>2. MemTypeOK'
      BY <1>11, MemTableAssumption DEF InitDone, Fault, TypeOK, MemTypeOK
    <2> QED
      BY <1>w, <2>1, <2>2 DEF TypeOK
  <1>12. CASE BeginFlush \/ BeginClose \/ FlushAllDone \/ CloseDone
    <2>1. EngineTypeOK' /\ UNCHANGED <<walVars, memVars>>
      BY <1>12, EngineAssumption
      DEF BeginFlush, BeginClose, FlushAllDone, CloseDone, TypeOK, EngineTypeOK, history
    <2> QED
      BY <1>w, <1>m, <2>1 DEF TypeOK
  <1>13. ASSUME NEW t \in Tag, FlushTag(t)
         PROVE  TypeOK'
    <2>1. MemTypeOK'
      BY <1>13, FlushBufferType DEF FlushTag, TypeOK, MemTypeOK
    <2>2. EngineTypeOK' /\ UNCHANGED walVars
      BY <1>13 DEF FlushTag, TypeOK, EngineTypeOK, engineVars
    <2> QED
      BY <1>w, <2>1, <2>2 DEF TypeOK
  <1>14. CASE TruncateLog
    <2>1. EngineTypeOK' /\ UNCHANGED memVars
      BY <1>14 DEF TruncateLog, TypeOK, EngineTypeOK, history
    <2> QED
      BY <1>14, <1>m, <2>1, WalTruncateType DEF TruncateLog, TypeOK
  <1>15. CASE Crash
    <2>1. EngineTypeOK'
      BY <1>15, PointFields, EngineAssumption DEF Crash, TypeOK, EngineTypeOK, EmptyCache
    <2>2. MemTypeOK'
      BY <1>15, <1>s DEF Crash, TypeOK, MemTypeOK, EmptyBuffers
    <2> QED
      BY <1>15, <2>1, <2>2, WalCrashType DEF Crash, TypeOK
  <1>16. CASE Midnight
    <2>1. EngineTypeOK' /\ UNCHANGED walVars
      BY <1>16 DEF Midnight, TypeOK, EngineTypeOK, engineVars
    <2>2. MemTypeOK'
      BY <1>16, MemTableAssumption DEF Midnight, NextDay, TypeOK, MemTypeOK
    <2> QED
      BY <1>w, <2>1, <2>2 DEF TypeOK
  <1>17. CASE UNCHANGED vars
    <2>1. EngineTypeOK'
      BY <1>17 DEF vars, engineVars, TypeOK, EngineTypeOK
    <2> QED
      BY <1>w, <1>m, <1>17, <2>1 DEF vars, TypeOK
  <1> QED
    BY <1>1, <1>2, <1>3, <1>4, <1>5, <1>6, <1>7, <1>8, <1>9, <1>10, <1>11, <1>12, <1>13,
       <1>14, <1>15, <1>16, <1>17, <1>t
    DEF Next, WriteStep, RecoveryStep, FlushStep, FinishReplayFlush, FinishFlushTag

\* Every state of the engine is of its type: no handler, buffer, file or log
\* entry leaves the sets that the declarations name.
THEOREM TypeCorrect == Spec => []TypeOK
  <1> QED
    BY InitType, StepType, PTL DEF Spec

-----------------------------------------------------------------------------
(* The log as a set of points. *)

\* More pieces, more points.
LEMMA DataInMonotone ==
    ASSUME NEW f, NEW n \in Nat, NEW m \in Nat, n <= m
    PROVE  DataIn(f, n) \subseteq DataIn(f, m)
  BY DEF DataIn

\* A piece written at the end adds its point if it is a data piece.
LEMMA DataInAppend ==
    ASSUME NEW f \in Seq(Piece), NEW x \in Piece, NEW n \in 0 .. Len(f)
    PROVE  /\ DataIn(Append(f, x), n) = DataIn(f, n)
           /\ x.part = "data" => DataIn(Append(f, x), Len(f) + 1) = DataIn(f, Len(f)) \union {x.point}
           /\ x.part # "data" => DataIn(Append(f, x), Len(f) + 1) = DataIn(f, Len(f))
  <1> DEFINE g == Append(f, x)
  <1>1. /\ Len(f) \in Nat /\ Len(g) = Len(f) + 1 /\ g[Len(f) + 1] = x
        /\ \A i \in 1 .. Len(f) : g[i] = f[i]
    OBVIOUS
  <1> HIDE DEF g
  <1>2. DataIn(g, n) = DataIn(f, n)
    BY <1>1 DEF DataIn
  <1>3. x.part = "data" => DataIn(g, Len(f) + 1) = DataIn(f, Len(f)) \union {x.point}
    <2> SUFFICES ASSUME x.part = "data"
                 PROVE  DataIn(g, Len(f) + 1) = DataIn(f, Len(f)) \union {x.point}
      OBVIOUS
    <2>1. \A i \in 1 .. Len(f) + 1 : i \in 1 .. Len(f) \/ i = Len(f) + 1
      BY <1>1
    <2>2. Len(f) + 1 \in 1 .. Len(f) + 1 /\ 1 .. Len(f) \subseteq 1 .. Len(f) + 1
      BY <1>1
    <2> QED
      BY <1>1, <2>1, <2>2 DEF DataIn
  <1>4. x.part # "data" => DataIn(g, Len(f) + 1) = DataIn(f, Len(f))
    BY <1>1 DEF DataIn
  <1> QED
    BY <1>2, <1>3, <1>4 DEF g

\* What a crash keeps of the log, it keeps whole.
LEMMA DataInPrefix ==
    ASSUME NEW f \in Seq(Piece), NEW n \in 0 .. Len(f)
    PROVE  /\ Len(SubSeq(f, 1, n)) = n
           /\ \A i \in 1 .. n : SubSeq(f, 1, n)[i] = f[i]
           /\ DataIn(SubSeq(f, 1, n), n) = DataIn(f, n)
  <1> DEFINE g == SubSeq(f, 1, n)
  <1>1. Len(g) = n /\ \A i \in 1 .. n : g[i] = f[i]
    OBVIOUS
  <1> HIDE DEF g
  <1>2. DataIn(g, n) = DataIn(f, n)
    BY <1>1 DEF DataIn
  <1> QED
    BY <1>1, <1>2 DEF g

LEMMA EvenOrOdd ==
    \A i \in Nat : \E k \in Nat : i = 2 * k \/ i = 2 * k - 1
  <1> TAKE i \in Nat
  <1> DEFINE h == i \div 2
  <1>1. h \in Nat /\ i = 2 * h + (i % 2) /\ i % 2 \in 0 .. 1
    OBVIOUS
  <1>2. i % 2 = 0 \/ i % 2 = 1
    BY <1>1
  <1> HIDE DEF h
  <1>3. CASE i % 2 = 0
    BY <1>1, <1>3
  <1>4. CASE i % 2 = 1
    <2>1. h + 1 \in Nat /\ i = 2 * (h + 1) - 1
      BY <1>1, <1>4
    <2> QED
      BY <2>1
  <1> QED
    BY <1>2, <1>3, <1>4

\* A file that ends in a torn piece is not well formed.
LEMMA TornIsDamage ==
    ASSUME NEW f \in Seq(Piece), NEW x \in Piece, x.part = "torn"
    PROVE  ~WellFormed(Append(f, x))
  <1> DEFINE g == Append(f, x)
  <1>1. Len(f) \in Nat /\ Len(g) = Len(f) + 1 /\ g[Len(f) + 1] = x
    OBVIOUS
  <1> HIDE DEF g
  <1>2. PICK k \in Nat : Len(f) + 1 = 2 * k \/ Len(f) + 1 = 2 * k - 1
    <2>1. Len(f) + 1 \in Nat
      BY <1>1
    <2> QED
      BY ONLY <2>1, EvenOrOdd
  <1>3. k \in 1 .. Len(g)
    BY <1>1, <1>2
  <1>4. CASE Len(g) = 2 * k
    <2>1. g[2 * k].part = "torn"
      BY <1>1, <1>4
    <2> QED
      BY <1>3, <1>4, <2>1 DEF WellFormed, GoodEntry, g
  <1>5. CASE Len(g) = 2 * k - 1
    <2>1. g[2 * k - 1].part = "torn"
      BY <1>1, <1>5
    <2> QED
      BY <1>3, <1>5, <2>1 DEF WellFormed, g
  <1> QED
    BY <1>1, <1>2, <1>4, <1>5

\* On a well-formed file every data piece is at an even place, and a replay
\* reaches it.
LEMMA DataIsReadable ==
    ASSUME NEW f \in Seq(Piece), WellFormed(f), NEW i \in 1 .. Len(f), f[i].part = "data"
    PROVE  \E k \in 1 .. Len(f) : i = 2 * k /\ ReadsEntry(f, k)
  <1>1. i \in Nat /\ Len(f) \in Nat
    OBVIOUS
  <1>2. PICK k \in Nat : i = 2 * k \/ i = 2 * k - 1
    BY <1>1, EvenOrOdd
  <1>3. k \in 1 .. Len(f)
    BY <1>1, <1>2
  <1>4. CASE i = 2 * k
    <2>1. ReadsEntry(f, k)
      BY <1>1, <1>3, <1>4 DEF ReadsEntry, WellFormed
    <2> QED
      BY <1>3, <1>4, <2>1
  <1>5. CASE i = 2 * k - 1
    <2>1. f[i].part = "header"
      BY <1>1, <1>3, <1>5 DEF WellFormed, GoodEntry
    <2> QED
      BY <2>1
  <1> QED
    BY <1>2, <1>4, <1>5

\* On a well-formed file a replay yields exactly the points of the data pieces.
LEMMA ReadableIsData ==
    ASSUME NEW f \in Seq(Piece), WellFormed(f)
    PROVE  Readable(f) = DataIn(f, Len(f))
  <1>1. ASSUME NEW k \in 1 .. Len(f), ReadsEntry(f, k)
        PROVE  f[2 * k].point \in DataIn(f, Len(f))
    <2>1. 2 * k \in 1 .. Len(f) /\ f[2 * k].part = "data"
      BY <1>1 DEF ReadsEntry, GoodEntry
    <2> QED
      BY <2>1 DEF DataIn
  <1>2. ASSUME NEW i \in 1 .. Len(f), f[i].part = "data"
        PROVE  f[i].point \in Readable(f)
    BY <1>2, DataIsReadable DEF Readable
  <1> QED
    BY <1>1, <1>2 DEF Readable, DataIn

-----------------------------------------------------------------------------
(* What the MemTable's operations do to the sets the invariant speaks of.  *)

BufferedIn(m) == UNION {PointsIn(m[t]) : t \in Tag}

\* A step of the MemTable that takes in the points S: nothing it held or had
\* written in this run is lost, and what it removes from older files is logged.
MemEffect(S) ==
    /\ Buffered' \union FreshPoints' = Buffered \union FreshPoints \union S
    /\ Buffered' \subseteq Buffered \union S
    /\ Buffered' \intersect FreshPoints' = {}
    /\ SstPoints' \subseteq SstPoints \union Buffered
    /\ SstPoints \subseteq SstPoints' \union LoggedSynced
    /\ FileInv'
    /\ \A t \in Tag : \A p \in PointsIn(mem'[t]) : p.tag = t

LEMMA NoFault == ASSUME TypeOK, SoundDeployment, NEW k PROVE ~Fault(k)
  <1>1. faults \in Nat /\ faults <= 0
    BY DEF TypeOK, MemTypeOK, SoundDeployment
  <1> QED
    BY <1>1 DEF Fault, SoundDeployment

LEMMA NoLogFailure == ASSUME TypeOK, SoundDeployment, walOpened PROVE ~LogCallFails
  BY NoFault DEF LogCallFails

\* Fewer pieces, fewer points.
LEMMA SyncedIsLogged == ASSUME TypeOK PROVE LoggedSynced \subseteq Logged
  BY DataInMonotone DEF TypeOK, WalTypeOK, LoggedSynced, Logged

LEMMA FlushBufferEffect ==
    ASSUME TypeOK, SoundDeployment, FileInv, flushing = {}, UNCHANGED walVars,
           NEW m \in [Tag -> Seq(Point)], NEW t \in Tag, m[t] # <<>>,
           \A u \in Tag : \A p \in PointsIn(m[u]) : p.tag = u,
           BufferedIn(m) \subseteq LoggedSynced,
           BufferedIn(m) \intersect FreshPoints = {},
           NEW S, BufferedIn(m) = Buffered \union S,
           FlushBuffer(m, t)
    PROVE  MemEffect(S)
  <1> DEFINE n == SstFile(m[t][1], day)
  <1>1. m[t][1] \in Point /\ m[t][1] \in PointsIn(m[t])
    BY DEF PointsIn
  <1>2. m[t][1].tag = t /\ n \in SstName /\ NamedAfter(n, m[t][1]) /\ n.tag = t
    BY <1>1, PointFields DEF TypeOK, MemTypeOK, SstFile, NamedAfter
  <1>3. m[t][1] \in BufferedIn(m)
    BY <1>1 DEF BufferedIn
  <1>4. m[t][1] \in LoggedSynced /\ m[t][1] \in Logged
    BY <1>3, SyncedIsLogged
  <1>5. /\ mem' = m /\ flushing' = {n} /\ sst' = [sst EXCEPT ![n] = {}]
        /\ freshSst' = freshSst \ {n}
    BY NoFault DEF FlushBuffer
  <1>6. sst \in [SstName -> SUBSET Point] /\ freshSst \subseteq SstName
    BY DEF TypeOK, MemTypeOK
  <1>7. sst[n] \subseteq LoggedSynced
    BY <1>2, <1>4 DEF FileInv
  <1>8. n \notin freshSst \/ sst[n] = {}
    \* a file of this run named after m[t][1] would hold that very point
    <2> SUFFICES ASSUME n \in freshSst, sst[n] # {} PROVE FALSE
      OBVIOUS
    <2>1. PICK p \in sst[n] : NamedAfter(n, p)
      BY <1>2 DEF FileInv
    <2>2. p \in Point /\ p.tag = m[t][1].tag /\ p.ts = m[t][1].ts
      BY <1>2, <1>6, <2>1 DEF NamedAfter
    <2>3. p = m[t][1]
      BY <1>1, <2>2 DEF SoundDeployment, DistinctTs
    <2>4. p \in FreshPoints
      BY <2>1 DEF FreshPoints
    <2> QED
      BY <1>3, <2>3, <2>4
  <1>9. sst'[n] = {} /\ \A k \in SstName : k # n => sst'[k] = sst[k]
    BY <1>2, <1>5, <1>6
  <1> HIDE DEF n
  <1>10. FreshPoints' = FreshPoints
    BY <1>5, <1>6, <1>8, <1>9 DEF FreshPoints
  <1>11. SstPoints' \subseteq SstPoints /\ SstPoints \subseteq SstPoints' \union sst[n]
    BY <1>2, <1>9 DEF SstPoints
  <1>12. Buffered' = BufferedIn(m)
    BY <1>5 DEF Buffered, BufferedIn
  <1>13. Logged' = Logged /\ LoggedSynced' = LoggedSynced
    BY DEF Logged, LoggedSynced, walVars
  <1>14. FileInv'
    <2>1. \A k \in SstName : sst'[k] # {} => \E p \in sst'[k] : NamedAfter(k, p)
      BY <1>9 DEF FileInv
    <2>2. \A k \in SstName : (\E p \in Logged' : NamedAfter(k, p)) => sst'[k] \subseteq LoggedSynced'
      BY <1>9, <1>13 DEF FileInv
    <2>3. \A k \in flushing' : /\ mem'[k.tag] # <<>> /\ NamedAfter(k, mem'[k.tag][1])
                              /\ sst'[k] = {} /\ k \notin freshSst'
      BY <1>2, <1>5, <1>9
    <2> QED
      BY <2>1, <2>2, <2>3 DEF FileInv
  <1>15. \A u \in Tag : \A p \in PointsIn(mem'[u]) : p.tag = u
    BY <1>5
  <1> QED
    BY <1>7, <1>10, <1>11, <1>12, <1>13, <1>14, <1>15 DEF MemEffect

LEMMA AppendNotEmpty ==
    ASSUME NEW S, NEW s \in Seq(S), NEW p \in S
    PROVE  Append(s, p) \in Seq(S) /\ Append(s, p) # <<>>
  <1>1. Append(s, p) \in Seq(S)
    OBVIOUS
  <1>2. Len(Append(s, p)) = Len(s) + 1 /\ Len(s) \in Nat /\ Len(<<>>) = 0
    OBVIOUS
  <1> QED
    BY <1>1, <1>2

\* MemTable::Add's append adds the point to its tag's buffer.
LEMMA AppendBuffer ==
    ASSUME TypeOK, \A u \in Tag : \A q \in PointsIn(mem[u]) : q.tag = u, NEW p \in Point
    PROVE  LET m == [mem EXCEPT ![p.tag] = Append(@, p)]
           IN  /\ p.tag \in Tag /\ m \in [Tag -> Seq(Point)] /\ m[p.tag] # <<>>
               /\ BufferedIn(m) = Buffered \union {p}
               /\ \A u \in Tag : \A q \in PointsIn(m[u]) : q.tag = u
  <1> DEFINE m == [mem EXCEPT ![p.tag] = Append(@, p)]
  <1>1. p.tag \in Tag /\ mem \in [Tag -> Seq(Point)]
    BY PointFields DEF TypeOK, MemTypeOK
  <1>2. m \in [Tag -> Seq(Point)] /\ m[p.tag] = Append(mem[p.tag], p) /\ m[p.tag] # <<>>
        /\ \A u \in Tag : u # p.tag => m[u] = mem[u]
    <2>1. mem[p.tag] \in Seq(Point)
      BY <1>1
    <2>2. Append(mem[p.tag], p) \in Seq(Point) /\ Append(mem[p.tag], p) # <<>>
      BY <2>1, AppendNotEmpty
    <2> QED
      BY <1>1, <2>2
  <1> HIDE DEF m
  <1>3. PointsIn(m[p.tag]) = PointsIn(mem[p.tag]) \union {p}
    <2> DEFINE s == mem[p.tag]
               r == m[p.tag]
    <2>1. s \in Seq(Point) /\ r = Append(s, p)
      BY <1>1, <1>2
    <2> HIDE DEF s, r
    <2>2. /\ Len(s) \in Nat /\ DOMAIN s = 1 .. Len(s) /\ DOMAIN r = 1 .. Len(s) + 1
          /\ r[Len(s) + 1] = p /\ \A i \in 1 .. Len(s) : r[i] = s[i]
      BY <2>1
    <2>3. \A i \in 1 .. Len(s) + 1 : i \in 1 .. Len(s) \/ i = Len(s) + 1
      BY <2>2
    <2>4. Len(s) + 1 \in 1 .. Len(s) + 1 /\ 1 .. Len(s) \subseteq 1 .. Len(s) + 1
      BY <2>2
    <2>5. PointsIn(r) = PointsIn(s) \union {p}
      BY <2>2, <2>3, <2>4 DEF PointsIn
    <2> QED
      BY <2>5 DEF s, r
  <1>4. BufferedIn(m) = Buffered \union {p}
    <2>1. BufferedIn(m) \subseteq Buffered \union {p}
      <3> SUFFICES ASSUME NEW u \in Tag, NEW q \in PointsIn(m[u])
                   PROVE  q \in Buffered \union {p}
        BY DEF BufferedIn
      <3>1. q \in PointsIn(mem[u]) \union {p}
        BY <1>2, <1>3
      <3> QED
        BY <3>1 DEF Buffered
    <2>2. \A u \in Tag : PointsIn(mem[u]) \subseteq PointsIn(m[u])
      BY <1>2, <1>3
    <2>3. Buffered \subseteq BufferedIn(m)
      BY <2>2 DEF Buffered, BufferedIn
    <2>4. p \in BufferedIn(m)
      BY <1>1, <1>3 DEF BufferedIn
    <2> QED
      BY <2>1, <2>3, <2>4
  <1>5. \A u \in Tag : \A q \in PointsIn(m[u]) : q.tag = u
    BY <1>2, <1>3
  <1> QED
    BY <1>1, <1>2, <1>4, <1>5 DEF m

LEMMA AddEffect ==
    ASSUME TypeOK, SoundDeployment, FileInv, BufferInv, flushing = {}, UNCHANGED walVars,
           NEW p \in Point, p \in LoggedSynced, p \notin Buffered \union FreshPoints,
           Add(p)
    PROVE  MemEffect({p})
  <1> DEFINE m == [mem EXCEPT ![p.tag] = Append(@, p)]
  <1>1. /\ p.tag \in Tag /\ m \in [Tag -> Seq(Point)] /\ m[p.tag] # <<>>
        /\ BufferedIn(m) = Buffered \union {p}
        /\ \A u \in Tag : \A q \in PointsIn(m[u]) : q.tag = u
    BY AppendBuffer DEF BufferInv
  <1> HIDE DEF m
  <1>2. BufferedIn(m) \subseteq LoggedSynced /\ BufferedIn(m) \intersect FreshPoints = {}
    BY <1>1 DEF BufferInv
  <1>3. CASE Len(m[p.tag]) < FlushThreshold
    <2>1. mem' = m /\ UNCHANGED <<flushing, sst, freshSst, day, faults>>
      BY <1>3 DEF Add, m
    <2>2. Buffered' = BufferedIn(m) /\ FreshPoints' = FreshPoints /\ SstPoints' = SstPoints
      BY <2>1 DEF Buffered, BufferedIn, FreshPoints, SstPoints
    <2>3. Logged' = Logged /\ LoggedSynced' = LoggedSynced
      BY DEF Logged, LoggedSynced, walVars
    <2>4. FileInv'
      BY <2>1, <2>3 DEF FileInv
    <2> QED
      BY <1>1, <1>2, <2>1, <2>2, <2>3, <2>4 DEF MemEffect
  <1>4. CASE ~(Len(m[p.tag]) < FlushThreshold)
    <2>1. FlushBuffer(m, p.tag)
      BY <1>4 DEF Add, m
    <2> QED
      BY <1>1, <1>2, <2>1, FlushBufferEffect
  <1> QED
    BY <1>3, <1>4

LEMMA CloseSstEffect ==
    ASSUME TypeOK, SoundDeployment, FileInv, BufferInv, UNCHANGED walVars,
           NEW n \in flushing, CloseSst(n)
    PROVE  MemEffect({})
  <1> DEFINE B == PointsIn(mem[n.tag])
  <1>1. n \in SstName /\ n.tag \in Tag /\ sst[n] = {} /\ n \notin freshSst
    BY PointFields DEF TypeOK, MemTypeOK, FileInv
  <1>2. mem[n.tag] \in Seq(Point) /\ mem[n.tag] # <<>> /\ NamedAfter(n, mem[n.tag][1])
    BY <1>1 DEF TypeOK, MemTypeOK, FileInv
  <1>3. mem[n.tag][1] \in B /\ B \subseteq Buffered
    BY <1>1, <1>2 DEF PointsIn, Buffered
  <1>4. /\ sst \in [SstName -> SUBSET Point] /\ freshSst \subseteq SstName
        /\ mem \in [Tag -> Seq(Point)]
    BY DEF TypeOK, MemTypeOK
  <1>5. sst'[n] = B /\ \A k \in SstName : k # n => sst'[k] = sst[k]
    BY <1>1, <1>4, NoFault DEF CloseSst
  <1>6. mem'[n.tag] = <<>> /\ \A u \in Tag : u # n.tag => mem'[u] = mem[u]
    BY <1>1, <1>4 DEF CloseSst
  <1>7. freshSst' = freshSst \union {n} /\ flushing' = {}
    BY DEF CloseSst
  <1>8. PointsIn(<<>>) = {}
    BY DEF PointsIn
  <1>9. Buffered' = Buffered \ B
    <2>1. ASSUME NEW u \in Tag, u # n.tag PROVE PointsIn(mem[u]) \intersect B = {}
      BY <1>1, <2>1 DEF BufferInv
    <2>2. Buffered' \subseteq Buffered \ B
      BY <1>6, <1>8, <2>1 DEF Buffered
    <2>3. Buffered \ B \subseteq Buffered'
      BY <1>6 DEF Buffered
    <2> QED
      BY <2>2, <2>3
  <1> HIDE DEF B
  <1>10. FreshPoints' = FreshPoints \union B
    BY <1>1, <1>4, <1>5, <1>7 DEF FreshPoints
  <1>11. SstPoints' = SstPoints \union B
    BY <1>1, <1>5 DEF SstPoints
  <1>12. Logged' = Logged /\ LoggedSynced' = LoggedSynced
    BY DEF Logged, LoggedSynced, walVars
  <1>13. FileInv'
    <2>1. \A k \in SstName : sst'[k] # {} => \E p \in sst'[k] : NamedAfter(k, p)
      BY <1>2, <1>3, <1>5 DEF FileInv
    <2>2. \A k \in SstName : (\E p \in Logged' : NamedAfter(k, p)) => sst'[k] \subseteq LoggedSynced'
      BY <1>3, <1>5, <1>12 DEF FileInv, BufferInv
    <2> QED
      BY <1>7, <2>1, <2>2 DEF FileInv
  <1>14. \A u \in Tag : \A p \in PointsIn(mem'[u]) : p.tag = u
    BY <1>6, <1>8 DEF BufferInv
  <1>15. B \subseteq Buffered /\ Buffered \intersect FreshPoints = {}
    BY <1>3 DEF BufferInv
  <1> QED
    BY <1>9, <1>10, <1>11, <1>13, <1>14, <1>15 DEF MemEffect

-----------------------------------------------------------------------------
(* What a step does to the log's points. *)

\* The history variable never forgets.
LEMMA DamageStays == ASSUME [Next]_vars, ~walDamaged' PROVE ~walDamaged
  BY DEF Next, vars, walVars, WriteStep, RecoveryStep, FlushStep, AppendHeader, AppendData,
         SyncLog, AddPoint, FinishFlush, UpdateCache, Acknowledge, InitOpen, ReplayEntry,
         FinishReplayFlush, InitDone, BeginFlush, BeginClose, FlushTag, FinishFlushTag,
         FlushAllDone, TruncateLog, CloseDone, Crash, Midnight, WriteThrows, LogCallFails,
         WriteRaw, WalFlush, WalOpen, WalOpenFails, WalTruncate, WalCrash

\* One WriteRaw that leaves the log well formed.
LEMMA WriteRawEffect ==
    ASSUME TypeOK, walLinked, ~walDamaged', NEW x \in Piece, WriteRaw(x)
    PROVE  /\ WellFormed(walFile')
           /\ DistinctData(walFile) /\ (x.part = "data" => x.point \notin Logged)
                => DistinctData(walFile')
           /\ walLinked' = walLinked
           /\ LoggedSynced' = LoggedSynced
           /\ x.part = "data" => Logged' = Logged \union {x.point}
           /\ x.part # "data" => Logged' = Logged
  <1>1. walFile' = Append(walFile, x) /\ walSynced' = walSynced /\ WellFormed(walFile')
    BY DEF WriteRaw
  <1>2. walFile \in Seq(Piece) /\ walSynced \in 0 .. Len(walFile)
    BY DEF TypeOK, WalTypeOK
  <1>3. /\ Len(walFile) \in Nat /\ Len(walFile') = Len(walFile) + 1
        /\ walFile'[Len(walFile) + 1] = x
        /\ \A i \in 1 .. Len(walFile) : walFile'[i] = walFile[i]
    BY <1>1, <1>2
  <1>4. ASSUME DistinctData(walFile), x.part = "data" => x.point \notin Logged
        PROVE  DistinctData(walFile')
    <2> SUFFICES ASSUME NEW i \in 1 .. Len(walFile) + 1, NEW j \in 1 .. Len(walFile) + 1,
                        walFile'[i].part = "data", walFile'[j].part = "data",
                        walFile'[i].point = walFile'[j].point
                 PROVE  i = j
      BY <1>3 DEF DistinctData
    <2>1. (i \in 1 .. Len(walFile) \/ i = Len(walFile) + 1) /\ (j \in 1 .. Len(walFile) \/ j = Len(walFile) + 1)
      BY <1>3
    <2>2. CASE i \in 1 .. Len(walFile) /\ j \in 1 .. Len(walFile)
      BY <1>3, <1>4, <2>2 DEF DistinctData
    <2>3. ASSUME NEW k \in 1 .. Len(walFile), walFile[k].part = "data", x.part = "data"
          PROVE  walFile[k].point # x.point
      BY <1>4, <2>3 DEF Logged, DataIn
    <2> QED
      BY <1>3, <2>1, <2>2, <2>3
  <1>5. LoggedSynced' = LoggedSynced
    BY <1>1, <1>2, DataInAppend DEF LoggedSynced
  <1>6. x.part = "data" => Logged' = Logged \union {x.point}
    BY <1>1, <1>2, <1>3, DataInAppend DEF Logged
  <1>7. x.part # "data" => Logged' = Logged
    BY <1>1, <1>2, <1>3, DataInAppend DEF Logged
  <1> QED
    BY <1>1, <1>4, <1>5, <1>6, <1>7 DEF WriteRaw

\* A crash that leaves the log well formed keeps what was fsynced and adds nothing.
LEMMA WalCrashEffect ==
    ASSUME TypeOK, ~walDamaged', WalCrash
    PROVE  /\ WellFormed(walFile') /\ walSynced' = Len(walFile')
           /\ DistinctData(walFile) => DistinctData(walFile')
           /\ Logged' = LoggedSynced'
           /\ LoggedSynced \subseteq LoggedSynced'
           /\ Logged' \subseteq Logged
  <1>1. WellFormed(walFile') /\ walSynced' = Len(walFile')
    BY DEF WalCrash
  <1>2. walFile \in Seq(Piece) /\ walSynced \in 0 .. Len(walFile) /\ Len(walFile) \in Nat
    BY DEF TypeOK, WalTypeOK
  <1>3. \E n \in walSynced .. Len(walFile) : walFile' = SubSeq(walFile, 1, n)
    <2>1. SubSeq(walFile, 1, Len(walFile)) = walFile
      BY <1>2
    <2>2. ASSUME NEW n \in walSynced .. Len(walFile) - 1,
                 walFile' = Append(SubSeq(walFile, 1, n), Torn(walFile[n + 1].point))
          PROVE  FALSE
      <3>1. n \in 0 .. Len(walFile) /\ n + 1 \in 1 .. Len(walFile)
        BY <1>2, <2>2
      <3>2. walFile[n + 1] \in Piece
        BY <1>2, <3>1
      <3>3. SubSeq(walFile, 1, n) \in Seq(Piece)
        BY <1>2, <3>1
      <3>4. Torn(walFile[n + 1].point) \in Piece /\ Torn(walFile[n + 1].point).part = "torn"
        BY <3>2 DEF Torn, Piece
      <3> QED
        BY <1>1, <2>2, <3>3, <3>4, TornIsDamage
    <2>3. Len(walFile) \in walSynced .. Len(walFile)
          /\ walSynced .. Len(walFile) - 1 \subseteq walSynced .. Len(walFile)
      BY <1>2
    <2> QED
      BY <2>1, <2>2, <2>3 DEF WalCrash
  <1>4. PICK n \in walSynced .. Len(walFile) : walFile' = SubSeq(walFile, 1, n)
    BY <1>3
  <1>5. n \in 0 .. Len(walFile) /\ n \in Nat
    BY <1>2, <1>4
  <1>6. Len(walFile') = n /\ (\A i \in 1 .. n : walFile'[i] = walFile[i])
        /\ DataIn(walFile', n) = DataIn(walFile, n)
    BY <1>2, <1>4, <1>5, DataInPrefix
  <1>7. DistinctData(walFile) => DistinctData(walFile')
    <2>1. 1 .. n \subseteq 1 .. Len(walFile)
      BY <1>2, <1>5
    <2> QED
      BY <1>6, <2>1 DEF DistinctData
  <1>8. Logged' = DataIn(walFile, n) /\ LoggedSynced' = DataIn(walFile, n)
    BY <1>1, <1>6 DEF Logged, LoggedSynced
  <1>9. DataIn(walFile, walSynced) \subseteq DataIn(walFile, n)
        /\ DataIn(walFile, n) \subseteq DataIn(walFile, Len(walFile))
    BY <1>2, <1>4, <1>5, DataInMonotone
  <1> QED
    BY <1>1, <1>7, <1>8, <1>9 DEF Logged, LoggedSynced

\* Files of this run are files.
LEMMA FreshIsSst == ASSUME TypeOK PROVE FreshPoints \subseteq SstPoints
  BY DEF TypeOK, MemTypeOK, FreshPoints, SstPoints

LEMMA SameLog == ASSUME UNCHANGED walVars PROVE Logged' = Logged /\ LoggedSynced' = LoggedSynced
  BY DEF walVars, Logged, LoggedSynced

LEMMA SameMem ==
    ASSUME UNCHANGED <<mem, sst, freshSst>>
    PROVE  Buffered' = Buffered /\ FreshPoints' = FreshPoints /\ SstPoints' = SstPoints
  BY DEF Buffered, FreshPoints, SstPoints

LEMMA EmptyMem == ASSUME mem = EmptyBuffers PROVE Buffered = {}
  BY DEF EmptyBuffers, Buffered, PointsIn

-----------------------------------------------------------------------------
(* The steps of a handler keep NothingLost. *)

\* w's point is in hand and nobody else has it; the engine is running.
LEMMA HandlerRuns ==
    ASSUME ThreadInv, NEW w \in Writer, pc[w] # "idle"
    PROVE  /\ phase = "running" /\ flusher = "idle"
           /\ \A v \in Writer : v # w /\ pc[v] # "idle" => cur[v] # cur[w]
  BY DEF ThreadInv

LEMMA AppendHeaderKeeps ==
    ASSUME TypeOK, SoundDeployment, ~walDamaged', NothingLost,
           NEW w \in Writer, NEW p \in Point, AppendHeader(w, p)
    PROVE  NothingLost'
  <1> USE DEF NothingLost
  <1>1. phase = "running" /\ phase' = phase /\ flusher' = flusher /\ walLinked
    BY DEF AppendHeader, LogInv
  <1>2. WriteRaw(Header(p)) /\ UNCHANGED memVars /\ pc' = [pc EXCEPT ![w] = "header"]
    BY NoLogFailure DEF AppendHeader, LogInv
  <1>3. /\ pc'[w] = "header" /\ cur'[w] = p /\ pc[w] = "idle"
        /\ \A v \in Writer : v # w => pc'[v] = pc[v] /\ cur'[v] = cur[v]
    BY <1>2 DEF AppendHeader, TypeOK, EngineTypeOK
  <1>4. Header(p) \in Piece /\ Header(p).part = "header"
    BY DEF Header, Piece
  <1>5. /\ WellFormed(walFile') /\ DistinctData(walFile') /\ walLinked'
        /\ Logged' = Logged /\ LoggedSynced' = LoggedSynced
    BY <1>1, <1>2, <1>4, WriteRawEffect DEF LogInv
  <1>6. Buffered' = Buffered /\ FreshPoints' = FreshPoints /\ SstPoints' = SstPoints
    BY <1>2, SameMem DEF memVars
  <1>7. submitted' = submitted \union {p} /\ p \notin submitted /\ acked' = acked
    BY DEF AppendHeader
  <1>8. p \notin Logged /\ p \notin SstPoints /\ p \notin Buffered
    BY <1>7, SyncedIsLogged DEF HistoryInv, BufferInv
  <1>9. LogInv'
    BY <1>1, <1>2, <1>5 DEF LogInv, WriteRaw
  <1>10. ThreadInv'
    <2>1. flusher = "idle"
      BY <1>1 DEF ThreadInv
    <2>2. \A v \in Writer : v # w /\ pc'[v] # "idle" => cur'[v] # p
      BY <1>3, <1>7 DEF HandlerInv
    <2>3. ASSUME NEW u \in Writer, NEW v \in Writer, u # v, pc'[u] # "idle", pc'[v] # "idle"
          PROVE  cur'[u] # cur'[v]
      BY <1>3, <2>2, <2>3 DEF ThreadInv
    <2> QED
      BY <1>1, <2>1, <2>3 DEF ThreadInv
  <1>11. HandlerInv'
    BY <1>3, <1>5, <1>6, <1>7, <1>8 DEF HandlerInv
  <1>12. FileInv' /\ BufferInv'
    BY <1>2, <1>5, <1>6 DEF FileInv, BufferInv, memVars
  <1>13. CoverInv'
    <2>1. InFlight \subseteq InFlight'
      BY <1>3 DEF InFlight
    <2> QED
      BY <1>1, <1>5, <1>6, <2>1 DEF CoverInv
  <1>14. HistoryInv'
    BY <1>5, <1>6, <1>7 DEF HistoryInv
  <1> QED
    BY <1>9, <1>10, <1>11, <1>12, <1>13, <1>14

LEMMA AppendDataKeeps ==
    ASSUME TypeOK, SoundDeployment, ~walDamaged', NothingLost,
           NEW w \in Writer, AppendData(w)
    PROVE  NothingLost'
  <1> USE DEF NothingLost
  <1> DEFINE p == cur[w]
  <1>1. pc[w] = "header" /\ p \in Point
    BY DEF AppendData, TypeOK, EngineTypeOK
  <1>2. /\ phase = "running" /\ flusher = "idle" /\ walLinked
        /\ \A v \in Writer : v # w /\ pc[v] # "idle" => cur[v] # p
    BY <1>1, HandlerRuns DEF LogInv
  <1>3. p \in submitted /\ p \notin Logged /\ p \notin Buffered \union SstPoints
    BY <1>1 DEF HandlerInv
  <1>4. WriteRaw(Data(p)) /\ UNCHANGED memVars
    BY NoLogFailure DEF AppendData, LogInv
  <1>5. /\ UNCHANGED <<phase, flusher, cur, submitted, acked>>
        /\ pc'[w] = "data" /\ \A v \in Writer : v # w => pc'[v] = pc[v]
    BY DEF AppendData, history, TypeOK, EngineTypeOK
  <1>6. Data(p) \in Piece /\ Data(p).part = "data" /\ Data(p).point = p
    BY <1>1 DEF Data, Piece
  <1> HIDE DEF p
  <1>7. /\ WellFormed(walFile') /\ DistinctData(walFile') /\ walLinked'
        /\ Logged' = Logged \union {p} /\ LoggedSynced' = LoggedSynced
    BY <1>2, <1>3, <1>4, <1>6, WriteRawEffect DEF LogInv
  <1>8. Buffered' = Buffered /\ FreshPoints' = FreshPoints /\ SstPoints' = SstPoints
    BY <1>4, SameMem DEF memVars
  <1>9. LogInv'
    BY <1>2, <1>4, <1>5, <1>7 DEF LogInv, WriteRaw
  <1>10. ThreadInv'
    BY <1>1, <1>2, <1>5 DEF ThreadInv
  <1>11. HandlerInv'
    <2>1. ASSUME NEW v \in Writer, v # w, pc'[v] = "header" PROVE cur'[v] \notin Logged'
      <3>1. pc[v] = "header" /\ cur'[v] = cur[v] /\ cur[v] # p
        BY <1>2, <1>5, <2>1
      <3> QED
        BY <1>7, <3>1 DEF HandlerInv
    <2> QED
      BY <1>1, <1>3, <1>5, <1>7, <1>8, <2>1 DEF HandlerInv, p
  <1>12. FileInv'
    \* the only files named after p are empty
    <2>1. ASSUME NEW n \in SstName, NamedAfter(n, p), sst[n] # {} PROVE FALSE
      <3>1. PICK q \in sst[n] : NamedAfter(n, q)
        BY <2>1 DEF FileInv
      <3>2. q \in Point /\ q \in SstPoints
        BY <3>1 DEF TypeOK, MemTypeOK, SstPoints
      <3>3. q = p
        BY <1>1, <2>1, <3>1, <3>2 DEF NamedAfter, SoundDeployment, DistinctTs
      <3> QED
        BY <1>3, <3>2, <3>3
    <2>2. \A n \in SstName : (\E q \in Logged' : NamedAfter(n, q)) => sst'[n] \subseteq LoggedSynced'
      BY <1>4, <1>7, <2>1 DEF FileInv, memVars
    <2> QED
      BY <1>4, <2>2 DEF FileInv, memVars
  <1>13. BufferInv'
    BY <1>4, <1>7, <1>8 DEF BufferInv, memVars
  <1>14. CoverInv'
    <2>1. InFlight \subseteq InFlight' /\ p \in InFlight'
      BY <1>5 DEF InFlight, p
    <2> QED
      BY <1>2, <1>5, <1>7, <1>8, <2>1 DEF CoverInv
  <1>15. HistoryInv'
    BY <1>3, <1>5, <1>7, <1>8 DEF HistoryInv
  <1> QED
    BY <1>9, <1>10, <1>11, <1>12, <1>13, <1>14, <1>15

LEMMA SyncLogKeeps ==
    ASSUME TypeOK, SoundDeployment, NothingLost, NEW w \in Writer, SyncLog(w)
    PROVE  NothingLost'
  <1> USE DEF NothingLost
  <1>1. pc[w] = "data" /\ phase = "running" /\ flusher = "idle"
    BY HandlerRuns DEF SyncLog
  <1>0. WalFlush /\ UNCHANGED memVars
    BY NoLogFailure DEF SyncLog, LogInv
  <1>2. /\ UNCHANGED <<walFile, walOpened, walLinked, mem, flushing, sst, freshSst, phase,
                       flusher, cur, submitted, acked>>
        /\ pc'[w] = "synced" /\ \A v \in Writer : v # w => pc'[v] = pc[v]
    BY <1>0 DEF SyncLog, WalFlush, memVars, history, TypeOK, EngineTypeOK
  <1>3. Logged' = Logged /\ LoggedSynced' = Logged /\ LoggedSynced \subseteq Logged
    BY <1>0, SyncedIsLogged DEF WalFlush, Logged, LoggedSynced
  <1>4. Buffered' = Buffered /\ FreshPoints' = FreshPoints /\ SstPoints' = SstPoints
    BY <1>2, SameMem
  <1>5. LogInv'
    BY <1>1, <1>2 DEF LogInv
  <1>6. ThreadInv'
    BY <1>1, <1>2 DEF ThreadInv
  <1>7. HandlerInv'
    BY <1>1, <1>2, <1>3, <1>4 DEF HandlerInv
  <1>8. FileInv'
    BY <1>2, <1>3 DEF FileInv
  <1>9. BufferInv'
    BY <1>2, <1>3, <1>4 DEF BufferInv
  <1>10. CoverInv'
    <2>1. InFlight \subseteq InFlight'
      BY <1>2 DEF InFlight
    <2> QED
      BY <1>1, <1>2, <1>3, <1>4, <2>1 DEF CoverInv
  <1>11. HistoryInv'
    BY <1>2, <1>3, <1>4 DEF HistoryInv
  <1> QED
    BY <1>5, <1>6, <1>7, <1>8, <1>9, <1>10, <1>11

\* A step of the MemTable that takes in logged points keeps the parts of the
\* invariant that do not depend on who takes it.
LEMMA MemStep ==
    ASSUME TypeOK, NothingLost, UNCHANGED <<walVars, submitted, acked>>,
           NEW S, S \subseteq LoggedSynced, MemEffect(S)
    PROVE  /\ Logged' = Logged /\ LoggedSynced' = LoggedSynced
           /\ FileInv' /\ BufferInv' /\ HistoryInv'
  <1> USE DEF NothingLost
  <1>1. Logged' = Logged /\ LoggedSynced' = LoggedSynced /\ LoggedSynced \subseteq Logged
    BY SameLog, SyncedIsLogged
  <1>2. BufferInv'
    BY <1>1 DEF BufferInv, MemEffect
  <1>3. HistoryInv'
    BY <1>1 DEF HistoryInv, BufferInv, MemEffect
  <1> QED
    BY <1>1, <1>2, <1>3 DEF MemEffect

LEMMA AddPointEffect ==
    ASSUME TypeOK, SoundDeployment, NothingLost, NEW w \in Writer, AddPoint(w)
    PROVE  MemEffect({cur[w]}) /\ cur[w] \in LoggedSynced
  <1> USE DEF NothingLost
  <1> DEFINE p == cur[w]
  <1>1. pc[w] = "synced" /\ p \in Point /\ flushing = {} /\ UNCHANGED walVars
    BY DEF AddPoint, MemUnlocked, TypeOK, EngineTypeOK
  <1>2. p \in LoggedSynced /\ p \notin Buffered \union SstPoints
    BY <1>1 DEF HandlerInv
  <1>3. p \notin Buffered \union FreshPoints
    BY <1>2, FreshIsSst
  <1> QED
    BY <1>1, <1>2, <1>3, AddEffect DEF AddPoint

LEMMA AddPointKeeps ==
    ASSUME TypeOK, SoundDeployment, NothingLost, NEW w \in Writer, AddPoint(w)
    PROVE  NothingLost'
  <1> USE DEF NothingLost
  <1> DEFINE p == cur[w]
  <1>1. pc[w] = "synced"
    BY DEF AddPoint
  <1>2. /\ phase = "running" /\ flusher = "idle"
        /\ \A v \in Writer : v # w /\ pc[v] # "idle" => cur[v] # p
    BY <1>1, HandlerRuns
  <1>3. MemEffect({p}) /\ p \in LoggedSynced
    BY AddPointEffect
  <1>4. /\ UNCHANGED <<walVars, phase, flusher, cur, submitted, acked>>
        /\ pc'[w] \in {"added", "flushing"} /\ \A v \in Writer : v # w => pc'[v] = pc[v]
    BY DEF AddPoint, history, TypeOK, EngineTypeOK
  <1> HIDE DEF p
  <1>5. Logged' = Logged /\ LoggedSynced' = LoggedSynced /\ FileInv' /\ BufferInv' /\ HistoryInv'
    BY <1>3, <1>4, MemStep
  <1>6. LogInv'
    BY <1>2, <1>4 DEF LogInv, walVars
  <1>7. ThreadInv'
    BY <1>1, <1>2, <1>4 DEF ThreadInv
  <1>8. HandlerInv'
    <2>1. ASSUME NEW v \in Writer, v # w, pc'[v] \in {"header", "data", "synced"}
          PROVE  cur'[v] \notin Buffered' \union SstPoints'
      <3>1. cur[v] \notin Buffered \union SstPoints /\ cur[v] # p
        BY <1>2, <1>4, <2>1 DEF HandlerInv
      <3> QED
        BY <1>4, <1>3, <3>1 DEF MemEffect
    <2> QED
      BY <1>1, <1>3, <1>4, <1>5, <2>1 DEF HandlerInv, p
  <1>9. CoverInv'
    <2>1. InFlight \subseteq InFlight' \union {p}
      BY <1>4 DEF InFlight, p
    <2> QED
      BY <1>2, <1>4, <1>3, <1>5, <2>1 DEF CoverInv, MemEffect
  <1> QED
    BY <1>5, <1>6, <1>7, <1>8, <1>9

LEMMA FinishFlushKeeps ==
    ASSUME TypeOK, SoundDeployment, NothingLost, NEW w \in Writer, FinishFlush(w)
    PROVE  NothingLost'
  <1> USE DEF NothingLost
  <1>1. pc[w] = "flushing" /\ phase = "running" /\ flusher = "idle"
    BY HandlerRuns DEF FinishFlush
  <1>2. /\ UNCHANGED <<walVars, phase, flusher, cur, submitted, acked>>
        /\ pc'[w] = "added" /\ \A v \in Writer : v # w => pc'[v] = pc[v]
    BY DEF FinishFlush, history, TypeOK, EngineTypeOK
  <1>3. MemEffect({})
    BY <1>2, CloseSstEffect DEF FinishFlush
  <1>4. Logged' = Logged /\ LoggedSynced' = LoggedSynced /\ FileInv' /\ BufferInv' /\ HistoryInv'
    BY <1>2, <1>3, MemStep
  <1>5. LogInv'
    BY <1>1, <1>2 DEF LogInv, walVars
  <1>6. ThreadInv'
    BY <1>1, <1>2 DEF ThreadInv
  <1>7. HandlerInv'
    BY <1>1, <1>2, <1>3, <1>4 DEF HandlerInv, MemEffect
  <1>8. CoverInv'
    <2>1. InFlight \subseteq InFlight'
      BY <1>1, <1>2 DEF InFlight
    <2> QED
      BY <1>1, <1>2, <1>3, <1>4, <2>1 DEF CoverInv, MemEffect
  <1> QED
    BY <1>4, <1>5, <1>6, <1>7, <1>8

\* UpdateCache and Acknowledge: the point is logged and fsynced already.
LEMMA ReturnKeeps ==
    ASSUME TypeOK, NothingLost, NEW w \in Writer, UpdateCache(w) \/ Acknowledge(w)
    PROVE  NothingLost'
  <1> USE DEF NothingLost
  <1>1. pc[w] \in {"added", "cached"} /\ phase = "running" /\ flusher = "idle"
    BY HandlerRuns DEF UpdateCache, Acknowledge
  <1>2. /\ UNCHANGED <<walVars, mem, flushing, sst, freshSst, phase, flusher, submitted>>
        /\ pc'[w] = "idle" \/ (pc'[w] = "cached" /\ cur'[w] = cur[w])
        /\ \A v \in Writer : v # w => pc'[v] = pc[v] /\ cur'[v] = cur[v]
        /\ acked' \subseteq acked \union {cur[w]}
    BY DEF UpdateCache, Acknowledge, memVars, history, TypeOK, EngineTypeOK
  <1>3. cur[w] \in LoggedSynced
    BY <1>1 DEF HandlerInv
  <1>4. Logged' = Logged /\ LoggedSynced' = LoggedSynced
    BY <1>2, SameLog
  <1>5. Buffered' = Buffered /\ FreshPoints' = FreshPoints /\ SstPoints' = SstPoints
    BY <1>2, SameMem
  <1>6. LogInv'
    BY <1>1, <1>2 DEF LogInv, walVars
  <1>7. ThreadInv'
    BY <1>1, <1>2 DEF ThreadInv
  <1>8. HandlerInv'
    BY <1>1, <1>2, <1>4, <1>5 DEF HandlerInv
  <1>9. FileInv' /\ BufferInv' /\ HistoryInv'
    BY <1>2, <1>3, <1>4, <1>5 DEF FileInv, BufferInv, HistoryInv
  <1>10. CoverInv'
    <2>1. InFlight \subseteq InFlight'
      BY <1>1, <1>2 DEF InFlight
    <2> QED
      BY <1>1, <1>2, <1>4, <1>5, <2>1 DEF CoverInv
  <1> QED
    BY <1>6, <1>7, <1>8, <1>9, <1>10

-----------------------------------------------------------------------------
(* Recovery keeps NothingLost. *)

LEMMA InitOpenKeeps ==
    ASSUME TypeOK, SoundDeployment, NothingLost, InitOpen
    PROVE  NothingLost'
  <1> USE DEF NothingLost
  <1>1. phase = "down" /\ phase' = "recovering" /\ flusher = "idle" /\ flushing = {}
    BY DEF InitOpen, ThreadInv
  <1>2. /\ UNCHANGED <<walFile, walSynced, flushing, sst, flusher, pc, cur, submitted, acked>>
        /\ walOpened' /\ walLinked' /\ replayPos' = 1 /\ mem' = EmptyBuffers /\ freshSst' = {}
    BY NoFault DEF InitOpen, WalOpen, history
  <1>3. \A w \in Writer : pc'[w] = "idle"
    BY <1>1, <1>2 DEF ThreadInv
  <1>4. Logged' = Logged /\ LoggedSynced' = LoggedSynced /\ SstPoints' = SstPoints
    BY <1>2 DEF Logged, LoggedSynced, SstPoints
  <1>5. Buffered' = {} /\ FreshPoints' = {}
    BY <1>2, EmptyMem DEF EmptyBuffers, Buffered, PointsIn, FreshPoints
  <1>6. LogInv'
    BY <1>1, <1>2 DEF LogInv
  <1>7. ThreadInv' /\ HandlerInv'
    BY <1>1, <1>2, <1>3 DEF ThreadInv, HandlerInv
  <1>8. FileInv'
    BY <1>1, <1>2, <1>4 DEF FileInv
  <1>9. BufferInv' /\ HistoryInv'
    <2>1. \A t \in Tag : PointsIn(mem'[t]) = {}
      BY <1>2 DEF EmptyBuffers, PointsIn
    <2> QED
      BY <1>2, <1>4, <1>5, <2>1 DEF BufferInv, HistoryInv
  <1>10. CoverInv'
    BY <1>1, <1>2, <1>5 DEF CoverInv
  <1> QED
    BY <1>6, <1>7, <1>8, <1>9, <1>10

LEMMA ReplayEntryEffect ==
    ASSUME TypeOK, SoundDeployment, NothingLost, ReplayEntry
    PROVE  /\ walFile[2 * replayPos].point \in LoggedSynced
           /\ MemEffect({walFile[2 * replayPos].point})
  <1> USE DEF NothingLost
  <1> DEFINE p == walFile[2 * replayPos].point
  <1>1. /\ phase = "recovering" /\ flushing = {} /\ flusher = "idle"
        /\ replayPos' = replayPos + 1 /\ replayPos \in Nat \ {0}
        /\ UNCHANGED <<walVars, phase, flusher, pc, cur, submitted, acked>>
    BY DEF ReplayEntry, history, ThreadInv, TypeOK, EngineTypeOK
  <1>2. /\ walFile \in Seq(Piece) /\ Len(walFile) \in Nat
        /\ 2 * replayPos <= Len(walFile) /\ GoodEntry(walFile, replayPos)
    BY <1>1 DEF ReplayEntry, MoreToReplay, ReadsEntry, TypeOK, WalTypeOK
  <1>3. replayPos \in 1 .. Len(walFile) /\ 2 * replayPos \in 1 .. Len(walFile)
    BY <1>1, <1>2
  <1>4. walFile[2 * replayPos] \in Piece /\ walFile[2 * replayPos].part = "data"
    BY <1>2, <1>3 DEF GoodEntry
  <1>5. p \in Point
    BY <1>4 DEF Piece
  <1>6. p \in LoggedSynced
    BY <1>1, <1>3, <1>4 DEF LogInv, LoggedSynced, DataIn
  <1>7. p \notin Buffered \union FreshPoints
    <2>1. ~(replayPos < replayPos)
      BY <1>1
    <2> QED
      BY <1>1, <1>2, <1>3, <2>1 DEF CoverInv
  <1>8. MemEffect({p})
    BY <1>1, <1>5, <1>6, <1>7, AddEffect DEF ReplayEntry
  <1> QED
    BY <1>6, <1>8

LEMMA ReplayEntryKeeps ==
    ASSUME TypeOK, SoundDeployment, NothingLost, ReplayEntry
    PROVE  NothingLost'
  <1> USE DEF NothingLost
  <1> DEFINE p == walFile[2 * replayPos].point
  <1>1. /\ phase = "recovering" /\ flushing = {} /\ flusher = "idle"
        /\ replayPos' = replayPos + 1 /\ replayPos \in Nat \ {0}
        /\ UNCHANGED <<walVars, phase, flusher, pc, cur, submitted, acked>>
    BY DEF ReplayEntry, history, ThreadInv, TypeOK, EngineTypeOK
  <1>2. /\ walFile \in Seq(Piece) /\ Len(walFile) \in Nat
        /\ 2 * replayPos <= Len(walFile) /\ GoodEntry(walFile, replayPos)
    BY <1>1 DEF ReplayEntry, MoreToReplay, ReadsEntry, TypeOK, WalTypeOK
  <1>3. replayPos \in 1 .. Len(walFile) /\ 2 * replayPos \in 1 .. Len(walFile)
    BY <1>1, <1>2
  <1>4. walFile[2 * replayPos] \in Piece /\ walFile[2 * replayPos].part = "data"
    BY <1>2, <1>3 DEF GoodEntry
  <1>5. MemEffect({p}) /\ p \in LoggedSynced
    BY ReplayEntryEffect
  <1>6. Logged' = Logged /\ LoggedSynced' = LoggedSynced /\ FileInv' /\ BufferInv' /\ HistoryInv'
    BY <1>1, <1>5, MemStep
  <1>7. LogInv'
    BY <1>1 DEF LogInv, walVars
  <1>8. ThreadInv' /\ HandlerInv'
    BY <1>1 DEF ThreadInv, HandlerInv
  <1>9. CoverInv'
    <2> SUFFICES ASSUME NEW k \in 1 .. Len(walFile), 2 * k <= Len(walFile)
                 PROVE  IF k < replayPos + 1
                        THEN walFile[2 * k].point \in Buffered' \union FreshPoints'
                        ELSE walFile[2 * k].point \notin Buffered' \union FreshPoints'
      BY <1>1 DEF CoverInv, walVars
    <2>1. Buffered' \union FreshPoints' = Buffered \union FreshPoints \union {p}
      BY <1>5 DEF MemEffect
    <2>2. k \in Nat /\ (k < replayPos \/ k = replayPos \/ k > replayPos)
      BY <1>1
    <2>3. CASE k < replayPos
      <3>1. walFile[2 * k].point \in Buffered \union FreshPoints /\ k < replayPos + 1
        BY <1>1, <2>2, <2>3 DEF CoverInv
      <3> QED
        BY <2>1, <3>1
    <2>4. CASE k = replayPos
      BY <1>1, <2>1, <2>4
    <2>5. CASE k > replayPos
      <3>1. walFile[2 * k].point \notin Buffered \union FreshPoints /\ ~(k < replayPos + 1)
        BY <1>1, <2>2, <2>5 DEF CoverInv
      <3>2. walFile[2 * k].part = "data" /\ 2 * k \in 1 .. Len(walFile) /\ 2 * k # 2 * replayPos
        BY <1>1, <1>2, <2>2, <2>5 DEF LogInv, WellFormed, GoodEntry
      <3>3. walFile[2 * k].point # p
        BY <1>3, <1>4, <3>2 DEF LogInv, DistinctData
      <3> QED
        BY <2>1, <3>1, <3>3
    <2> QED
      BY <2>2, <2>3, <2>4, <2>5
  <1> QED
    BY <1>6, <1>7, <1>8, <1>9

LEMMA FlushTagEffect ==
    ASSUME TypeOK, SoundDeployment, NothingLost, NEW t \in Tag, FlushTag(t)
    PROVE  MemEffect({})
  <1>1. flushing = {} /\ mem[t] # <<>> /\ FlushBuffer(mem, t) /\ UNCHANGED walVars
    BY DEF FlushTag
  <1>2. mem \in [Tag -> Seq(Point)] /\ BufferedIn(mem) = Buffered \union {}
    BY DEF TypeOK, MemTypeOK, BufferedIn, Buffered
  <1>3. FileInv /\ (\A u \in Tag : \A p \in PointsIn(mem[u]) : p.tag = u)
        /\ Buffered \subseteq LoggedSynced /\ Buffered \intersect FreshPoints = {}
    BY DEF NothingLost, BufferInv
  <1> QED
    BY <1>1, <1>2, <1>3, FlushBufferEffect

\* FinishReplayFlush, FlushTag and FinishFlushTag: no handler is active.
LEMMA QuietMemStep ==
    ASSUME TypeOK, NothingLost, UNCHANGED <<walVars, engineVars>>,
           phase = "recovering" \/ flusher = "flushAll", MemEffect({})
    PROVE  NothingLost'
  <1> USE DEF NothingLost
  <1>1. UNCHANGED <<phase, flusher, pc, cur, replayPos, submitted, acked>>
    BY DEF engineVars
  <1>2. Logged' = Logged /\ LoggedSynced' = LoggedSynced /\ FileInv' /\ BufferInv' /\ HistoryInv'
    BY <1>1, MemStep
  <1>3. LogInv'
    BY <1>1 DEF LogInv, walVars
  <1>4. phase # "running" /\ (flusher = "idle" => phase = "recovering") /\ flusher # "truncate"
    BY DEF ThreadInv
  <1>5. ThreadInv' /\ HandlerInv'
    BY <1>1, <1>4 DEF ThreadInv, HandlerInv
  <1>6. CoverInv'
    <2>1. Buffered' \union FreshPoints' = Buffered \union FreshPoints
      BY DEF MemEffect
    <2> QED
      BY <1>1, <1>2, <1>4, <2>1 DEF CoverInv, walVars
  <1> QED
    BY <1>2, <1>3, <1>5, <1>6

LEMMA InitDoneKeeps ==
    ASSUME TypeOK, SoundDeployment, NothingLost, InitDone
    PROVE  NothingLost'
  <1> USE DEF NothingLost
  <1>1. /\ phase = "recovering" /\ phase' = "running" /\ flusher = "idle"
        /\ UNCHANGED <<walVars, mem, flushing, sst, freshSst, flusher, pc, cur, submitted, acked>>
        /\ \A w \in Writer : pc[w] = "idle"
    BY DEF InitDone, memVars, history, ThreadInv
  <1>2. Logged' = Logged /\ LoggedSynced' = LoggedSynced
    BY <1>1, SameLog
  <1>3. Buffered' = Buffered /\ FreshPoints' = FreshPoints /\ SstPoints' = SstPoints
    BY <1>1, SameMem
  <1>4. walFile \in Seq(Piece) /\ Len(walFile) \in Nat /\ replayPos \in Nat \ {0}
    BY DEF TypeOK, WalTypeOK, EngineTypeOK
  <1>5. 2 * replayPos > Len(walFile)
    <2> SUFFICES ASSUME 2 * replayPos <= Len(walFile) PROVE FALSE
      BY <1>4
    <2>1. \A j \in 1 .. replayPos : j \in 1 .. Len(walFile) /\ 2 * j <= Len(walFile)
      BY <1>4
    <2>2. \A j \in 1 .. replayPos : GoodEntry(walFile, j)
      BY <2>1 DEF LogInv, WellFormed
    <2> QED
      BY <2>2, NoFault
      DEF InitDone, MoreToReplay, ReadsEntry, ReaderCanOpen, LockedByWriter, SoundDeployment
  <1>6. Logged \subseteq Buffered \union FreshPoints
    <2> SUFFICES ASSUME NEW i \in 1 .. Len(walFile), walFile[i].part = "data"
                 PROVE  walFile[i].point \in Buffered \union FreshPoints
      BY DEF Logged, DataIn
    <2>1. PICK k \in 1 .. Len(walFile) : i = 2 * k
      BY <1>4, DataIsReadable DEF LogInv
    <2>2. 2 * k <= Len(walFile) /\ k < replayPos
      BY <1>4, <1>5, <2>1
    <2> QED
      BY <1>1, <2>1, <2>2 DEF CoverInv
  <1>7. LogInv'
    BY <1>1 DEF LogInv, walVars
  <1>8. ThreadInv' /\ HandlerInv'
    BY <1>1 DEF ThreadInv, HandlerInv
  <1>9. FileInv' /\ BufferInv' /\ HistoryInv'
    BY <1>1, <1>2, <1>3 DEF FileInv, BufferInv, HistoryInv
  <1>10. CoverInv'
    BY <1>1, <1>2, <1>3, <1>6 DEF CoverInv
  <1> QED
    BY <1>7, <1>8, <1>9, <1>10

-----------------------------------------------------------------------------
(* Close and crashes keep NothingLost. *)

LEMMA BeginCloseKeeps ==
    ASSUME TypeOK, NothingLost, BeginClose
    PROVE  NothingLost'
  <1> USE DEF NothingLost
  <1>1. /\ phase = "running" /\ phase' = "closing" /\ flusher' = "flushAll"
        /\ UNCHANGED <<walVars, mem, flushing, sst, freshSst, pc, cur, submitted, acked>>
        /\ \A w \in Writer : pc[w] = "idle"
    BY DEF BeginClose, memVars
  <1>2. Logged' = Logged /\ LoggedSynced' = LoggedSynced
    BY <1>1, SameLog
  <1>3. Buffered' = Buffered /\ FreshPoints' = FreshPoints /\ SstPoints' = SstPoints
    BY <1>1, SameMem
  <1>4. InFlight = {}
    BY <1>1 DEF InFlight
  <1>5. LogInv'
    BY <1>1 DEF LogInv, walVars
  <1>6. ThreadInv' /\ HandlerInv'
    BY <1>1 DEF ThreadInv, HandlerInv
  <1>7. FileInv' /\ BufferInv' /\ HistoryInv'
    BY <1>1, <1>2, <1>3 DEF FileInv, BufferInv, HistoryInv
  <1>8. CoverInv'
    BY <1>1, <1>2, <1>3, <1>4 DEF CoverInv
  <1> QED
    BY <1>5, <1>6, <1>7, <1>8

LEMMA FlushAllDoneKeeps ==
    ASSUME TypeOK, NothingLost, FlushAllDone
    PROVE  NothingLost'
  <1> USE DEF NothingLost
  <1>1. /\ flusher = "flushAll" /\ flusher' = "truncate" /\ phase = "closing"
        /\ mem = EmptyBuffers /\ flushing = {}
        /\ UNCHANGED <<walVars, mem, flushing, sst, freshSst, phase, pc, cur, submitted, acked>>
    BY DEF FlushAllDone, memVars, history, ThreadInv
  <1>2. Logged' = Logged /\ LoggedSynced' = LoggedSynced
    BY <1>1, SameLog
  <1>3. Buffered' = Buffered /\ FreshPoints' = FreshPoints /\ SstPoints' = SstPoints
    BY <1>1, SameMem
  <1>4. LogInv' /\ CoverInv'
    BY <1>1, <1>2, <1>3 DEF LogInv, walVars, CoverInv
  <1>5. ThreadInv' /\ HandlerInv'
    BY <1>1 DEF ThreadInv, HandlerInv
  <1>6. FileInv' /\ BufferInv' /\ HistoryInv'
    BY <1>1, <1>2, <1>3 DEF FileInv, BufferInv, HistoryInv
  <1> QED
    BY <1>4, <1>5, <1>6

\* The log may go: everything in it is in the files of this run.
LEMMA TruncateLogKeeps ==
    ASSUME TypeOK, SoundDeployment, NothingLost, TruncateLog
    PROVE  NothingLost'
  <1> USE DEF NothingLost
  <1>1. /\ flusher = "truncate" /\ flusher' = "idle" /\ phase = "closing"
        /\ mem = EmptyBuffers /\ flushing = {}
        /\ UNCHANGED <<mem, flushing, sst, freshSst, phase, pc, cur, submitted, acked>>
        /\ \A w \in Writer : pc[w] = "idle"
    BY DEF TruncateLog, memVars, history, ThreadInv
  <1>2. walFile' = <<>> /\ walSynced' = 0 /\ walOpened' = walOpened
    BY DEF TruncateLog, WalTruncate, LockedByWriter, SoundDeployment
  <1>3. Buffered = {} /\ Buffered' = Buffered /\ FreshPoints' = FreshPoints /\ SstPoints' = SstPoints
    BY <1>1, EmptyMem, SameMem
  <1>4. LoggedSynced \subseteq SstPoints
    BY <1>1, <1>3, SyncedIsLogged, FreshIsSst DEF CoverInv
  <1>5. Len(walFile') = 0
    BY <1>2
  <1>6. Logged' = {} /\ LoggedSynced' = {}
    BY <1>2, <1>5 DEF Logged, LoggedSynced, DataIn
  <1>7. WellFormed(walFile') /\ DistinctData(walFile')
    BY <1>5 DEF WellFormed, DistinctData
  <1>8. LogInv' /\ CoverInv'
    BY <1>1, <1>2, <1>6, <1>7 DEF LogInv, CoverInv
  <1>9. ThreadInv' /\ HandlerInv'
    BY <1>1 DEF ThreadInv, HandlerInv
  <1>10. FileInv' /\ BufferInv' /\ HistoryInv'
    BY <1>1, <1>3, <1>4, <1>6 DEF FileInv, BufferInv, HistoryInv
  <1> QED
    BY <1>8, <1>9, <1>10

LEMMA CloseDoneKeeps ==
    ASSUME TypeOK, NothingLost, CloseDone
    PROVE  NothingLost'
  <1> USE DEF NothingLost
  <1>1. /\ phase = "closing" /\ phase' = "down" /\ flusher = "idle"
        /\ UNCHANGED <<walVars, mem, flushing, sst, freshSst, flusher, pc, cur, submitted, acked>>
        /\ \A w \in Writer : pc[w] = "idle"
    BY DEF CloseDone, memVars, history, ThreadInv
  <1>2. Logged' = Logged /\ LoggedSynced' = LoggedSynced
    BY <1>1, SameLog
  <1>3. Buffered' = Buffered /\ FreshPoints' = FreshPoints /\ SstPoints' = SstPoints
    BY <1>1, SameMem
  <1>4. walSynced = Len(walFile)
    <2>1. Len(walFile) = 0 /\ walSynced \in 0 .. Len(walFile)
      BY <1>1 DEF LogInv, TypeOK, WalTypeOK
    <2> QED
      BY <2>1
  <1>5. LogInv' /\ CoverInv'
    BY <1>1, <1>4 DEF LogInv, walVars, CoverInv
  <1>6. ThreadInv' /\ HandlerInv'
    BY <1>1 DEF ThreadInv, HandlerInv
  <1>7. FileInv' /\ BufferInv' /\ HistoryInv'
    BY <1>1, <1>2, <1>3 DEF FileInv, BufferInv, HistoryInv
  <1> QED
    BY <1>5, <1>6, <1>7

\* A crash drops the buffers, whose points are all fsynced in the log.
LEMMA CrashKeeps ==
    ASSUME TypeOK, SoundDeployment, ~walDamaged', NothingLost, Crash
    PROVE  NothingLost'
  <1> USE DEF NothingLost
  <1>1. /\ phase' = "down" /\ flusher' = "idle" /\ mem' = EmptyBuffers /\ flushing' = {}
        /\ UNCHANGED <<freshSst, submitted, acked, walOpened>>
        /\ \A w \in Writer : pc'[w] = "idle"
    BY DEF Crash, WalCrash
  <1>2. sst' = sst
    <2>1. sst' = [n \in SstName |-> sst[n]]
      BY DEF Crash, SoundDeployment
    <2> QED
      BY <2>1 DEF TypeOK, MemTypeOK
  <1>3. /\ WellFormed(walFile') /\ DistinctData(walFile') /\ walSynced' = Len(walFile')
        /\ Logged' = LoggedSynced' /\ LoggedSynced \subseteq LoggedSynced' /\ Logged' \subseteq Logged
    BY WalCrashEffect DEF Crash, LogInv
  <1>4. Buffered' = {} /\ FreshPoints' = FreshPoints /\ SstPoints' = SstPoints
        /\ \A t \in Tag : PointsIn(mem'[t]) = {}
    BY <1>1, <1>2 DEF EmptyBuffers, Buffered, PointsIn, FreshPoints, SstPoints
  <1>5. LogInv' /\ CoverInv'
    BY <1>1, <1>3 DEF LogInv, CoverInv
  <1>6. ThreadInv' /\ HandlerInv'
    BY <1>1 DEF ThreadInv, HandlerInv
  <1>7. FileInv'
    BY <1>1, <1>2, <1>3 DEF FileInv
  <1>8. BufferInv' /\ HistoryInv'
    BY <1>1, <1>3, <1>4 DEF BufferInv, HistoryInv
  <1> QED
    BY <1>5, <1>6, <1>7, <1>8

\* A Write that throws, midnight and stuttering steps.
LEMMA NothingKeeps ==
    ASSUME NothingLost, submitted \subseteq submitted',
           UNCHANGED <<walVars, mem, flushing, sst, freshSst, phase, flusher, pc, cur,
                       replayPos, acked>>
    PROVE  NothingLost'
  <1> USE DEF NothingLost
  <1>1. UNCHANGED <<phase, flusher, pc, cur, replayPos, acked>>
    OBVIOUS
  <1>2. Logged' = Logged /\ LoggedSynced' = LoggedSynced
    BY SameLog
  <1>3. Buffered' = Buffered /\ FreshPoints' = FreshPoints /\ SstPoints' = SstPoints
    BY SameMem
  <1>4. InFlight' = InFlight
    BY <1>1 DEF InFlight
  <1>5. LogInv' /\ ThreadInv'
    BY <1>1 DEF LogInv, ThreadInv, walVars
  <1>6. HandlerInv'
    BY <1>1, <1>2, <1>3 DEF HandlerInv
  <1>7. FileInv' /\ BufferInv' /\ HistoryInv'
    BY <1>1, <1>2, <1>3 DEF FileInv, BufferInv, HistoryInv
  <1>8. CoverInv'
    BY <1>1, <1>2, <1>3, <1>4 DEF CoverInv, walVars
  <1> QED
    BY <1>5, <1>6, <1>7, <1>8

-----------------------------------------------------------------------------
(* The theorems. *)

LEMMA InitDurable == Init => DurabilityInv
  <1> SUFFICES ASSUME Init PROVE NothingLost
    BY DEF DurabilityInv
  <1>1. /\ walFile = <<>> /\ walSynced = 0 /\ walOpened /\ walLinked /\ mem = EmptyBuffers /\ flushing = {}
        /\ sst = [n \in SstName |-> {}] /\ freshSst = {} /\ phase = "down" /\ flusher = "idle"
        /\ (\A w \in Writer : pc[w] = "idle") /\ submitted = {} /\ acked = {}
    BY DEF Init, WalInit, MemInit
  <1>2. Len(walFile) = 0
    BY <1>1
  <1>3. Logged = {} /\ LoggedSynced = {}
    BY <1>1, <1>2 DEF Logged, LoggedSynced, DataIn
  <1>4. SstPoints = {} /\ FreshPoints = {}
    BY <1>1 DEF SstPoints, FreshPoints
  <1>5. Buffered = {} /\ \A t \in Tag : PointsIn(mem[t]) = {}
    BY <1>1 DEF EmptyBuffers, Buffered, PointsIn
  <1>6. LogInv
    BY <1>1, <1>2 DEF LogInv, WellFormed, DistinctData
  <1>7. ThreadInv /\ HandlerInv /\ CoverInv
    BY <1>1 DEF ThreadInv, HandlerInv, CoverInv
  <1>8. FileInv
    BY <1>1, <1>3 DEF FileInv
  <1>9. BufferInv /\ HistoryInv
    BY <1>1, <1>3, <1>4, <1>5 DEF BufferInv, HistoryInv
  <1> QED
    BY <1>6, <1>7, <1>8, <1>9 DEF NothingLost

LEMMA StepDurable == TypeOK /\ DurabilityInv /\ [Next]_vars => DurabilityInv'
  <1> SUFFICES ASSUME TypeOK, DurabilityInv, [Next]_vars, SoundDeployment, ~walDamaged'
               PROVE  NothingLost'
    BY DEF DurabilityInv, SoundDeployment
  <1>0. NothingLost
    BY DamageStays DEF DurabilityInv
  <1>1. ASSUME NEW w \in Writer, NEW p \in Point, AppendHeader(w, p) PROVE NothingLost'
    BY <1>0, <1>1, AppendHeaderKeeps
  <1>2. ASSUME NEW w \in Writer, WriteStep(w) PROVE NothingLost'
    BY <1>0, <1>2, AppendDataKeeps, SyncLogKeeps, AddPointKeeps, FinishFlushKeeps, ReturnKeeps
    DEF WriteStep
  <1>3. CASE InitOpen
    BY <1>0, <1>3, InitOpenKeeps
  <1>4. CASE ReplayEntry
    BY <1>0, <1>4, ReplayEntryKeeps
  <1>5. CASE FinishReplayFlush \/ FinishFlushTag
    <2>1. MemEffect({})
      BY <1>0, <1>5, CloseSstEffect DEF FinishReplayFlush, FinishFlushTag, NothingLost
    <2> QED
      BY <1>0, <1>5, <2>1, QuietMemStep DEF FinishReplayFlush, FinishFlushTag
  <1>6. CASE InitDone
    BY <1>0, <1>6, InitDoneKeeps
  <1>7. CASE BeginFlush
    \* excluded by MaxFlushes = 0
    <2>1. flushes \in Nat /\ ~(flushes < 0)
      BY DEF TypeOK, EngineTypeOK, SoundDeployment
    <2> QED
      BY <1>7, <2>1 DEF BeginFlush, SoundDeployment
  <1>8. CASE BeginClose
    BY <1>0, <1>8, BeginCloseKeeps
  <1>9. ASSUME NEW t \in Tag, FlushTag(t) PROVE NothingLost'
    <2>1. MemEffect({})
      BY <1>0, <1>9, FlushTagEffect
    <2> QED
      BY <1>0, <1>9, <2>1, QuietMemStep DEF FlushTag
  <1>10. CASE FlushAllDone
    BY <1>0, <1>10, FlushAllDoneKeeps
  <1>11. CASE TruncateLog
    BY <1>0, <1>11, TruncateLogKeeps
  <1>12. CASE CloseDone
    BY <1>0, <1>12, CloseDoneKeeps
  <1>13. CASE Crash
    BY <1>0, <1>13, CrashKeeps
  <1>14. CASE Midnight \/ UNCHANGED vars
    <2>1. UNCHANGED <<walVars, mem, flushing, sst, freshSst, engineVars>>
      BY <1>14 DEF Midnight, NextDay, vars, memVars
    <2> QED
      BY <1>0, <2>1, NothingKeeps DEF engineVars
  <1>15. ASSUME NEW w \in Writer, NEW p \in Point, WriteThrows(w, p) PROVE NothingLost'
    BY <1>0, <1>15, NothingKeeps DEF WriteThrows, memVars
  <1> QED
    BY <1>1, <1>2, <1>3, <1>4, <1>5, <1>6, <1>7, <1>8, <1>9, <1>10, <1>11, <1>12, <1>13, <1>14,
       <1>15
    DEF Next, RecoveryStep, FlushStep

\* In a sound deployment with an undamaged log every point the engine has
\* taken in is in the buffers, in a file or with a handler for as long as the
\* log may be removed, and in the fsynced log until then.
THEOREM Durability == Spec => []DurabilityInv
  <1> QED
    BY InitType, StepType, InitDurable, StepDurable, PTL DEF Spec

\* Every acknowledged write survives any number of crashes, recoveries and
\* clean restarts, for any number of handlers, points and flush thresholds.
THEOREM AckedWritesSurvive == Spec => []AckedDurable
  <1>1. TypeOK /\ DurabilityInv => AckedDurable
    <2> SUFFICES ASSUME TypeOK, NothingLost PROVE acked \subseteq SstPoints \union Readable(walFile)
      BY DEF DurabilityInv, AckedDurable
    <2>1. Readable(walFile) = Logged
      BY ReadableIsData DEF TypeOK, WalTypeOK, NothingLost, LogInv, Logged
    <2> QED
      BY <2>1, SyncedIsLogged DEF NothingLost, HistoryInv
  <1> QED
    BY <1>1, TypeCorrect, Durability, PTL

\* A point that leaves the SSTables, because a flush reuses the name of its
\* file, is in the log that the next replay reads.
THEOREM FlushesKeepPoints == Spec => FlushKeepsPoints
  <1> DEFINE Kept == SoundDeployment /\ ~walDamaged' => SstPoints \ SstPoints' \subseteq Readable(walFile')
  <1>1. TypeOK /\ DurabilityInv /\ [Next]_vars => [Kept]_vars
    <2> SUFFICES ASSUME TypeOK, DurabilityInv, Next, SoundDeployment, ~walDamaged'
                 PROVE  SstPoints \ SstPoints' \subseteq Readable(walFile')
      OBVIOUS
    <2>0. NothingLost
      BY DamageStays DEF DurabilityInv
    <2>1. CASE sst' = sst
      BY <2>1 DEF SstPoints
    <2>2. ASSUME UNCHANGED walVars, NEW S, MemEffect(S)
          PROVE  SstPoints \ SstPoints' \subseteq Readable(walFile')
      <3>1. Readable(walFile) = Logged
        BY <2>0, ReadableIsData DEF TypeOK, WalTypeOK, NothingLost, LogInv, Logged
      <3> QED
        BY <2>2, <3>1, SyncedIsLogged DEF MemEffect, walVars
    <2>3. ASSUME NEW w \in Writer, AddPoint(w)
          PROVE  SstPoints \ SstPoints' \subseteq Readable(walFile')
      BY <2>0, <2>2, <2>3, AddPointEffect DEF AddPoint
    <2>4. CASE ReplayEntry
      BY <2>0, <2>2, <2>4, ReplayEntryEffect DEF ReplayEntry
    <2>5. ASSUME NEW n \in flushing, CloseSst(n), UNCHANGED walVars
          PROVE  SstPoints \ SstPoints' \subseteq Readable(walFile')
      BY <2>0, <2>2, <2>5, CloseSstEffect DEF NothingLost
    <2>6. ASSUME NEW t \in Tag, FlushTag(t)
          PROVE  SstPoints \ SstPoints' \subseteq Readable(walFile')
      BY <2>0, <2>2, <2>6, FlushTagEffect DEF FlushTag
    <2>7. CASE Crash
      <3>1. sst' = [n \in SstName |-> sst[n]]
        BY <2>7 DEF Crash, SoundDeployment
      <3> QED
        BY <2>1, <3>1 DEF TypeOK, MemTypeOK
    <2>8. CASE \/ \E w \in Writer, p \in Point : AppendHeader(w, p) \/ WriteThrows(w, p)
               \/ \E w \in Writer : AppendData(w) \/ SyncLog(w) \/ UpdateCache(w) \/ Acknowledge(w)
               \/ InitOpen \/ InitDone \/ BeginFlush \/ BeginClose
               \/ FlushAllDone \/ TruncateLog \/ CloseDone \/ Midnight
      <3>1. sst' = sst
        BY <2>8 DEF AppendHeader, AppendData, SyncLog, UpdateCache, Acknowledge, InitOpen, InitDone,
                    BeginFlush, BeginClose, FlushAllDone, TruncateLog, CloseDone, Midnight, NextDay,
                    WriteThrows, LogCallFails, memVars
      <3> QED
        BY <2>1, <3>1
    <2> QED
      BY <2>3, <2>4, <2>5, <2>6, <2>7, <2>8
      DEF Next, WriteStep, RecoveryStep, FlushStep, FinishFlush, FinishReplayFlush, FinishFlushTag
  <1> QED
    BY <1>1, TypeCorrect, Durability, PTL DEF Spec, FlushKeepsPoints

-----------------------------------------------------------------------------
(* The engine implements DurableStore. *)

\* The histories only grow.
LEMMA HistoriesGrow == [Next]_vars => submitted \subseteq submitted' /\ acked \subseteq acked'
  BY DEF Next, vars, engineVars, history, WriteStep, RecoveryStep, FlushStep, AppendHeader,
         AppendData, SyncLog, AddPoint, FinishFlush, UpdateCache, Acknowledge, InitOpen, ReplayEntry,
         FinishReplayFlush, InitDone, BeginFlush, BeginClose, FlushTag, FinishFlushTag,
         FlushAllDone, TruncateLog, CloseDone, Crash, Midnight, WriteThrows

\* Every step but those of a request leaves its handlers alone or idle.
LEMMA StepRequest == TypeOK /\ RequestInv /\ [Next]_vars => RequestInv'
  <1> SUFFICES ASSUME TypeOK, RequestInv, [Next]_vars PROVE RequestInv'
    OBVIOUS
  <1>0. pc \in [Writer -> WriterPc] /\ cur \in [Writer -> Point]
    BY DEF TypeOK, EngineTypeOK
  <1>1. ASSUME NEW w \in Writer, NEW p \in Point, AppendHeader(w, p) PROVE RequestInv'
    <2>1. submitted' = submitted \union {p} /\ acked' = acked /\ cur' = [cur EXCEPT ![w] = p]
          /\ \E x \in WriterPc : pc' = [pc EXCEPT ![w] = x]
      BY <1>1 DEF AppendHeader, WriterPc
    <2>2. \A v \in Writer : v # w => pc'[v] = pc[v] /\ cur'[v] = cur[v]
      BY <1>0, <2>1
    <2> QED
      BY <1>0, <2>1, <2>2 DEF RequestInv
  <1>2. ASSUME NEW w \in Writer, pc[w] # "idle", UNCHANGED <<cur, submitted>>,
               NEW x, pc' = [pc EXCEPT ![w] = x], acked' = acked
        PROVE  RequestInv'
    BY <1>0, <1>2 DEF RequestInv
  <1>3. ASSUME NEW w \in Writer, AppendData(w) \/ SyncLog(w) \/ AddPoint(w) \/ FinishFlush(w) \/ UpdateCache(w)
        PROVE  RequestInv'
    <2>1. pc[w] # "idle" /\ UNCHANGED <<cur, submitted, acked>> /\ \E x : pc' = [pc EXCEPT ![w] = x]
      BY <1>3 DEF AppendData, SyncLog, AddPoint, FinishFlush, UpdateCache, history
    <2> QED
      BY <1>2, <2>1
  <1>4. ASSUME NEW w \in Writer, Acknowledge(w) PROVE RequestInv'
    <2>1. pc[w] = "cached" /\ submitted' = submitted /\ acked' = acked \union {cur[w]}
          /\ pc'[w] = "idle" /\ \A v \in Writer : v # w => pc'[v] = pc[v] /\ cur'[v] = cur[v]
      BY <1>0, <1>4 DEF Acknowledge
    <2> QED
      BY <2>1 DEF RequestInv
  <1>5. CASE Crash
    BY <1>5 DEF Crash, RequestInv
  <1>6. CASE UNCHANGED <<pc, cur, submitted, acked>>
    BY <1>6 DEF RequestInv
  <1>7. CASE \/ InitOpen \/ RecoveryStep \/ BeginFlush \/ BeginClose \/ FlushStep \/ Midnight
             \/ UNCHANGED vars
    <2>1. UNCHANGED <<pc, cur, submitted, acked>>
      BY <1>7 DEF vars, engineVars, history, RecoveryStep, FlushStep, InitOpen, ReplayEntry,
                  FinishReplayFlush, InitDone, BeginFlush, BeginClose, FlushTag, FinishFlushTag,
                  FlushAllDone, TruncateLog, CloseDone, Midnight
    <2> QED
      BY <1>6, <2>1
  <1>8. ASSUME NEW w \in Writer, NEW p \in Point, WriteThrows(w, p) PROVE RequestInv'
    BY <1>8 DEF WriteThrows, RequestInv
  <1> QED
    BY <1>1, <1>3, <1>4, <1>5, <1>7, <1>8 DEF Next, WriteStep

\* A request is on record before it is acknowledged, in every deployment.
THEOREM RequestsOnRecord == Spec => []RequestInv
  <1>1. Init => RequestInv
    BY DEF Init, RequestInv
  <1> QED
    BY <1>1, TypeCorrect, StepRequest, PTL DEF Spec

\* In a sound deployment what a restart finds is what the files and the log hold.
LEMMA RecoverableIsLogged ==
    ASSUME TypeOK, SoundDeployment, NothingLost
    PROVE  Recoverable = SstPoints \union Logged
  <1>1. Readable(walFile) = Logged
    BY ReadableIsData DEF TypeOK, WalTypeOK, NothingLost, LogInv, Logged
  <1> QED
    BY <1>1 DEF Recoverable, SoundDeployment

\* A step of the MemTable moves points between the log and the files.
LEMMA MemStepRecovers ==
    ASSUME TypeOK, NothingLost, UNCHANGED walVars, NEW S, MemEffect(S)
    PROVE  SstPoints' \union Logged' = SstPoints \union Logged
  <1>1. Logged' = Logged /\ LoggedSynced \subseteq Logged /\ Buffered \subseteq Logged
    BY SameLog, SyncedIsLogged DEF NothingLost, BufferInv
  <1> QED
    BY <1>1 DEF MemEffect

\* What each step does to what a restart would find.
LEMMA StepRecovers ==
    ASSUME TypeOK, SoundDeployment, NothingLost, NothingLost', ~walDamaged', Next
    PROVE  \/ \E w \in Writer, p \in Point :
                 /\ AppendHeader(w, p) \/ WriteThrows(w, p)
                 /\ SstPoints' \union Logged' = SstPoints \union Logged
           \/ \E w \in Writer :
                 /\ pc[w] = "header" /\ UNCHANGED <<submitted, acked, crashes>>
                 /\ cur[w] \notin SstPoints \union Logged
                 /\ SstPoints' \union Logged' = SstPoints \union Logged \union {cur[w]}
           \/ \E w \in Writer :
                 Acknowledge(w) /\ SstPoints' \union Logged' = SstPoints \union Logged
           \/ Crash /\ SstPoints' \union Logged' \subseteq SstPoints \union Logged
           \/ /\ UNCHANGED <<submitted, acked, crashes>>
              /\ SstPoints' \union Logged' = SstPoints \union Logged
  <1> DEFINE Found == SstPoints \union Logged
             Same == Found' = Found
             Quiet == UNCHANGED <<submitted, acked, crashes>>
  <1> USE DEF history
  <1>0. walOpened
    BY DEF NothingLost, LogInv
  <1>1. ASSUME NEW w \in Writer, NEW p \in Point, AppendHeader(w, p) PROVE Same
    <2>1. WriteRaw(Header(p)) /\ UNCHANGED memVars
      BY <1>1, <1>0, NoLogFailure DEF AppendHeader
    <2>2. Header(p) \in Piece /\ Header(p).part = "header" /\ walLinked
      BY <1>1 DEF Header, Piece, AppendHeader, NothingLost, LogInv
    <2>3. Logged' = Logged
      BY <2>1, <2>2, WriteRawEffect DEF NothingLost, LogInv
    <2> QED
      BY <2>1, <2>3, SameMem DEF memVars
  <1>2. ASSUME NEW w \in Writer, AppendData(w)
        PROVE  pc[w] = "header" /\ Quiet /\ cur[w] \notin Found /\ Found' = Found \union {cur[w]}
    <2>1. WriteRaw(Data(cur[w])) /\ UNCHANGED memVars /\ pc[w] = "header" /\ Quiet
      BY <1>2, <1>0, NoLogFailure DEF AppendData
    <2>2. /\ Data(cur[w]) \in Piece /\ Data(cur[w]).part = "data" /\ Data(cur[w]).point = cur[w]
          /\ walLinked
      BY <2>1, HandlerRuns DEF Data, Piece, TypeOK, EngineTypeOK, NothingLost, LogInv
    <2>3. cur[w] \notin Logged /\ cur[w] \notin SstPoints
      BY <2>1 DEF NothingLost, HandlerInv
    <2>4. Logged' = Logged \union {cur[w]}
      BY <2>1, <2>2, <2>3, WriteRawEffect DEF NothingLost, LogInv
    <2> QED
      BY <2>1, <2>3, <2>4, SameMem DEF memVars
  <1>3. ASSUME UNCHANGED <<walFile, mem, sst, freshSst>> PROVE Same
    BY <1>3 DEF Logged, SstPoints
  <1>4. ASSUME NEW w \in Writer, SyncLog(w) \/ UpdateCache(w) PROVE Same /\ Quiet
    BY <1>0, <1>3, <1>4, NoLogFailure DEF SyncLog, UpdateCache, WalFlush, walVars, memVars
  <1>14. ASSUME NEW w \in Writer, NEW p \in Point, WriteThrows(w, p) PROVE Same
    BY <1>3, <1>14 DEF WriteThrows, walVars, memVars
  <1>5. ASSUME NEW w \in Writer, Acknowledge(w) PROVE Same
    BY <1>3, <1>5 DEF Acknowledge, walVars, memVars
  <1>6. ASSUME NEW w \in Writer, AddPoint(w) PROVE Same /\ Quiet
    BY <1>6, AddPointEffect, MemStepRecovers DEF AddPoint
  <1>7. CASE ReplayEntry
    BY <1>7, ReplayEntryEffect, MemStepRecovers DEF ReplayEntry
  <1>8. ASSUME NEW t \in Tag, FlushTag(t) PROVE Same /\ Quiet
    BY <1>8, FlushTagEffect, MemStepRecovers DEF FlushTag, engineVars
  <1>9. ASSUME NEW n \in flushing, CloseSst(n), UNCHANGED walVars PROVE Same
    BY <1>9, CloseSstEffect, MemStepRecovers DEF NothingLost
  <1>10. CASE (\E w \in Writer : FinishFlush(w)) \/ FinishReplayFlush \/ FinishFlushTag
    BY <1>9, <1>10 DEF FinishFlush, FinishReplayFlush, FinishFlushTag, engineVars
  <1>11. CASE InitOpen \/ InitDone \/ FlushAllDone \/ CloseDone \/ BeginFlush \/ BeginClose \/ Midnight
    <2>1. walFile' = walFile /\ sst' = sst /\ Quiet
      BY <1>11 DEF InitOpen, InitDone, FlushAllDone, CloseDone, BeginFlush, BeginClose, Midnight,
                   NextDay, WalOpen, WalOpenFails, walVars, memVars, engineVars
    <2>2. Same
      BY <2>1 DEF Logged, SstPoints
    <2> QED
      BY <2>1, <2>2
  <1>12. CASE TruncateLog
    <2>1. /\ flusher = "truncate" /\ phase = "closing" /\ mem = EmptyBuffers /\ UNCHANGED memVars
          /\ Quiet
      BY <1>12 DEF TruncateLog, NothingLost, ThreadInv
    <2>2. Logged \subseteq SstPoints
      BY <2>1, EmptyMem, FreshIsSst DEF NothingLost, CoverInv
    <2>3. walFile' = <<>>
      BY <1>12 DEF TruncateLog, WalTruncate, LockedByWriter, SoundDeployment
    <2>4. Logged' = {}
      <3>1. Len(walFile') = 0
        BY <2>3
      <3> QED
        BY <3>1 DEF Logged, DataIn
    <2>5. Same
      BY <2>1, <2>2, <2>4, SameMem DEF memVars
    <2> QED
      BY <2>1, <2>5
  <1>13. CASE Crash
    <2>1. sst' = [n \in SstName |-> sst[n]] /\ WalCrash
      BY <1>13 DEF Crash, SoundDeployment
    <2>2. Logged' \subseteq Logged
      BY <2>1, WalCrashEffect DEF NothingLost, LogInv
    <2> QED
      BY <1>13, <2>1, <2>2 DEF SstPoints
  <1> QED
    BY <1>1, <1>2, <1>4, <1>5, <1>6, <1>7, <1>8, <1>10, <1>11, <1>12, <1>13, <1>14
    DEF Next, WriteStep, RecoveryStep, FlushStep

\* Every step of the engine is a step of the abstract store, or none.
LEMMA StepImplements ==
    ASSUME TypeOK, TypeOK', DurabilityInv, DurabilityInv', RequestInv, RequestInv', [Next]_vars
    PROVE  [Store!Next]_(Store!vars)
  <1> DEFINE damaged == walDamaged \/ ~SoundDeployment
  <1>1. CASE UNCHANGED vars
    <2>1. Recoverable' = Recoverable
      BY <1>1 DEF vars, walVars, memVars, Recoverable, SstPoints, Readable
    <2> QED
      BY <1>1, <2>1 DEF vars, walVars, engineVars, Store!vars, SoundDeployment, DistinctTs
  <1>2. CASE damaged'
    <2>1. submitted \subseteq submitted' /\ acked \subseteq acked' /\ acked' \subseteq submitted'
      BY HistoriesGrow DEF RequestInv
    <2> QED
      BY <1>2, <2>1 DEF Store!Next, Store!Damaged
  <1>3. CASE ~damaged' /\ Next
    <2>1. SoundDeployment /\ ~walDamaged' /\ ~walDamaged /\ damaged' = damaged
      BY <1>3, DamageStays DEF SoundDeployment, DistinctTs
    <2>2. NothingLost /\ NothingLost'
      BY <2>1 DEF DurabilityInv, SoundDeployment, DistinctTs
    <2>3. Recoverable = SstPoints \union Logged
      BY <2>1, <2>2, RecoverableIsLogged
    <2>4. Recoverable' = SstPoints' \union Logged'
      <3>1. Readable(walFile') = Logged'
        BY <2>2, ReadableIsData DEF TypeOK, WalTypeOK, NothingLost, LogInv, Logged
      <3> QED
        BY <2>1, <3>1 DEF Recoverable, SoundDeployment
    <2>5. acked \subseteq Recoverable /\ acked' \subseteq Recoverable'
      <3>1. LoggedSynced \subseteq Logged /\ LoggedSynced' \subseteq Logged'
        BY DataInMonotone DEF TypeOK, WalTypeOK, LoggedSynced, Logged
      <3> QED
        BY <2>2, <2>3, <2>4, <3>1 DEF NothingLost, HistoryInv
    <2>6. ASSUME NEW w \in Writer, NEW p \in Point, AppendHeader(w, p) \/ WriteThrows(w, p),
                 Recoverable' = Recoverable
          PROVE  Store!Submit(p)
      BY <2>1, <2>6 DEF AppendHeader, WriteThrows, Store!Submit
    <2>7. ASSUME NEW w \in Writer, pc[w] = "header", UNCHANGED <<submitted, acked, crashes>>,
                 cur[w] \notin Recoverable, Recoverable' = Recoverable \union {cur[w]}
          PROVE  cur[w] \in Point /\ Store!Keep(cur[w])
      BY <2>1, <2>7 DEF RequestInv, Store!Keep, TypeOK, EngineTypeOK
    <2>8. ASSUME NEW w \in Writer, Acknowledge(w), Recoverable' = Recoverable
          PROVE  (cur[w] \in Point /\ Store!Ack(cur[w])) \/ UNCHANGED Store!vars
      <3>1. /\ acked' = acked \union {cur[w]} /\ UNCHANGED <<submitted, crashes>>
            /\ cur[w] \in Point /\ cur[w] \in submitted
        BY <2>8 DEF Acknowledge, RequestInv, TypeOK, EngineTypeOK
      <3>2. CASE cur[w] \in acked
        BY <2>1, <2>8, <3>1, <3>2 DEF Store!vars
      <3>3. CASE cur[w] \notin acked
        BY <2>1, <2>5, <2>8, <3>1, <3>3 DEF Store!Ack
      <3> QED
        BY <3>2, <3>3
    <2>9. ASSUME Crash, Recoverable' \subseteq Recoverable
          PROVE  Store!Crash
      BY <2>1, <2>5, <2>9 DEF Crash, Store!Crash
    <2>10. ASSUME UNCHANGED <<submitted, acked, crashes>>, Recoverable' = Recoverable
           PROVE  UNCHANGED Store!vars
      BY <2>1, <2>10 DEF Store!vars
    <2> QED
      BY <1>3, <2>1, <2>2, <2>3, <2>4, <2>6, <2>7, <2>8, <2>9, <2>10, StepRecovers
      DEF Store!Next
  <1> QED
    BY <1>1, <1>2, <1>3

THEOREM EngineIsDurableStore == Spec => ImplementsStore
  <1>1. Init => Store!Init
    BY DEF Init, WalInit, MemInit, Store!Init, Recoverable, SstPoints, Readable
  <1> QED
    BY <1>1, StepImplements, TypeCorrect, Durability, RequestsOnRecord, PTL
    DEF Spec, ImplementsStore, Store!Spec

-----------------------------------------------------------------------------
(* The latest-value cache. *)

LEMMA StepLatest == TypeOK /\ LatestIsNewest /\ [Next]_vars => LatestIsNewest'
  <1> SUFFICES ASSUME TypeOK, LatestIsNewest, [Next]_vars PROVE LatestIsNewest'
    OBVIOUS
  <1>1. ASSUME NEW w \in Writer, UpdateCache(w) PROVE LatestIsNewest'
    <2> DEFINE p == cur[w]
               S(t) == {q \in seen : q.tag = t}
    <2>1. p \in Point /\ p.tag \in Tag /\ p.ts \in Nat
      BY PointFields, PointAssumption DEF TypeOK, EngineTypeOK
    <2>2. seen \subseteq Point /\ cache \in [Tag -> SUBSET Point] /\ \A q \in Point : q.ts \in Nat
      BY PointAssumption DEF TypeOK, EngineTypeOK
    <2>3. seen' = seen \union {p} /\ cache' = [cache EXCEPT ![p.tag] = NewerOf(@, p)]
      BY <1>1 DEF UpdateCache
    <2> HIDE DEF p
    <2>4. cache'[p.tag] = NewerOf(cache[p.tag], p) /\ \A t \in Tag : t # p.tag => cache'[t] = cache[t]
      BY <2>1, <2>2, <2>3
    <2> SUFFICES ASSUME NEW t \in Tag
                 PROVE  /\ cache'[t] = {} <=> {q \in seen' : q.tag = t} = {}
                        /\ cache'[t] \subseteq {q \in seen' : q.tag = t}
                        /\ \A c \in cache'[t], q \in {q \in seen' : q.tag = t} : c.ts >= q.ts
      BY DEF LatestIsNewest
    <2>5. /\ cache[t] = {} <=> S(t) = {}
          /\ cache[t] \subseteq S(t)
          /\ \A c \in cache[t], q \in S(t) : c.ts >= q.ts
      BY DEF LatestIsNewest
    <2>6. CASE t # p.tag
      <3>1. {q \in seen' : q.tag = t} = S(t)
        BY <2>3, <2>6
      <3> QED
        BY <2>4, <2>5, <2>6, <3>1
    <2>7. CASE t = p.tag /\ \A q \in cache[t] : p.ts >= q.ts
      \* the new point is as new as the entry, which is as new as all others
      <3>1. cache'[t] = {p}
        BY <2>4, <2>7 DEF NewerOf
      <3>2. {q \in seen' : q.tag = t} = S(t) \union {p}
        BY <2>3, <2>7
      <3>3. ASSUME NEW q \in S(t) PROVE p.ts >= q.ts
        <4>1. PICK c \in cache[t] : c.ts >= q.ts
          BY <2>5
        <4>2. p.ts >= c.ts /\ c.ts \in Nat /\ q.ts \in Nat
          BY <2>2, <2>7, <4>1
        <4> QED
          BY <2>1, <4>1, <4>2
      <3>4. p.ts >= p.ts
        BY <2>1
      <3> QED
        BY <3>1, <3>2, <3>3, <3>4
    <2>8. CASE t = p.tag /\ ~(\A q \in cache[t] : p.ts >= q.ts)
      \* the entry stays, and some point of it is newer than p
      <3>1. cache'[t] = cache[t]
        BY <2>4, <2>8 DEF NewerOf
      <3>2. {q \in seen' : q.tag = t} = S(t) \union {p}
        BY <2>3, <2>8
      <3>3. PICK q \in cache[t] : ~(p.ts >= q.ts)
        BY <2>8
      <3>4. ASSUME NEW c \in cache[t] PROVE c.ts >= p.ts
        <4>1. c.ts >= q.ts /\ c.ts \in Nat /\ q.ts \in Nat
          BY <2>2, <2>5, <3>3
        <4> QED
          BY <2>1, <3>3, <4>1
      <3> QED
        BY <2>5, <3>1, <3>2, <3>3, <3>4
    <2> QED
      BY <2>6, <2>7, <2>8
  <1>2. CASE seen' = seen /\ cache' = cache
    BY <1>2 DEF LatestIsNewest
  <1>3. CASE InitDone \/ Crash
    BY <1>3 DEF InitDone, Crash, EmptyCache, LatestIsNewest
  <1>4. CASE \/ \E w \in Writer, p \in Point : AppendHeader(w, p) \/ WriteThrows(w, p)
             \/ \E w \in Writer : AppendData(w) \/ SyncLog(w) \/ AddPoint(w) \/ FinishFlush(w) \/ Acknowledge(w)
             \/ InitOpen \/ ReplayEntry \/ FinishReplayFlush \/ BeginFlush \/ BeginClose
             \/ FlushStep \/ Midnight \/ UNCHANGED vars
    <2>1. seen' = seen /\ cache' = cache
      BY <1>4 DEF AppendHeader, AppendData, SyncLog, AddPoint, FinishFlush, Acknowledge, InitOpen,
                  ReplayEntry, FinishReplayFlush, BeginFlush, BeginClose, FlushStep, FlushTag,
                  FinishFlushTag, FlushAllDone, TruncateLog, CloseDone, Midnight, WriteThrows,
                  vars, engineVars
    <2> QED
      BY <1>2, <2>1
  <1> QED
    BY <1>1, <1>3, <1>4 DEF Next, WriteStep, RecoveryStep

\* Whatever the order in which handlers reach the cache, its entry for a tag is
\* the newest point put in since Init.
THEOREM CacheIsNewest == Spec => []LatestIsNewest
  <1>1. Init => LatestIsNewest
    BY DEF Init, EmptyCache, LatestIsNewest
  <1> QED
    BY <1>1, StepLatest, TypeCorrect, PTL DEF Spec

-----------------------------------------------------------------------------
(* The log, until it is first truncated. *)

\* Counts never go down.
LEMMA CountsGrow ==
    ASSUME TypeOK, TypeOK', [Next]_vars
    PROVE  faults <= faults' /\ flushes <= flushes' /\ closes <= closes' /\ crashes <= crashes'
  <1>1. faults \in Nat /\ flushes \in Nat /\ closes \in Nat /\ crashes \in Nat
    BY DEF TypeOK, MemTypeOK, EngineTypeOK
  <1>2. /\ faults' = faults \/ faults' = faults + 1
        /\ flushes' = flushes \/ flushes' = flushes + 1
        /\ closes' = closes \/ closes' = closes + 1
        /\ crashes' = crashes \/ crashes' = crashes + 1
    BY DEF Next, vars, memVars, engineVars, history, WriteStep, RecoveryStep, FlushStep, AppendHeader,
           AppendData, SyncLog, AddPoint, FinishFlush, UpdateCache, Acknowledge, InitOpen, ReplayEntry,
           FinishReplayFlush, InitDone, BeginFlush, BeginClose, FlushTag, FinishFlushTag,
           FlushAllDone, TruncateLog, CloseDone, Crash, Midnight, NextDay, WriteThrows, LogCallFails,
           Fault, Add, FlushBuffer, CloseSst
  <1> QED
    BY <1>1, <1>2

LEMMA SumIsZero == \A a, b \in Nat : a + b = 0 => a = 0 /\ b = 0
  OBVIOUS

LEMMA LogKeptBefore ==
    ASSUME TypeOK, TypeOK', [Next]_vars, LogKept'
    PROVE  LogKept /\ faults' = faults /\ ~walDamaged'
  <1>1. faults <= faults' /\ flushes <= flushes' /\ closes <= closes'
    BY CountsGrow
  <1>2. faults \in Nat /\ flushes \in Nat /\ closes \in Nat /\ flushes' \in Nat /\ closes' \in Nat
    BY DEF TypeOK, MemTypeOK, EngineTypeOK
  <1>3. ~walDamaged
    BY DamageStays DEF LogKept
  <1>4. ~walDamaged' /\ faults' = 0 /\ (Win32 \/ flushes' + closes' = 0)
    BY DEF LogKept
  <1>5. faults = 0
    BY <1>1, <1>2, <1>4
  <1>6. Win32 \/ flushes + closes = 0
    <2>1. ASSUME flushes' + closes' = 0 PROVE flushes + closes = 0
      <3>1. flushes' = 0 /\ closes' = 0
        BY <1>2, <2>1, SumIsZero
      <3>2. flushes = 0 /\ closes = 0
        BY <1>1, <1>2, <3>1
      <3> QED
        BY <3>2
    <2> QED
      BY <1>4, <2>1, Zenon
  <1> QED
    BY <1>3, <1>4, <1>5, <1>6 DEF LogKept

LEMMA StepLogKept ==
    ASSUME TypeOK, TypeOK', LogKeptInv, [Next]_vars
    PROVE  LogKeptInv'
  <1> SUFFICES ASSUME LogKept' PROVE LogKeptInv'
    BY DEF LogKeptInv
  <1>1. LogKept /\ faults' = faults /\ ~walDamaged' /\ faults \in Nat
    BY LogKeptBefore DEF TypeOK, MemTypeOK
  <1>2. /\ WellFormed(walFile) /\ walOpened /\ walLinked
        /\ Win32 \/ flusher = "idle"
        /\ \A w \in Writer :
               /\ pc[w] = "data" => cur[w] \in Logged
               /\ pc[w] \in {"synced", "flushing", "added", "cached"} => cur[w] \in LoggedSynced
        /\ acked \subseteq LoggedSynced
    BY <1>1 DEF LogKeptInv
  <1>3. pc \in [Writer -> WriterPc] /\ cur \in [Writer -> Point]
    BY DEF TypeOK, EngineTypeOK
  <1>4. LoggedSynced \subseteq Logged
    BY SyncedIsLogged
  <1>5. ~Fault("wal") /\ ~LogCallFails
    BY <1>1, <1>2 DEF Fault, LogCallFails
  \* one handler takes a step that leaves the log's points where they are
  <1>6. ASSUME NEW w \in Writer, UNCHANGED <<walVars, flusher, acked>>,
               \A v \in Writer : v # w => pc'[v] = pc[v] /\ cur'[v] = cur[v],
               pc'[w] \in {"header", "idle"} \/ (cur'[w] \in LoggedSynced /\ pc'[w] # "data")
        PROVE  LogKeptInv'
    BY <1>2, <1>6, SameLog DEF LogKeptInv, walVars
  <1>7. ASSUME UNCHANGED <<walVars, pc, cur, acked>>, Win32 \/ flusher' = "idle"
        PROVE  LogKeptInv'
    BY <1>2, <1>7, SameLog DEF LogKeptInv, walVars
  <1>8. ASSUME NEW w \in Writer, NEW p \in Point, AppendHeader(w, p) PROVE LogKeptInv'
    <2>1. /\ WriteRaw(Header(p)) /\ pc' = [pc EXCEPT ![w] = "header"] /\ cur' = [cur EXCEPT ![w] = p]
          /\ UNCHANGED <<flusher, acked, walOpened>>
      BY <1>5, <1>8 DEF AppendHeader, WriteRaw
    <2>2. Header(p) \in Piece /\ Header(p).part = "header"
      BY DEF Header, Piece
    <2>3. WellFormed(walFile') /\ walLinked' /\ LoggedSynced' = LoggedSynced /\ Logged' = Logged
      BY <1>1, <1>2, <2>1, <2>2, WriteRawEffect
    <2>4. pc'[w] = "header" /\ \A v \in Writer : v # w => pc'[v] = pc[v] /\ cur'[v] = cur[v]
      BY <1>3, <2>1
    <2> QED
      BY <1>2, <2>1, <2>3, <2>4 DEF LogKeptInv
  <1>9. ASSUME NEW w \in Writer, AppendData(w) PROVE LogKeptInv'
    <2>1. /\ WriteRaw(Data(cur[w])) /\ pc' = [pc EXCEPT ![w] = "data"]
          /\ UNCHANGED <<flusher, acked, cur, walOpened>>
      BY <1>5, <1>9 DEF AppendData, WriteRaw, history
    <2>2. /\ Data(cur[w]) \in Piece /\ Data(cur[w]).part = "data" /\ Data(cur[w]).point = cur[w]
      BY <1>3 DEF Data, Piece
    <2>3. /\ WellFormed(walFile') /\ walLinked' /\ LoggedSynced' = LoggedSynced
          /\ Logged' = Logged \union {cur[w]}
      BY <1>1, <1>2, <2>1, <2>2, WriteRawEffect
    <2>4. pc'[w] = "data" /\ \A v \in Writer : v # w => pc'[v] = pc[v]
      BY <1>3, <2>1
    <2> QED
      BY <1>2, <2>1, <2>3, <2>4 DEF LogKeptInv
  <1>10. ASSUME NEW w \in Writer, SyncLog(w) PROVE LogKeptInv'
    <2>0. WalFlush
      BY <1>5, <1>10 DEF SyncLog
    <2>1. /\ pc[w] = "data" /\ pc'[w] = "synced" /\ \A v \in Writer : v # w => pc'[v] = pc[v]
          /\ UNCHANGED <<walFile, walOpened, walLinked, flusher, cur, acked>>
      BY <1>3, <1>10, <2>0 DEF SyncLog, WalFlush, history
    <2>2. Logged' = Logged /\ LoggedSynced' = Logged
      BY <2>0 DEF WalFlush, Logged, LoggedSynced
    <2> QED
      BY <1>2, <1>4, <2>1, <2>2 DEF LogKeptInv
  <1>11. ASSUME NEW w \in Writer, AddPoint(w) \/ FinishFlush(w) \/ UpdateCache(w) PROVE LogKeptInv'
    <2>1. /\ UNCHANGED <<walVars, flusher, cur, acked>>
          /\ pc[w] \in {"synced", "flushing", "added"} /\ pc'[w] \in {"flushing", "added", "cached"}
          /\ \A v \in Writer : v # w => pc'[v] = pc[v]
      BY <1>3, <1>11 DEF AddPoint, FinishFlush, UpdateCache, history
    <2> QED
      BY <1>2, <1>6, <2>1
  <1>12. ASSUME NEW w \in Writer, Acknowledge(w) PROVE LogKeptInv'
    <2>1. /\ UNCHANGED <<walVars, flusher>> /\ pc[w] = "cached" /\ pc'[w] = "idle"
          /\ acked' = acked \union {cur[w]}
          /\ \A v \in Writer : v # w => pc'[v] = pc[v] /\ cur'[v] = cur[v]
      BY <1>3, <1>12 DEF Acknowledge
    <2> QED
      BY <1>2, <2>1, SameLog DEF LogKeptInv, walVars
  <1>13. CASE InitOpen
    <2>1. /\ UNCHANGED <<walFile, walSynced, flusher, pc, cur, acked>> /\ walOpened' /\ walLinked'
      BY <1>5, <1>13 DEF InitOpen, WalOpen, history
    <2>2. Logged' = Logged /\ LoggedSynced' = LoggedSynced
      BY <2>1 DEF Logged, LoggedSynced
    <2> QED
      BY <1>2, <2>1, <2>2 DEF LogKeptInv
  <1>14. CASE BeginFlush \/ BeginClose
    \* only on Windows, where it does not touch the log
    <2>1. flushes' + closes' # 0
      <3>1. /\ flushes \in Nat /\ closes \in Nat
            /\ \/ flushes' = flushes + 1 /\ closes' = closes
               \/ closes' = closes + 1 /\ flushes' = flushes
        BY <1>14 DEF BeginFlush, BeginClose, TypeOK, EngineTypeOK
      <3> QED
        BY <3>1
    <2>2. Win32 /\ UNCHANGED <<walVars, pc, cur, acked>>
      BY <1>14, <2>1 DEF BeginFlush, BeginClose, LogKept
    <2> QED
      BY <1>7, <2>2
  <1>15. CASE FlushStep
    <2>1. UNCHANGED <<walVars, pc, cur, acked>> /\ (flusher' = flusher \/ flusher # "idle")
      BY <1>2, <1>15 DEF FlushStep, FlushTag, FinishFlushTag, FlushAllDone, TruncateLog, CloseDone,
                         WalTruncate, LockedByWriter, engineVars, history
    <2> QED
      BY <1>2, <1>7, <2>1
  <1>16. CASE RecoveryStep \/ Midnight \/ UNCHANGED vars
    <2>1. UNCHANGED <<walVars, pc, cur, acked, flusher>>
      BY <1>16 DEF RecoveryStep, ReplayEntry, FinishReplayFlush, InitDone, Midnight, vars, engineVars,
                   history
    <2> QED
      BY <1>2, <1>7, <2>1
  <1>17. CASE Crash
    <2>1. /\ WellFormed(walFile') /\ LoggedSynced \subseteq LoggedSynced'
          /\ flusher' = "idle" /\ acked' = acked /\ UNCHANGED <<walOpened, walLinked>>
          /\ \A w \in Writer : pc'[w] = "idle"
      BY <1>1, <1>17, WalCrashEffect DEF Crash, WalCrash
    <2> QED
      BY <1>2, <2>1 DEF LogKeptInv
  <1>18. ASSUME NEW w \in Writer, NEW p \in Point, WriteThrows(w, p) PROVE LogKeptInv'
    BY <1>2, <1>7, <1>18 DEF WriteThrows
  <1> QED
    BY <1>8, <1>9, <1>10, <1>11, <1>12, <1>13, <1>14, <1>15, <1>16, <1>17, <1>18
    DEF Next, WriteStep

\* Until the log is first truncated every acknowledged write is in the part of
\* it that a replay reads, whatever a power failure does to the SSTables.
THEOREM LogAloneSuffices == Spec => []LogHoldsAcked
  <1>1. Init => LogKeptInv
    <2> SUFFICES ASSUME Init PROVE LogKeptInv
      OBVIOUS
    <2>1. walFile = <<>> /\ Len(walFile) = 0 /\ walOpened /\ walLinked /\ acked = {} /\ flusher = "idle"
          /\ \A w \in Writer : pc[w] = "idle"
      BY DEF Init, WalInit
    <2> QED
      BY <2>1 DEF LogKeptInv, WellFormed
  <1>2. TypeOK /\ LogKeptInv => LogHoldsAcked
    <2> SUFFICES ASSUME TypeOK, LogKeptInv, LogKept PROVE acked \subseteq Readable(walFile)
      BY DEF LogHoldsAcked, LogKept
    <2>1. Readable(walFile) = Logged
      BY ReadableIsData DEF TypeOK, WalTypeOK, LogKeptInv, Logged
    <2> QED
      BY <2>1, SyncedIsLogged DEF LogKeptInv
  <1> QED
    BY <1>1, <1>2, StepLogKept, TypeCorrect, PTL DEF Spec

-----------------------------------------------------------------------------
(* An engine that is only ever stopped by Close, on either platform, with *)
(* Flush called while handlers run.                                       *)

CleanParts ==
    /\ CleanLogInv /\ CleanThreadInv /\ CleanHandlerInv
    /\ CleanFileInv /\ CleanBufferInv /\ CleanHistoryInv

\* A step of the MemTable that takes in the points S, each of which stays in
\* exactly one place.
CleanEffect(S) ==
    /\ Buffered' \union SstPoints' = Buffered \union SstPoints \union S
    /\ CleanFileInv' /\ CleanBufferInv'

LEMMA CleanFlushBuffer ==
    ASSUME TypeOK, DistinctTs, CleanFileInv, flushing = {}, faults' = faults,
           NEW m \in [Tag -> Seq(Point)], NEW t \in Tag, m[t] # <<>>,
           \A u \in Tag : \A p \in PointsIn(m[u]) : p.tag = u,
           BufferedIn(m) \intersect SstPoints = {},
           NEW S, BufferedIn(m) = Buffered \union S,
           FlushBuffer(m, t)
    PROVE  CleanEffect(S)
  <1> DEFINE n == SstFile(m[t][1], day)
  <1>1. m[t][1] \in Point /\ m[t][1] \in PointsIn(m[t]) /\ m[t][1] \in BufferedIn(m)
    BY DEF PointsIn, BufferedIn
  <1>2. m[t][1].tag = t /\ n \in SstName /\ NamedAfter(n, m[t][1]) /\ n.tag = t
    BY <1>1, PointFields DEF TypeOK, MemTypeOK, SstFile, NamedAfter
  <1>3. faults \in Nat /\ faults' # faults + 1
    BY DEF TypeOK, MemTypeOK
  <1>4. mem' = m /\ flushing' = {n} /\ sst' = [sst EXCEPT ![n] = {}]
    BY <1>3 DEF FlushBuffer, Fault
  <1>5. sst \in [SstName -> SUBSET Point]
    BY DEF TypeOK, MemTypeOK
  <1>6. sst[n] = {}
    \* a file named after m[t][1] would hold that very point
    <2> SUFFICES ASSUME sst[n] # {} PROVE FALSE
      OBVIOUS
    <2>1. PICK p \in sst[n] : NamedAfter(n, p)
      BY <1>2 DEF CleanFileInv
    <2>2. p \in Point /\ p.tag = m[t][1].tag /\ p.ts = m[t][1].ts /\ p \in SstPoints
      BY <1>2, <1>5, <2>1 DEF NamedAfter, SstPoints
    <2>3. p = m[t][1]
      BY <1>1, <2>2 DEF DistinctTs
    <2> QED
      BY <1>1, <2>2, <2>3
  <1>7. sst' = sst
    BY <1>2, <1>4, <1>5, <1>6
  <1> HIDE DEF n
  <1>8. SstPoints' = SstPoints /\ Buffered' = BufferedIn(m)
    BY <1>4, <1>7 DEF SstPoints, Buffered, BufferedIn
  <1>9. CleanFileInv'
    BY <1>2, <1>4, <1>6, <1>7 DEF CleanFileInv
  <1>10. CleanBufferInv'
    BY <1>4, <1>8 DEF CleanBufferInv
  <1> QED
    BY <1>8, <1>9, <1>10 DEF CleanEffect

LEMMA CleanAdd ==
    ASSUME TypeOK, DistinctTs, CleanFileInv, CleanBufferInv, flushing = {}, faults' = faults,
           NEW p \in Point, p \notin Buffered \union SstPoints, Add(p)
    PROVE  CleanEffect({p})
  <1> DEFINE m == [mem EXCEPT ![p.tag] = Append(@, p)]
  <1>1. m \in [Tag -> Seq(Point)] /\ m[p.tag] # <<>> /\ p.tag \in Tag
        /\ BufferedIn(m) = Buffered \union {p}
        /\ \A u \in Tag : \A q \in PointsIn(m[u]) : q.tag = u
    BY AppendBuffer DEF CleanBufferInv
  <1> HIDE DEF m
  <1>2. BufferedIn(m) \intersect SstPoints = {}
    BY <1>1 DEF CleanBufferInv
  <1>3. CASE Len(m[p.tag]) < FlushThreshold
    <2>1. mem' = m /\ UNCHANGED <<flushing, sst>>
      BY <1>3 DEF Add, m
    <2>2. Buffered' = BufferedIn(m) /\ SstPoints' = SstPoints
      BY <2>1 DEF Buffered, BufferedIn, SstPoints
    <2> QED
      BY <1>1, <1>2, <2>1, <2>2 DEF CleanEffect, CleanFileInv, CleanBufferInv
  <1>4. CASE ~(Len(m[p.tag]) < FlushThreshold)
    <2>1. FlushBuffer(m, p.tag)
      BY <1>4 DEF Add, m
    <2> QED
      BY <1>1, <1>2, <2>1, CleanFlushBuffer
  <1> QED
    BY <1>3, <1>4

LEMMA CleanCloseSst ==
    ASSUME TypeOK, faults' = faults, CleanFileInv, CleanBufferInv, NEW n \in flushing, CloseSst(n)
    PROVE  CleanEffect({})
  <1> DEFINE B == PointsIn(mem[n.tag])
  <1>1. n \in SstName /\ n.tag \in Tag /\ sst[n] = {}
        /\ mem[n.tag] # <<>> /\ NamedAfter(n, mem[n.tag][1])
    BY PointFields DEF TypeOK, MemTypeOK, CleanFileInv
  <1>2. mem \in [Tag -> Seq(Point)] /\ sst \in [SstName -> SUBSET Point]
    BY DEF TypeOK, MemTypeOK
  <1>3. mem[n.tag][1] \in B /\ B \subseteq Buffered
    BY <1>1, <1>2 DEF PointsIn, Buffered
  <1>4. /\ sst'[n] = B /\ \A k \in SstName : k # n => sst'[k] = sst[k]
        /\ mem'[n.tag] = <<>> /\ \A u \in Tag : u # n.tag => mem'[u] = mem[u]
        /\ flushing' = {}
    <2>1. ~Fault("sst")
      BY DEF Fault, TypeOK, MemTypeOK
    <2> QED
      BY <1>1, <1>2, <2>1 DEF CloseSst
  <1>5. PointsIn(<<>>) = {}
    BY DEF PointsIn
  <1>6. Buffered' = Buffered \ B
    <2>1. ASSUME NEW u \in Tag, u # n.tag PROVE PointsIn(mem[u]) \intersect B = {}
      BY <1>1, <2>1 DEF CleanBufferInv
    <2>2. Buffered' \subseteq Buffered \ B
      BY <1>4, <1>5, <2>1 DEF Buffered
    <2>3. Buffered \ B \subseteq Buffered'
      BY <1>4 DEF Buffered
    <2> QED
      BY <2>2, <2>3
  <1> HIDE DEF B
  <1>7. SstPoints' = SstPoints \union B
    BY <1>1, <1>4 DEF SstPoints
  <1>8. CleanFileInv'
    BY <1>1, <1>3, <1>4 DEF CleanFileInv
  <1>9. CleanBufferInv'
    <2>1. \A u \in Tag : \A p \in PointsIn(mem'[u]) : p.tag = u
      BY <1>4, <1>5 DEF CleanBufferInv
    <2> QED
      BY <1>3, <1>6, <1>7, <2>1 DEF CleanBufferInv
  <1> QED
    BY <1>3, <1>6, <1>7, <1>8, <1>9 DEF CleanEffect

LEMMA CleanBefore ==
    ASSUME TypeOK, TypeOK', [Next]_vars, CleanEngine'
    PROVE  CleanEngine /\ faults' = faults /\ ~Crash
  <1>1. faults <= faults' /\ crashes <= crashes'
    BY CountsGrow
  <1>2. faults \in Nat /\ crashes \in Nat /\ faults' \in Nat /\ crashes' \in Nat
    BY DEF TypeOK, MemTypeOK, EngineTypeOK
  <1>3. crashes' + faults' = 0 /\ DistinctTs
    BY DEF CleanEngine, DistinctTs
  <1>4. crashes' = 0 /\ faults' = 0
    BY <1>2, <1>3, SumIsZero
  <1>5. crashes = 0 /\ faults = 0
    BY <1>1, <1>2, <1>4
  <1>6. CleanEngine
    BY <1>3, <1>5 DEF CleanEngine
  <1> QED
    BY <1>4, <1>5, <1>6 DEF Crash

\* What most steps of a handler do: it moves on, and its point with it.
LEMMA CleanHandlerStep ==
    ASSUME TypeOK, RequestInv, CleanParts, NEW w \in Writer, pc[w] # "idle",
           UNCHANGED <<phase, flusher, cur, submitted, acked>>,
           \A v \in Writer : v # w => pc'[v] = pc[v],
           NEW S, S \subseteq {cur[w]}, CleanEffect(S),
           \/ pc'[w] = "data" /\ cur[w] \notin Buffered \union SstPoints \union S
           \/ pc'[w] = "synced" /\ cur[w] \notin Buffered \union SstPoints \union S
           \/ /\ pc'[w] \in {"flushing", "added", "cached"}
              /\ cur[w] \in Buffered \union SstPoints \union S
    PROVE  CleanParts'
  <1>1. phase = "running" /\ \A v \in Writer : v # w /\ pc[v] # "idle" => cur[v] # cur[w]
    BY DEF CleanParts, CleanThreadInv
  <1>3. Buffered' \union SstPoints' = Buffered \union SstPoints \union S
    BY DEF CleanEffect
  <1>4. CleanLogInv'
    BY <1>1 DEF CleanLogInv
  <1>5. CleanThreadInv'
    BY <1>1 DEF CleanParts, CleanThreadInv
  <1>6. CleanHandlerInv'
    <2> SUFFICES ASSUME NEW v \in Writer
                 PROVE  /\ pc'[v] \in {"header", "data", "synced"} => cur[v] \notin Buffered' \union SstPoints'
                        /\ pc'[v] \in {"flushing", "added", "cached"} => cur[v] \in Buffered' \union SstPoints'
      BY DEF CleanHandlerInv
    <2>1. CASE v = w
      BY <1>3, <2>1
    <2>2. CASE v # w
      BY <1>1, <1>3, <2>2 DEF CleanParts, CleanHandlerInv
    <2> QED
      BY <2>1, <2>2
  <1>7. CleanHistoryInv'
    BY <1>3 DEF CleanParts, CleanHistoryInv, RequestInv
  <1> QED
    BY <1>4, <1>5, <1>6, <1>7 DEF CleanParts, CleanEffect

\* Steps that touch neither the handlers nor where the points are.
LEMMA CleanQuietStep ==
    ASSUME CleanParts, UNCHANGED <<pc, cur, submitted, acked>>, CleanEffect({}),
           CleanLogInv',
           phase' # "running" => \A w \in Writer : pc[w] = "idle",
           flusher' # "idle" => phase' \in {"running", "closing"},
           phase' # "running" /\ flusher' # "flushAll" => mem' = EmptyBuffers /\ flushing' = {}
    PROVE  CleanParts'
  <1>1. Buffered' \union SstPoints' = Buffered \union SstPoints
    BY DEF CleanEffect
  <1>2. CleanThreadInv'
    BY DEF CleanParts, CleanThreadInv
  <1>3. CleanHandlerInv'
    BY <1>1 DEF CleanParts, CleanHandlerInv
  <1>4. CleanHistoryInv'
    BY <1>1 DEF CleanParts, CleanHistoryInv
  <1> QED
    BY <1>2, <1>3, <1>4 DEF CleanParts, CleanEffect

LEMMA CleanSameMem ==
    ASSUME CleanParts, UNCHANGED <<mem, flushing, sst>>
    PROVE  CleanEffect({})
  <1>1. Buffered' = Buffered /\ SstPoints' = SstPoints
    BY DEF Buffered, SstPoints
  <1> QED
    BY <1>1 DEF CleanParts, CleanEffect, CleanFileInv, CleanBufferInv

\* Only a failing Open in Init closes the log.
LEMMA OpenedStays ==
    ASSUME TypeOK, [Next]_vars, faults' = faults, walOpened
    PROVE  walOpened'
  <1>1. ~Fault("wal")
    BY DEF Fault, TypeOK, MemTypeOK
  <1> QED
    BY <1>1 DEF Next, vars, walVars, WriteStep, RecoveryStep, FlushStep, AppendHeader, AppendData,
         SyncLog, AddPoint, FinishFlush, UpdateCache, Acknowledge, InitOpen, ReplayEntry,
         FinishReplayFlush, InitDone, BeginFlush, BeginClose, FlushTag, FinishFlushTag,
         FlushAllDone, TruncateLog, CloseDone, Crash, Midnight, WriteThrows, LogCallFails,
         WriteRaw, WalFlush, WalOpen, WalTruncate, WalCrash

LEMMA StepClean ==
    ASSUME TypeOK, TypeOK', RequestInv, CleanInv, [Next]_vars
    PROVE  CleanInv'
  <1>a. CleanEngine' => /\ DistinctTs /\ faults' = faults /\ ~Crash /\ CleanParts
                        /\ faults \in Nat /\ walOpened
    BY CleanBefore DEF CleanEngine, CleanInv, CleanParts, TypeOK, MemTypeOK
  <1> SUFFICES ASSUME CleanEngine' PROVE CleanParts'
    BY <1>a, OpenedStays DEF CleanInv, CleanParts
  <1>0. DistinctTs /\ faults' = faults /\ ~Crash /\ CleanParts /\ faults \in Nat /\ walOpened
    BY <1>a
  <1>1. pc \in [Writer -> WriterPc] /\ cur \in [Writer -> Point]
    BY DEF TypeOK, EngineTypeOK
  <1>2. ~Fault("wal") /\ ~LogCallFails
    BY <1>0 DEF Fault, LogCallFails
  <1>3. ASSUME NEW w \in Writer, NEW p \in Point, AppendHeader(w, p) PROVE CleanParts'
    <2>1. /\ phase = "running" /\ pc[w] = "idle" /\ p \notin submitted
          /\ submitted' = submitted \union {p} /\ UNCHANGED <<phase, flusher, acked, mem, flushing, sst>>
          /\ pc' = [pc EXCEPT ![w] = "header"] /\ cur' = [cur EXCEPT ![w] = p]
      BY <1>2, <1>3 DEF AppendHeader, memVars
    <2>2. pc'[w] = "header" /\ cur'[w] = p /\ \A v \in Writer : v # w => pc'[v] = pc[v] /\ cur'[v] = cur[v]
      BY <1>1, <2>1
    <2>3. Buffered' = Buffered /\ SstPoints' = SstPoints
      BY <2>1 DEF Buffered, SstPoints
    <2>4. p \notin Buffered \union SstPoints
      BY <1>0, <2>1 DEF CleanParts, CleanHistoryInv
    <2>5. CleanLogInv' /\ CleanFileInv' /\ CleanBufferInv'
      BY <1>0, <2>1, <2>3 DEF CleanParts, CleanLogInv, CleanFileInv, CleanBufferInv
    <2>6. CleanThreadInv'
      <3>1. \A v \in Writer : v # w /\ pc[v] # "idle" => cur[v] # p
        BY <2>1 DEF RequestInv
      <3>2. ASSUME NEW u \in Writer, NEW v \in Writer, u # v, pc'[u] # "idle", pc'[v] # "idle"
            PROVE  cur'[u] # cur'[v]
        BY <1>0, <2>2, <3>1, <3>2 DEF CleanParts, CleanThreadInv
      <3> QED
        BY <1>0, <2>1, <3>2 DEF CleanParts, CleanThreadInv
    <2>7. CleanHandlerInv'
      BY <1>0, <2>2, <2>3, <2>4 DEF CleanParts, CleanHandlerInv
    <2>8. CleanHistoryInv'
      BY <1>0, <2>1, <2>3 DEF CleanParts, CleanHistoryInv
    <2> QED
      BY <2>5, <2>6, <2>7, <2>8 DEF CleanParts
  <1>4. ASSUME NEW w \in Writer, AppendData(w) \/ SyncLog(w) PROVE CleanParts'
    <2>1. /\ pc[w] \in {"header", "data"} /\ pc'[w] \in {"data", "synced"}
          /\ \A v \in Writer : v # w => pc'[v] = pc[v]
          /\ UNCHANGED <<phase, flusher, cur, submitted, acked, mem, flushing, sst>>
      BY <1>1, <1>2, <1>4 DEF AppendData, SyncLog, memVars, history
    <2>2. cur[w] \notin Buffered \union SstPoints
      BY <1>0, <2>1 DEF CleanParts, CleanHandlerInv
    <2>3. CleanEffect({})
      BY <1>0, <2>1, CleanSameMem
    <2> QED
      BY <1>0, <2>1, <2>2, <2>3, CleanHandlerStep
  <1>5. ASSUME NEW w \in Writer, AddPoint(w) PROVE CleanParts'
    <2>1. /\ pc[w] = "synced" /\ flushing = {} /\ Add(cur[w])
          /\ pc'[w] \in {"added", "flushing"} /\ \A v \in Writer : v # w => pc'[v] = pc[v]
          /\ UNCHANGED <<phase, flusher, cur, submitted, acked>>
      BY <1>1, <1>5 DEF AddPoint, MemUnlocked, history
    <2>2. cur[w] \notin Buffered \union SstPoints /\ cur[w] \in Point
      BY <1>0, <1>1, <2>1 DEF CleanParts, CleanHandlerInv
    <2>3. CleanEffect({cur[w]})
      BY <1>0, <2>1, <2>2, CleanAdd DEF CleanParts
    <2> QED
      BY <1>0, <2>1, <2>2, <2>3, CleanHandlerStep
  <1>6. ASSUME NEW w \in Writer, FinishFlush(w) PROVE CleanParts'
    <2>1. /\ pc[w] = "flushing" /\ pc'[w] = "added" /\ \A v \in Writer : v # w => pc'[v] = pc[v]
          /\ UNCHANGED <<phase, flusher, cur, submitted, acked>>
      BY <1>1, <1>6 DEF FinishFlush, history
    <2>2. CleanEffect({})
      BY <1>0, <1>6, CleanCloseSst DEF FinishFlush, CleanParts
    <2>3. cur[w] \in Buffered \union SstPoints
      BY <1>0, <2>1 DEF CleanParts, CleanHandlerInv
    <2> QED
      BY <1>0, <2>1, <2>2, <2>3, CleanHandlerStep
  <1>7. ASSUME NEW w \in Writer, UpdateCache(w) PROVE CleanParts'
    <2>1. /\ pc[w] = "added" /\ pc'[w] = "cached" /\ \A v \in Writer : v # w => pc'[v] = pc[v]
          /\ UNCHANGED <<phase, flusher, cur, submitted, acked, mem, flushing, sst>>
      BY <1>1, <1>7 DEF UpdateCache, memVars, history
    <2>2. cur[w] \in Buffered \union SstPoints
      BY <1>0, <2>1 DEF CleanParts, CleanHandlerInv
    <2>3. CleanEffect({})
      BY <1>0, <2>1, CleanSameMem
    <2> QED
      BY <1>0, <2>1, <2>2, <2>3, CleanHandlerStep
  <1>8. ASSUME NEW w \in Writer, Acknowledge(w) PROVE CleanParts'
    <2>1. /\ pc[w] = "cached" /\ acked' = acked \union {cur[w]}
          /\ UNCHANGED <<phase, flusher, submitted, mem, flushing, sst>>
          /\ pc'[w] = "idle" /\ \A v \in Writer : v # w => pc'[v] = pc[v] /\ cur'[v] = cur[v]
      BY <1>1, <1>8 DEF Acknowledge, memVars
    <2>2. Buffered' = Buffered /\ SstPoints' = SstPoints
      BY <2>1 DEF Buffered, SstPoints
    <2>3. phase = "running" /\ cur[w] \in Buffered \union SstPoints
      BY <1>0, <2>1 DEF CleanParts, CleanThreadInv, CleanHandlerInv
    <2>4. CleanLogInv' /\ CleanFileInv' /\ CleanBufferInv'
      BY <1>0, <2>1, <2>2, <2>3 DEF CleanParts, CleanLogInv, CleanFileInv, CleanBufferInv
    <2>5. CleanThreadInv'
      BY <1>0, <2>1, <2>3 DEF CleanParts, CleanThreadInv
    <2>6. CleanHandlerInv'
      BY <1>0, <2>1, <2>2 DEF CleanParts, CleanHandlerInv
    <2>7. CleanHistoryInv'
      BY <1>0, <2>1, <2>2, <2>3 DEF CleanParts, CleanHistoryInv
    <2> QED
      BY <2>4, <2>5, <2>6, <2>7 DEF CleanParts
  <1>9. CASE InitOpen
    <2>1. /\ phase = "down" /\ phase' = "recovering" /\ mem' = EmptyBuffers
          /\ UNCHANGED <<walFile, flushing, sst, flusher, pc, cur, submitted, acked>>
      BY <1>9 DEF InitOpen, WalOpen, WalOpenFails, history
    <2>2. mem = EmptyBuffers /\ flushing = {} /\ flusher = "idle" /\ \A w \in Writer : pc[w] = "idle"
      BY <1>0, <2>1 DEF CleanParts, CleanThreadInv
    <2>3. CleanLogInv'
      BY <1>0, <2>1 DEF CleanParts, CleanLogInv
    <2>4. CleanEffect({})
      BY <1>0, <2>1, <2>2, CleanSameMem
    <2> QED
      BY <1>0, <2>1, <2>2, <2>3, <2>4, CleanQuietStep
  <1>10. ~ReplayEntry
    \* the log was removed by Close, or cannot be opened for reading
    <2> SUFFICES ASSUME ReplayEntry PROVE FALSE
      OBVIOUS
    <2>1. phase = "recovering" /\ ~Win32 /\ 2 * replayPos <= Len(walFile)
      BY <1>0 DEF ReplayEntry, MoreToReplay, ReaderCanOpen, LockedByWriter, ReadsEntry
    <2>2. walFile = <<>>
      BY <1>0, <2>1 DEF CleanParts, CleanLogInv
    <2>3. Len(walFile) = 0 /\ replayPos \in Nat \ {0}
      BY <2>2 DEF TypeOK, EngineTypeOK
    <2> QED
      BY <2>1, <2>3
  <1>11. ~FinishReplayFlush
    BY <1>0 DEF FinishReplayFlush, CleanParts, CleanThreadInv
  <1>12. CASE InitDone
    <2>1. /\ phase = "recovering" /\ phase' = "running"
          /\ UNCHANGED <<walVars, mem, flushing, sst, flusher, pc, cur, submitted, acked>>
      BY <1>12 DEF InitDone, memVars, history
    <2>2. CleanLogInv'
      BY <2>1 DEF CleanLogInv
    <2> QED
      BY <1>0, <2>1, <2>2, CleanSameMem, CleanQuietStep
  <1>13. CASE BeginFlush \/ BeginClose
    <2>1. /\ phase = "running" /\ flusher' = "flushAll" /\ phase' \in {"running", "closing"}
          /\ phase' = "closing" => \A w \in Writer : pc[w] = "idle"
          /\ UNCHANGED <<walVars, mem, flushing, sst, pc, cur, submitted, acked>>
      BY <1>13 DEF BeginFlush, BeginClose, memVars
    <2>2. CleanLogInv'
      BY <2>1 DEF CleanLogInv
    <2> QED
      BY <1>0, <2>1, <2>2, CleanSameMem, CleanQuietStep
  <1>14. ASSUME flusher = "flushAll", UNCHANGED <<walVars, engineVars>>, CleanEffect({})
         PROVE  CleanParts'
    <2>1. phase \in {"running", "closing"} /\ UNCHANGED <<phase, flusher, pc, cur, submitted, acked>>
      BY <1>0, <1>14 DEF CleanParts, CleanThreadInv, engineVars
    <2>2. CleanLogInv'
      BY <1>0, <1>14, <2>1 DEF CleanLogInv
    <2> QED
      BY <1>0, <1>14, <2>1, <2>2, CleanQuietStep DEF CleanParts, CleanThreadInv
  <1>15. ASSUME NEW t \in Tag, FlushTag(t) PROVE CleanParts'
    <2>1. mem \in [Tag -> Seq(Point)] /\ BufferedIn(mem) = Buffered \union {}
      BY DEF TypeOK, MemTypeOK, BufferedIn, Buffered
    <2>2. (\A u \in Tag : \A p \in PointsIn(mem[u]) : p.tag = u)
          /\ BufferedIn(mem) \intersect SstPoints = {}
      BY <1>0, <2>1 DEF CleanParts, CleanBufferInv
    <2>3. CleanEffect({})
      BY <1>0, <1>15, <2>1, <2>2, CleanFlushBuffer DEF FlushTag, CleanParts
    <2> QED
      BY <1>14, <1>15, <2>3 DEF FlushTag
  <1>16. CASE FinishFlushTag
    <2>1. CleanEffect({})
      BY <1>0, <1>16, CleanCloseSst DEF FinishFlushTag, CleanParts
    <2> QED
      BY <1>14, <1>16, <2>1 DEF FinishFlushTag
  <1>17. CASE FlushAllDone
    <2>1. /\ flusher = "flushAll" /\ flusher' = "truncate" /\ mem = EmptyBuffers /\ flushing = {}
          /\ UNCHANGED <<walVars, mem, flushing, sst, phase, pc, cur, submitted, acked>>
      BY <1>17 DEF FlushAllDone, memVars, history
    <2>2. phase \in {"running", "closing"} /\ (phase # "running" => \A w \in Writer : pc[w] = "idle")
      BY <1>0, <2>1 DEF CleanParts, CleanThreadInv
    <2>3. CleanLogInv'
      BY <2>1, <2>2 DEF CleanLogInv
    <2> QED
      BY <1>0, <2>1, <2>2, <2>3, CleanSameMem, CleanQuietStep
  <1>18. CASE TruncateLog
    <2>1. /\ flusher = "truncate" /\ flusher' = "idle" /\ WalTruncate
          /\ UNCHANGED <<mem, flushing, sst, phase, pc, cur, submitted, acked>>
      BY <1>18 DEF TruncateLog, memVars, history
    <2>2. /\ phase \in {"running", "closing"} /\ (phase # "running" => \A w \in Writer : pc[w] = "idle")
          /\ phase # "running" => mem = EmptyBuffers /\ flushing = {}
      BY <1>0, <2>1 DEF CleanParts, CleanThreadInv
    <2>3. CleanLogInv'
      BY <2>1 DEF CleanLogInv, WalTruncate, LockedByWriter
    <2> QED
      BY <1>0, <2>1, <2>2, <2>3, CleanSameMem, CleanQuietStep
  <1>19. CASE CloseDone
    <2>1. /\ phase = "closing" /\ flusher = "idle" /\ phase' = "down" /\ flusher' = "idle"
          /\ UNCHANGED <<walVars, mem, flushing, sst, pc, cur, submitted, acked>>
      BY <1>19 DEF CloseDone, memVars, history
    <2>2. mem = EmptyBuffers /\ flushing = {} /\ \A w \in Writer : pc[w] = "idle"
      BY <1>0, <2>1 DEF CleanParts, CleanThreadInv
    <2>3. CleanLogInv'
      BY <1>0, <2>1 DEF CleanParts, CleanLogInv, walVars
    <2> QED
      BY <1>0, <2>1, <2>2, <2>3, CleanSameMem, CleanQuietStep
  <1>20. CASE Midnight \/ UNCHANGED vars
    <2>1. UNCHANGED <<walVars, mem, flushing, sst, phase, flusher, pc, cur, submitted, acked>>
      BY <1>20 DEF Midnight, NextDay, vars, memVars, engineVars
    <2>2. CleanLogInv'
      BY <1>0, <2>1 DEF CleanParts, CleanLogInv, walVars
    <2> QED
      BY <1>0, <2>1, <2>2, CleanSameMem, CleanQuietStep DEF CleanParts, CleanThreadInv
  <1>21. ASSUME NEW w \in Writer, NEW p \in Point, WriteThrows(w, p) PROVE CleanParts'
    <2>1. /\ UNCHANGED <<walVars, mem, flushing, sst, phase, flusher, pc, cur, acked>>
          /\ submitted \subseteq submitted'
      BY <1>21 DEF WriteThrows, memVars
    <2>2. Buffered' = Buffered /\ SstPoints' = SstPoints
      BY <2>1 DEF Buffered, SstPoints
    <2>3. CleanLogInv' /\ CleanThreadInv'
      BY <1>0, <2>1 DEF CleanParts, CleanLogInv, CleanThreadInv, walVars
    <2>4. CleanHandlerInv' /\ CleanFileInv'
      BY <1>0, <2>1, <2>2 DEF CleanParts, CleanHandlerInv, CleanFileInv
    <2>5. CleanBufferInv' /\ CleanHistoryInv'
      BY <1>0, <2>1, <2>2 DEF CleanParts, CleanBufferInv, CleanHistoryInv
    <2> QED
      BY <2>3, <2>4, <2>5 DEF CleanParts
  <1> QED
    BY <1>0, <1>3, <1>4, <1>5, <1>6, <1>7, <1>8, <1>9, <1>10, <1>11, <1>12, <1>13, <1>15, <1>16, <1>17,
       <1>18, <1>19, <1>20, <1>21
    DEF Next, WriteStep, RecoveryStep, FlushStep

\* On either platform, with Flush called while handlers run, an engine that was
\* only ever stopped by Close has every acknowledged point in an SSTable.
THEOREM CleanCloseKeepsAll == Spec => []CleanCloseDurable
  <1>1. Init => CleanInv
    <2> SUFFICES ASSUME Init PROVE CleanParts
      BY DEF CleanInv, CleanParts, Init, WalInit
    <2>1. /\ walFile = <<>> /\ mem = EmptyBuffers /\ flushing = {} /\ sst = [n \in SstName |-> {}]
          /\ phase = "down" /\ flusher = "idle" /\ (\A w \in Writer : pc[w] = "idle") /\ acked = {}
      BY DEF Init, WalInit, MemInit
    <2>2. SstPoints = {} /\ Buffered = {} /\ \A t \in Tag : PointsIn(mem[t]) = {}
      BY <2>1 DEF SstPoints, EmptyBuffers, Buffered, PointsIn
    <2>3. CleanLogInv /\ CleanThreadInv /\ CleanHandlerInv
      BY <2>1 DEF CleanLogInv, CleanThreadInv, CleanHandlerInv
    <2>4. CleanFileInv /\ CleanBufferInv /\ CleanHistoryInv
      BY <2>1, <2>2 DEF CleanFileInv, CleanBufferInv, CleanHistoryInv
    <2> QED
      BY <2>3, <2>4 DEF CleanParts
  <1>2. CleanInv => CleanCloseDurable
    <2> SUFFICES ASSUME CleanInv, phase = "down", CleanEngine PROVE acked \subseteq SstPoints
      BY DEF CleanCloseDurable, CleanEngine
    <2>1. mem = EmptyBuffers
      BY DEF CleanInv, CleanThreadInv
    <2> QED
      BY <2>1, EmptyMem DEF CleanInv, CleanHistoryInv
  <1> QED
    BY <1>1, <1>2, StepClean, TypeCorrect, RequestsOnRecord, PTL DEF Spec

-----------------------------------------------------------------------------
(* The MemTable's mutex: who holds it, and that the holder gets on *)

\* Whoever opens a file leaves in the buffer it is for the points to put in it.
LockedFor(m) ==
    /\ mem' = m
    /\ \E n \in SstName : flushing' = {n} /\ mem'[n.tag] # <<>>

LEMMA FlushBufferLocks ==
    ASSUME TypeOK, flushing = {}, NEW m \in [Tag -> Seq(Point)], NEW t \in Tag, m[t] # <<>>,
           \A u \in Tag : \A p \in PointsIn(m[u]) : p.tag = u,
           FlushBuffer(m, t)
    PROVE  /\ LockedFor(m) \/ (flushing' = {} /\ mem' = [m EXCEPT ![t] = <<>>])
           /\ BufferTags'
  <1> DEFINE n == SstFile(m[t][1], day)
  <1>1. m[t][1] \in Point /\ m[t][1].tag = t
    BY DEF PointsIn
  <1>2. n \in SstName /\ n.tag = t
    BY <1>1, PointFields DEF TypeOK, MemTypeOK, SstFile
  <1>3. CASE Fault("sst") /\ mem' = [m EXCEPT ![t] = <<>>] /\ UNCHANGED flushing
    <2>1. \A u \in Tag : mem'[u] = m[u] \/ mem'[u] = <<>>
      BY <1>3
    <2>2. PointsIn(<<>>) = {}
      BY DEF PointsIn
    <2>3. BufferTags'
      BY <2>1, <2>2 DEF BufferTags
    <2> QED
      BY <1>3, <2>3
  <1>4. CASE mem' = m /\ flushing' = {n}
    <2>1. BufferTags'
      BY <1>4 DEF BufferTags
    <2>2. LockedFor(m)
      BY <1>2, <1>4 DEF LockedFor
    <2> QED
      BY <2>1, <2>2
  <1> QED
    BY <1>3, <1>4 DEF FlushBuffer

LEMMA AddLocks ==
    ASSUME TypeOK, BufferTags, flushing = {}, NEW p \in Point, Add(p)
    PROVE  /\ flushing' = {} \/ \E n \in SstName : flushing' = {n} /\ mem'[n.tag] # <<>>
           /\ BufferTags'
  <1> DEFINE m == [mem EXCEPT ![p.tag] = Append(@, p)]
  <1>1. /\ p.tag \in Tag /\ m \in [Tag -> Seq(Point)] /\ m[p.tag] # <<>>
        /\ \A u \in Tag : \A q \in PointsIn(m[u]) : q.tag = u
    BY AppendBuffer DEF BufferTags
  <1> HIDE DEF m
  <1>2. CASE Len(m[p.tag]) < FlushThreshold
    <2>1. mem' = m /\ flushing' = flushing
      BY <1>2 DEF Add, m
    <2> QED
      BY <1>1, <2>1 DEF BufferTags
  <1>3. CASE ~(Len(m[p.tag]) < FlushThreshold)
    <2>1. FlushBuffer(m, p.tag)
      BY <1>3 DEF Add, m
    <2> QED
      BY <1>1, <2>1, FlushBufferLocks DEF LockedFor
  <1> QED
    BY <1>2, <1>3

\* When the file is closed the lock is free and one buffer is empty.
LEMMA CloseUnlocks ==
    ASSUME TypeOK, MutexHasOwner, BufferTags, NEW n \in flushing, CloseSst(n)
    PROVE  /\ flushing' = {} /\ BufferTags'
           /\ Unflushed' \subseteq Unflushed /\ Unflushed' # Unflushed
  <1>1. n.tag \in Tag /\ mem[n.tag] # <<>> /\ mem \in [Tag -> Seq(Point)]
    BY PointFields DEF TypeOK, MemTypeOK, MutexHasOwner
  <1>2. flushing' = {} /\ mem' = [mem EXCEPT ![n.tag] = <<>>]
    BY DEF CloseSst
  <1>3. mem'[n.tag] = <<>> /\ \A u \in Tag : u # n.tag => mem'[u] = mem[u]
    BY <1>1, <1>2
  <1>4. PointsIn(<<>>) = {}
    BY DEF PointsIn
  <1>5. BufferTags'
    BY <1>3, <1>4 DEF BufferTags
  <1>6. Unflushed' \subseteq Unflushed
    BY <1>3 DEF Unflushed
  <1>7. n.tag \in Unflushed /\ n.tag \notin Unflushed'
    BY <1>1, <1>3 DEF Unflushed
  <1> QED
    BY <1>2, <1>5, <1>6, <1>7

LEMMA StepMutex == TypeOK /\ MutexInv /\ [Next]_vars => MutexInv'
  <1> SUFFICES ASSUME TypeOK, MutexInv, [Next]_vars PROVE MutexInv'
    OBVIOUS
  <1> USE DEF MutexInv
  <1>p. pc \in [Writer -> WriterPc]
    BY DEF TypeOK, EngineTypeOK
  <1>e. PointsIn(<<>>) = {}
    BY DEF PointsIn
  <1>0. UNCHANGED mem => BufferTags'
    BY DEF BufferTags
  <1>1. ASSUME UNCHANGED <<mem, flushing, phase, flusher>>, NEW w \in Writer,
               phase = "running", NEW a, pc' = [pc EXCEPT ![w] = a],
               pc[w] # "flushing", a # "flushing"
        PROVE  MutexInv'
    <2>1. \A v \in Writer : pc'[v] = "flushing" <=> pc[v] = "flushing"
      BY <1>1, <1>p
    <2> QED
      BY <1>0, <1>1, <2>1 DEF MutexHasOwner
  <1>2. ASSUME NEW w \in Writer, NEW p \in Point, AppendHeader(w, p) PROVE MutexInv'
    <2>1. UNCHANGED <<mem, flushing, phase, flusher>> /\ phase = "running" /\ pc[w] = "idle"
      BY <1>2 DEF AppendHeader, LogCallFails, memVars
    <2>2. CASE pc' = [pc EXCEPT ![w] = "header"]
      BY <1>1, <2>1, <2>2
    <2>3. CASE pc' = [pc EXCEPT ![w] = "data"]
      BY <1>1, <2>1, <2>3
    <2> QED
      BY <1>2, <2>2, <2>3 DEF AppendHeader
  <1>3. ASSUME NEW w \in Writer, AppendData(w) PROVE MutexInv'
    <2>1. UNCHANGED <<mem, flushing, phase, flusher>> /\ pc[w] = "header" /\ pc' = [pc EXCEPT ![w] = "data"]
      BY <1>3 DEF AppendData, LogCallFails, memVars
    <2> QED
      BY <1>1, <2>1
  <1>4. ASSUME NEW w \in Writer, SyncLog(w) \/ UpdateCache(w) \/ Acknowledge(w) PROVE MutexInv'
    <2>1. /\ UNCHANGED <<mem, flushing, phase, flusher>> /\ pc[w] \in {"data", "added", "cached"}
          /\ \E a \in {"synced", "cached", "idle"} : pc' = [pc EXCEPT ![w] = a]
      BY <1>4 DEF SyncLog, LogCallFails, UpdateCache, Acknowledge, memVars
    <2> QED
      BY <1>1, <2>1
  <1>5. ASSUME NEW w \in Writer, AddPoint(w) PROVE MutexInv'
    <2>1. /\ pc[w] = "synced" /\ phase = "running" /\ flushing = {} /\ flusher # "flushAll"
          /\ UNCHANGED <<phase, flusher>> /\ Add(cur[w]) /\ cur[w] \in Point
          /\ pc' = [pc EXCEPT ![w] = IF flushing' = {} THEN "added" ELSE "flushing"]
      BY <1>5 DEF AddPoint, MemUnlocked, TypeOK, EngineTypeOK
    <2>2. /\ flushing' = {} \/ \E n \in SstName : flushing' = {n} /\ mem'[n.tag] # <<>>
          /\ BufferTags'
      BY <2>1, AddLocks
    <2>3. \A v \in Writer : pc[v] # "flushing"
      BY <2>1 DEF MutexHasOwner
    <2>4. \A v \in Writer : pc'[v] = "flushing" <=> v = w /\ flushing' # {}
      BY <1>p, <2>1, <2>3
    <2>5. MutexHasOwner'
      BY <2>1, <2>2, <2>4 DEF MutexHasOwner
    <2> QED
      BY <2>1, <2>2, <2>5
  <1>6. ASSUME NEW w \in Writer, FinishFlush(w) PROVE MutexInv'
    <2>1. /\ pc[w] = "flushing" /\ phase = "running" /\ UNCHANGED <<phase, flusher>>
          /\ pc' = [pc EXCEPT ![w] = "added"]
      BY <1>6 DEF FinishFlush
    <2>2. flushing' = {} /\ BufferTags'
      BY <1>6, CloseUnlocks DEF FinishFlush
    <2>3. \A v \in Writer : pc'[v] # "flushing"
      BY <1>p, <2>1 DEF MutexHasOwner
    <2>4. MutexHasOwner'
      BY <2>2, <2>3 DEF MutexHasOwner
    <2> QED
      BY <2>1, <2>2, <2>4
  <1>7. CASE InitOpen
    <2>1. /\ phase = "down" /\ phase' = "recovering" /\ mem' = EmptyBuffers
          /\ UNCHANGED <<flushing, flusher, pc>>
      BY <1>7 DEF InitOpen
    <2>2. flushing = {} /\ flusher = "idle" /\ \A w \in Writer : pc[w] = "idle"
      BY <2>1 DEF MutexHasOwner
    <2>3. BufferTags'
      BY <1>e, <2>1 DEF BufferTags, EmptyBuffers
    <2>4. MutexHasOwner'
      BY <2>1, <2>2 DEF MutexHasOwner
    <2> QED
      BY <2>1, <2>2, <2>3, <2>4
  <1>8. CASE ReplayEntry
    <2>1. /\ phase = "recovering" /\ flushing = {} /\ UNCHANGED <<phase, flusher, pc>>
          /\ Add(walFile[2 * replayPos].point)
      BY <1>8 DEF ReplayEntry
    <2>2. walFile[2 * replayPos].point \in Point
      <3>1. 2 * replayPos \in 1 .. Len(walFile)
        BY <1>8 DEF ReplayEntry, MoreToReplay, ReadsEntry, TypeOK, EngineTypeOK, WalTypeOK
      <3>2. walFile[2 * replayPos] \in Piece
        BY <3>1 DEF TypeOK, WalTypeOK
      <3> QED
        BY <3>2 DEF Piece
    <2>3. /\ flushing' = {} \/ \E n \in SstName : flushing' = {n} /\ mem'[n.tag] # <<>>
          /\ BufferTags'
      BY <2>1, <2>2, AddLocks
    <2>4. MutexHasOwner'
      BY <2>1, <2>3 DEF MutexHasOwner
    <2> QED
      BY <2>1, <2>3, <2>4
  <1>9. ASSUME UNCHANGED engineVars, NEW n \in flushing, CloseSst(n),
               phase = "recovering" \/ flusher = "flushAll"
        PROVE  MutexInv'
    <2>1. UNCHANGED <<phase, flusher, pc>> /\ \A w \in Writer : pc[w] # "flushing"
      BY <1>9 DEF engineVars, MutexHasOwner
    <2>2. flushing' = {} /\ BufferTags'
      BY <1>9, CloseUnlocks
    <2>3. MutexHasOwner'
      BY <2>1, <2>2 DEF MutexHasOwner
    <2> QED
      BY <2>1, <2>2, <2>3
  <1>10. CASE InitDone \/ BeginFlush \/ FlushAllDone
    <2>1. /\ flushing = {} /\ UNCHANGED <<mem, flushing, pc>>
          /\ phase' = "running" \/ UNCHANGED phase
          /\ flusher' # "idle" => phase' \in {"running", "closing"}
      BY <1>10 DEF InitDone, BeginFlush, FlushAllDone, memVars
    <2>2. \A w \in Writer : pc[w] # "flushing"
      BY <2>1 DEF MutexHasOwner
    <2> QED
      BY <1>0, <2>1, <2>2 DEF MutexHasOwner
  <1>11. CASE BeginClose \/ CloseDone
    <2>1. /\ \A w \in Writer : pc[w] = "idle"
          /\ phase # "recovering" /\ flusher = "idle"
          /\ flusher' # "idle" => phase' \in {"running", "closing"}
          /\ UNCHANGED <<mem, flushing, pc>>
      BY <1>11 DEF BeginClose, CloseDone, memVars
    <2>2. flushing = {}
      BY <2>1 DEF MutexHasOwner
    <2> QED
      BY <1>0, <2>1, <2>2 DEF MutexHasOwner
  <1>12. ASSUME NEW t \in Tag, FlushTag(t) PROVE MutexInv'
    <2>1. /\ flusher = "flushAll" /\ flushing = {} /\ mem[t] # <<>> /\ FlushBuffer(mem, t)
          /\ UNCHANGED <<phase, flusher, pc>> /\ mem \in [Tag -> Seq(Point)]
      BY <1>12 DEF FlushTag, engineVars, TypeOK, MemTypeOK
    <2>2. /\ flushing' = {} \/ \E n \in SstName : flushing' = {n} /\ mem'[n.tag] # <<>>
          /\ BufferTags'
      BY <2>1, FlushBufferLocks DEF LockedFor, BufferTags
    <2>3. \A w \in Writer : pc[w] # "flushing"
      BY <2>1 DEF MutexHasOwner
    <2>4. MutexHasOwner'
      BY <2>1, <2>2, <2>3 DEF MutexHasOwner
    <2> QED
      BY <2>1, <2>2, <2>4
  <1>13. CASE TruncateLog
    <2>1. UNCHANGED <<mem, flushing, phase, pc>> /\ flusher = "truncate" /\ flusher' = "idle"
      BY <1>13 DEF TruncateLog, memVars
    <2> QED
      BY <1>0, <2>1 DEF MutexHasOwner
  <1>14. CASE Crash
    <2>1. /\ mem' = EmptyBuffers /\ flushing' = {} /\ flusher' = "idle"
          /\ \A w \in Writer : pc'[w] = "idle"
      BY <1>14 DEF Crash
    <2>2. BufferTags'
      BY <1>e, <2>1 DEF BufferTags, EmptyBuffers
    <2> QED
      BY <2>1, <2>2 DEF MutexHasOwner
  <1>15. CASE \/ Midnight \/ UNCHANGED vars
              \/ \E w \in Writer, p \in Point : WriteThrows(w, p)
    <2>1. UNCHANGED <<mem, flushing, phase, flusher, pc>>
      BY <1>15 DEF Midnight, NextDay, WriteThrows, engineVars, memVars, vars
    <2> QED
      BY <1>0, <2>1 DEF MutexHasOwner
  <1> QED
    BY <1>2, <1>3, <1>4, <1>5, <1>6, <1>7, <1>8, <1>9, <1>10, <1>11, <1>12, <1>13, <1>14, <1>15
    DEF Next, WriteStep, RecoveryStep, FlushStep, FinishReplayFlush, FinishFlushTag

THEOREM MutexInvariant == Spec => []MutexInv
  <1>1. Init => MutexInv
    <2> SUFFICES ASSUME Init PROVE MutexInv
      OBVIOUS
    <2>1. /\ mem = EmptyBuffers /\ flushing = {} /\ phase = "down" /\ flusher = "idle"
          /\ \A w \in Writer : pc[w] = "idle"
      BY DEF Init, MemInit
    <2>2. PointsIn(<<>>) = {}
      BY DEF PointsIn
    <2> QED
      BY <2>1, <2>2 DEF MutexInv, MutexHasOwner, BufferTags, EmptyBuffers
  <1> QED
    BY <1>1, StepMutex, TypeCorrect, PTL DEF Spec

\* The MemTable's mutex is never taken without a holder that can go on, and never
\* by two: a handler in the middle of a flush, FlushAll or the recovery, each
\* with the points for the file it has open still in the buffer.
THEOREM MutexIsHeld == Spec => []MutexHasOwner
  <1>1. MutexInv => MutexHasOwner
    BY DEF MutexInv
  <1> QED
    BY <1>1, MutexInvariant, PTL

LEMMA StepFlushAll ==
    ASSUME TypeOK, MutexInv, [Next]_vars, flusher = "flushAll"
    PROVE  FlushAllAdvances
  <1>0. phase \in {"running", "closing"}
    BY DEF MutexInv
  <1>1. ASSUME NEW t \in Tag, FlushTag(t)
        PROVE  \/ flushing' = {} /\ Unflushed' \subseteq Unflushed /\ Unflushed' # Unflushed
               \/ flushing = {} /\ flushing' # {} /\ UNCHANGED mem
    <2>1. /\ flushing = {} /\ mem[t] # <<>> /\ FlushBuffer(mem, t)
          /\ mem \in [Tag -> Seq(Point)] /\ BufferTags
      BY <1>1 DEF FlushTag, TypeOK, MemTypeOK, MutexInv
    <2>2. LockedFor(mem) \/ (flushing' = {} /\ mem' = [mem EXCEPT ![t] = <<>>])
      BY <2>1, FlushBufferLocks DEF BufferTags
    <2>3. CASE LockedFor(mem)
      BY <2>1, <2>3 DEF LockedFor
    <2>4. CASE flushing' = {} /\ mem' = [mem EXCEPT ![t] = <<>>]
      <3>1. mem'[t] = <<>> /\ \A u \in Tag : u # t => mem'[u] = mem[u]
        BY <2>1, <2>4
      <3>2. Unflushed' \subseteq Unflushed /\ t \in Unflushed /\ t \notin Unflushed'
        BY <2>1, <3>1 DEF Unflushed
      <3> QED
        BY <2>4, <3>2
    <2> QED
      BY <2>2, <2>3, <2>4
  <1>2. ASSUME FlushStep
        PROVE  \/ flusher' = "truncate"
               \/ flushing' = {} /\ Unflushed' \subseteq Unflushed /\ Unflushed' # Unflushed
               \/ flushing = {} /\ flushing' # {} /\ UNCHANGED mem
    <2>1. CASE FinishFlushTag
      BY <2>1, CloseUnlocks DEF FinishFlushTag, MutexInv
    <2>2. CASE FlushAllDone
      BY <2>2 DEF FlushAllDone
    <2>3. ~TruncateLog /\ ~CloseDone
      BY DEF TruncateLog, CloseDone
    <2> QED
      BY <1>1, <1>2, <2>1, <2>2, <2>3 DEF FlushStep
  <1>3. ASSUME ~FlushStep
        PROVE  phase' = "down" \/ UNCHANGED <<phase, flusher, mem, flushing>>
    <2>1. ASSUME NEW w \in Writer, NEW p \in Point, AppendHeader(w, p) \/ WriteThrows(w, p)
          PROVE  UNCHANGED <<phase, flusher, mem, flushing>>
      BY <2>1 DEF AppendHeader, WriteThrows, LogCallFails, memVars
    <2>2. ASSUME NEW w \in Writer, WriteStep(w)
          PROVE  UNCHANGED <<phase, flusher, mem, flushing>>
      <3>1. ~AddPoint(w)
        BY DEF AddPoint, MemUnlocked
      <3>2. ~FinishFlush(w)
        BY DEF FinishFlush, MutexInv, MutexHasOwner
      <3>3. CASE AppendData(w)
        BY <3>3 DEF AppendData, LogCallFails, memVars
      <3>4. CASE SyncLog(w) \/ UpdateCache(w) \/ Acknowledge(w)
        BY <3>4 DEF SyncLog, LogCallFails, UpdateCache, Acknowledge, memVars
      <3> QED
        BY <2>2, <3>1, <3>2, <3>3, <3>4 DEF WriteStep
    <2>3. ~InitOpen /\ ~RecoveryStep /\ ~BeginFlush /\ ~BeginClose
      BY <1>0 DEF InitOpen, RecoveryStep, ReplayEntry, FinishReplayFlush, InitDone,
                  BeginFlush, BeginClose
    <2>4. CASE Crash
      BY <2>4 DEF Crash
    <2>5. CASE Midnight \/ UNCHANGED vars
      BY <2>5 DEF Midnight, NextDay, engineVars, memVars, vars
    <2> QED
      BY <1>3, <2>1, <2>2, <2>3, <2>4, <2>5 DEF Next
  <1> QED
    BY <1>2, <1>3 DEF FlushAllAdvances

LEMMA StepReplay ==
    ASSUME TypeOK, MutexInv, [Next]_vars, phase = "recovering"
    PROVE  ReplayAdvances
  <1>0. flusher = "idle" /\ \A w \in Writer : pc[w] = "idle"
    BY DEF MutexInv
  <1>1. CASE ReplayEntry
    <2>1. UNCHANGED walFile /\ replayPos' = replayPos + 1 /\ 2 * replayPos <= Len(walFile)
      BY <1>1 DEF ReplayEntry, walVars, MoreToReplay, ReadsEntry
    <2>2. RecoveryStep
      BY <1>1 DEF RecoveryStep
    <2> QED
      BY <2>1, <2>2 DEF ReplayAdvances
  <1>2. CASE FinishReplayFlush
    <2>1. UNCHANGED <<walFile, replayPos>> /\ flushing # {} /\ flushing' = {}
      BY <1>2 DEF FinishReplayFlush, CloseSst, walVars, engineVars
    <2>2. RecoveryStep
      BY <1>2 DEF RecoveryStep
    <2> QED
      BY <2>1, <2>2 DEF ReplayAdvances
  <1>3. CASE InitDone
    <2>1. UNCHANGED walFile /\ phase' = "running"
      BY <1>3 DEF InitDone, walVars
    <2>2. RecoveryStep
      BY <1>3 DEF RecoveryStep
    <2> QED
      BY <2>1, <2>2 DEF ReplayAdvances
  <1>4. ASSUME ~RecoveryStep
        PROVE  phase' = "down" \/ UNCHANGED <<phase, replayPos, walFile, mem, flushing>>
    <2>1. ~(\E w \in Writer, p \in Point : AppendHeader(w, p) \/ WriteThrows(w, p))
      BY DEF AppendHeader, WriteThrows
    <2>2. ~(\E w \in Writer : WriteStep(w))
      BY <1>0 DEF WriteStep, AppendData, SyncLog, AddPoint, FinishFlush, UpdateCache, Acknowledge
    <2>3. ~InitOpen /\ ~BeginFlush /\ ~BeginClose
      BY DEF InitOpen, BeginFlush, BeginClose
    <2>4. ~FlushStep
      BY <1>0 DEF FlushStep, FlushTag, FinishFlushTag, FlushAllDone, TruncateLog, CloseDone
    <2>5. CASE Crash
      BY <2>5 DEF Crash
    <2>6. CASE Midnight \/ UNCHANGED vars
      BY <2>6 DEF Midnight, NextDay, engineVars, memVars, walVars, vars
    <2> QED
      BY <1>4, <2>1, <2>2, <2>3, <2>4, <2>5, <2>6 DEF Next
  <1> QED
    BY <1>1, <1>2, <1>3, <1>4 DEF RecoveryStep, ReplayAdvances

\* Init and FlushAll, which everybody else waits for, get nearer to their end
\* with each step of theirs, and nobody else's step takes them back: the buffers
\* that FlushAll has emptied stay empty, the log that is replayed does not grow.
THEOREM WaitsEnd == Spec => WaitsAreBounded
  <1>1. TypeOK /\ MutexInv /\ [Next]_vars
          => [/\ flusher = "flushAll" => FlushAllAdvances
              /\ phase = "recovering" => ReplayAdvances]_vars
    BY StepFlushAll, StepReplay
  <1> QED
    BY <1>1, MutexInvariant, TypeCorrect, PTL DEF Spec, WaitsAreBounded
=============================================================================
