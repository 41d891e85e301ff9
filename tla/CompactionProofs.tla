--------------------------- MODULE CompactionProofs ---------------------------
(***************************************************************************)
(* Compaction loses no timestamp unless its output takes the name of a     *)
(* readable file or is spoilt, and its worker stops when it is asked to,   *)
(* for any range of timestamps and any values of the bounds.               *)
(***************************************************************************)
EXTENDS Compaction, WellFoundedInduction, TLAPS

\* A set of timestamps has a first and a last one: timestamps are bounded.
LEMMA LeastNatural ==
    ASSUME NEW T, T \subseteq Nat, T # {}
    PROVE  \E x \in T : \A y \in T : x <= y
  <1>1. PICK x \in T : \A y \in T : ~(<<y, x>> \in OpToRel(<, Nat))
    BY NatLessThanWellFounded, WFMin
  <1>2. \A y \in T : ~(y < x)
    BY <1>1 DEF OpToRel
  <1> QED
    BY <1>2

LEMMA FrontAndBack ==
    ASSUME NEW S, S \subseteq Ts, S # {}
    PROVE  Least(S) \in S /\ Greatest(S) \in S /\ S \subseteq Inside(<<Least(S), Greatest(S)>>)
  <1> USE CompactionAssumption DEF Ts
  <1>1. \E t \in S : \A u \in S : t <= u
    <2> DEFINE T == {t - MinTs : t \in S}
    <2>0. T \subseteq Nat /\ T # {}
      <3>1. \A t \in S : t - MinTs \in Nat
        OBVIOUS
      <3> QED
        BY <3>1
    <2>1. PICK x \in T : \A y \in T : x <= y
      <3> HIDE DEF T
      <3> QED
        BY <2>0, LeastNatural
    <2>2. PICK t \in S : x = t - MinTs
      BY <2>1
    <2>3. \A u \in S : t - MinTs <= u - MinTs
      BY <2>1, <2>2
    <2> QED
      BY <2>2, <2>3
  <1>2. \E t \in S : \A u \in S : t >= u
    <2> DEFINE T == {MaxTs - t : t \in S}
    <2>0. T \subseteq Nat /\ T # {}
      <3>1. \A t \in S : MaxTs - t \in Nat
        OBVIOUS
      <3> QED
        BY <3>1
    <2>1. PICK x \in T : \A y \in T : x <= y
      <3> HIDE DEF T
      <3> QED
        BY <2>0, LeastNatural
    <2>2. PICK t \in S : x = MaxTs - t
      BY <2>1
    <2>3. \A u \in S : MaxTs - t <= MaxTs - u
      BY <2>1, <2>2
    <2> QED
      BY <2>2, <2>3
  <1>3. Least(S) \in S /\ \A u \in S : Least(S) <= u
    BY <1>1 DEF Least
  <1>4. Greatest(S) \in S /\ \A u \in S : Greatest(S) >= u
    BY <1>2 DEF Greatest
  <1> QED
    BY <1>3, <1>4 DEF Inside

\* The names the worker and the flush callback make up are names.
LEMMA NamesAreNames ==
    /\ AnyName \in Name
    /\ \A t \in Ts : FlushFile(t) \in Name /\ FlushFile(t).kind = "flush"
    /\ \A S \in SUBSET Ts : S # {} =>
           /\ TmpFile(S) \in Name /\ TmpFile(S).kind = "tmp"
           /\ MergedFile(S) \in Name /\ MergedFile(S).kind = "merged"
  <1>1. MinTs \in Ts
    BY CompactionAssumption DEF Ts
  <1>2. \A t \in Ts : FlushFile(t) \in Name /\ FlushFile(t).kind = "flush"
    BY DEF FlushFile, Name
  <1>3. ASSUME NEW S \in SUBSET Ts, S # {}
        PROVE  /\ TmpFile(S) \in Name /\ TmpFile(S).kind = "tmp"
               /\ MergedFile(S) \in Name /\ MergedFile(S).kind = "merged"
    <2>1. Least(S) \in Ts /\ Greatest(S) \in Ts
      BY <1>3, FrontAndBack
    <2> QED
      BY <2>1 DEF TmpFile, MergedFile, Name
  <1> QED
    BY <1>1, <1>2, <1>3 DEF AnyName

-----------------------------------------------------------------------------
(* Types *)

LEMMA BlankSpan == NoSpan \in Ts \X Ts
  BY CompactionAssumption DEF NoSpan, Ts

\* What a block decodes to, cut short or garbled, are timestamps.
LEMMA BlocksHaveTimestamps ==
    /\ \A S \in SUBSET Ts : \A q : \A D \in Decoded(S, q) : D \in SUBSET Ts
    /\ \A g \in Garbled : g[1] \in SUBSET Ts /\ g[2] \in Ts \X Ts
  BY CompactionAssumption DEF Decoded, Ts

DirTypeOK ==
    /\ present \in SUBSET Name /\ readable \in SUBSET Name
    /\ content \in [Name -> SUBSET Ts] /\ span \in [Name -> Ts \X Ts]

LEMMA DirType ==
    ASSUME TypeOK, NEW n \in Name,
           \/ OpenSst(n) \/ RemoveSst(n)
           \/ \E S \in SUBSET Ts, s \in Ts \X Ts : CloseSst(n, S, s)
           \/ \E m \in Name : RenameSst(n, m)
           \/ UNCHANGED dirVars
    PROVE  DirTypeOK'
  <1>1. CASE OpenSst(n) \/ RemoveSst(n)
    BY <1>1, BlankSpan DEF TypeOK, DirTypeOK, OpenSst, RemoveSst
  <1>2. ASSUME NEW S \in SUBSET Ts, NEW s \in Ts \X Ts, CloseSst(n, S, s) PROVE DirTypeOK'
    BY <1>2 DEF TypeOK, DirTypeOK, CloseSst
  <1>3. ASSUME NEW m \in Name, RenameSst(n, m) PROVE DirTypeOK'
    BY <1>3, BlankSpan DEF TypeOK, DirTypeOK, RenameSst
  <1>4. CASE UNCHANGED dirVars
    BY <1>4 DEF TypeOK, DirTypeOK, dirVars
  <1> QED
    BY <1>1, <1>2, <1>3, <1>4

LEMMA InitType == Init => TypeOK
  <1>1. 0 \in 0 .. MaxFlushes /\ 0 \in 0 .. MaxFaults
    BY CompactionAssumption
  <1>2. Init => /\ running \in BOOLEAN /\ reused \in BOOLEAN
                /\ outputTaken \in BOOLEAN /\ outputSpoilt \in BOOLEAN
    BY DEF Init
  <1>3. Init => content \in [Name -> SUBSET Ts] /\ span \in [Name -> Ts \X Ts]
    BY BlankSpan DEF Init
  <1> QED
    BY <1>1, <1>2, <1>3, NamesAreNames DEF Init, TypeOK, WorkerPc

\* What ReadRange adds to the points, phantoms included, are timestamps, and the
\* ones of the file are among them unless they are negative.
LEMMA Collected ==
    ASSUME TypeOK, NEW f \in Name, Collect(f)
    PROVE  /\ points' \in SUBSET Ts /\ points \subseteq points'
           /\ MinTs >= 0 => content[f] \subseteq points'
  <1>1. PICK X \in Phantoms(content[f]) :
            points' = points \union FullRange(content[f] \union X, span[f])
    BY DEF Collect
  <1>2. X \subseteq Ts /\ content[f] \subseteq Ts /\ points \subseteq Ts /\ span[f] \in Ts \X Ts
    BY <1>1 DEF Phantoms, TypeOK
  <1>3. ASSUME MinTs >= 0 PROVE content[f] \subseteq FullRange(content[f] \union X, span[f])
    <2>1. \A t \in Ts : t \in Int /\ t >= 0 /\ t <= MaxTs
      BY <1>3, CompactionAssumption DEF Ts
    <2>2. Overlaps(span[f], 0, MaxTs)
      BY <1>2, <2>1 DEF Overlaps
    <2> QED
      BY <1>2, <2>1, <2>2 DEF FullRange
  <1>4. FullRange(content[f] \union X, span[f]) \subseteq Ts
    BY <1>2 DEF FullRange
  <1> QED
    BY <1>1, <1>2, <1>3, <1>4

\* What closing a flush's file amounts to.
LEMMA FlushWrites ==
    ASSUME TypeOK, FlushClose
    PROVE  /\ UNCHANGED <<dirVars, history>>
              \/ \E D \in SUBSET Ts, s \in Ts \X Ts : FlushTo(D, s)
           /\ UNCHANGED faults \/ Fault
  <1>1. ASSUME NEW q \in Orders(flushPts), NEW last \in flushPts, NEW D \in Decoded(flushPts, q),
               q[1] = flushName.lo, FlushTo(D, <<q[1], last>>)
        PROVE  \E E \in SUBSET Ts, s \in Ts \X Ts : FlushTo(E, s)
    <2>1. D \in SUBSET Ts
      BY BlocksHaveTimestamps DEF TypeOK
    <2>2. <<q[1], last>> \in Ts \X Ts
      BY <1>1 DEF TypeOK, Name
    <2> QED
      BY <1>1, <2>1, <2>2
  <1>2. ASSUME NEW g \in Garbled, FlushTo(g[1], g[2])
        PROVE  \E E \in SUBSET Ts, s \in Ts \X Ts : FlushTo(E, s)
    BY <1>2, BlocksHaveTimestamps
  <1> QED
    BY <1>1, <1>2 DEF FlushClose

\* What closing a merge's output amounts to. If it is not spoilt, it holds what was
\* read and says so.
LEMMA OutputWrites ==
    ASSUME TypeOK, CloseOutput, points # {}
    PROVE  /\ \/ UNCHANGED dirVars /\ outputSpoilt'
              \/ \E D \in SUBSET Ts, s \in Ts \X Ts :
                     /\ CloseSst(Output(points), D, s)
                     /\ ~outputSpoilt' =>
                            D = points /\ s = <<Least(points), Greatest(points)>>
           /\ outputSpoilt' \in BOOLEAN /\ (outputSpoilt => outputSpoilt')
           /\ UNCHANGED faults \/ Fault
  <1>1. ASSUME NEW q \in Orders(points), NEW D \in Decoded(points, q),
               CloseSst(Output(points), D, <<Least(points), Greatest(points)>>),
               outputSpoilt' = (outputSpoilt \/ D # points), UNCHANGED faults
        PROVE  /\ \E E \in SUBSET Ts, s \in Ts \X Ts :
                      /\ CloseSst(Output(points), E, s)
                      /\ ~outputSpoilt' =>
                             E = points /\ s = <<Least(points), Greatest(points)>>
               /\ outputSpoilt' \in BOOLEAN /\ (outputSpoilt => outputSpoilt')
    <2>1. D \in SUBSET Ts
      BY BlocksHaveTimestamps DEF TypeOK
    <2>2. <<Least(points), Greatest(points)>> \in Ts \X Ts
      BY FrontAndBack DEF TypeOK
    <2>3. ~outputSpoilt' => D = points
      BY <1>1
    <2>4. outputSpoilt' \in BOOLEAN /\ (outputSpoilt => outputSpoilt')
      BY <1>1
    <2> QED
      BY <1>1, <2>1, <2>2, <2>3, <2>4
  <1>2. ASSUME NEW g \in Garbled, CloseSst(Output(points), g[1], g[2]), outputSpoilt' = TRUE
        PROVE  \E E \in SUBSET Ts, s \in Ts \X Ts :
                   /\ CloseSst(Output(points), E, s)
                   /\ ~outputSpoilt' => E = points /\ s = <<Least(points), Greatest(points)>>
    BY <1>2, BlocksHaveTimestamps
  <1> QED
    BY <1>1, <1>2 DEF CloseOutput

\* The merging worker has points to merge; needed for the name of its output.
LEMMA StepType == TypeOK /\ OutputInv /\ [Next]_vars => TypeOK'
  <1> SUFFICES ASSUME TypeOK, OutputInv, [Next]_vars PROVE TypeOK'
    OBVIOUS
  <1> USE DEF WorkerPc
  <1>f. Fault => faults' \in 0 .. MaxFaults
    BY CompactionAssumption DEF Fault, TypeOK
  <1>n. points # {} => Output(points) \in Name /\ MergedFile(points) \in Name
    BY NamesAreNames DEF TypeOK, Output
  <1>1. ASSUME NEW S \in SUBSET Ts, NEW t \in S, FlushOpen(S, t) PROVE TypeOK'
    <2>1. FlushFile(t) \in Name
      BY NamesAreNames
    <2>2. DirTypeOK'
      BY <1>1, <2>1, DirType DEF FlushOpen
    <2>3. flushes' \in 0 .. MaxFlushes
      BY <1>1, CompactionAssumption DEF FlushOpen, TypeOK
    <2>4. reused' \in BOOLEAN
      BY <1>1 DEF FlushOpen
    <2> QED
      BY <1>1, <2>1, <2>2, <2>3, <2>4 DEF FlushOpen, TypeOK, DirTypeOK, workVars, history
  <1>2. CASE FlushClose
    <2>1. /\ UNCHANGED <<dirVars, history>>
             \/ \E D \in SUBSET Ts, s \in Ts \X Ts : FlushTo(D, s)
          /\ faults' \in 0 .. MaxFaults
      BY <1>2, <1>f, FlushWrites DEF TypeOK
    <2>2. DirTypeOK'
      BY <2>1, DirType DEF FlushTo, TypeOK
    <2>3. stored' \in SUBSET Ts /\ hidden' \in SUBSET Ts
      BY <2>1 DEF FlushTo, history, TypeOK
    <2> QED
      BY <1>2, <2>1, <2>2, <2>3 DEF FlushClose, TypeOK, DirTypeOK, workVars, past
  <1>3. CASE Start \/ Stop \/ WorkerExit
    BY <1>3 DEF Start, Stop, WorkerExit, TypeOK, dirVars, flushVars, workVars, history, past
  <1>4. CASE ListFiles \/ ReadDone \/ RemoveDone
    BY <1>4 DEF ListFiles, Small, ReadDone, RemoveDone, Return, TypeOK, dirVars, flushVars,
                history, past
  <1>5. ASSUME NEW f \in toRead, ReadFile(f) PROVE TypeOK'
    <2>1. f \in Name
      BY DEF TypeOK
    <2>2. points' \in SUBSET Ts
      BY <1>5, <2>1, Collected DEF ReadFile, ReadOrSkip, TypeOK
    <2> QED
      BY <1>5, <2>1, <2>2 DEF ReadFile, ReadOrSkip, TypeOK, dirVars, flushVars, history, past
  <1>6. CASE OpenOutput
    <2>1. points # {}
      BY <1>6 DEF OpenOutput, OutputInv
    <2>2. DirTypeOK'
      BY <1>6, <1>n, <2>1, DirType DEF OpenOutput
    <2> QED
      BY <1>6, <1>f, <2>2 DEF OpenOutput, Return, TypeOK, DirTypeOK, flushVars, history, past
  <1>7. CASE CloseOutput
    <2>1. points # {}
      BY <1>7 DEF CloseOutput, OutputInv
    <2>2. /\ UNCHANGED dirVars
             \/ \E D \in SUBSET Ts, s \in Ts \X Ts : CloseSst(Output(points), D, s)
          /\ outputSpoilt' \in BOOLEAN /\ faults' \in 0 .. MaxFaults
      BY <1>7, <1>f, <2>1, OutputWrites DEF TypeOK
    <2>3. DirTypeOK'
      BY <1>n, <2>1, <2>2, DirType
    <2> QED
      BY <1>7, <2>2, <2>3 DEF CloseOutput, TypeOK, DirTypeOK, flushVars, history
  <1>8. CASE RenameOutput
    <2>1. points # {}
      BY <1>8 DEF RenameOutput, OutputInv
    <2>2. DirTypeOK'
      BY <1>8, <1>n, <2>1, DirType DEF RenameOutput
    <2>3. outputTaken' \in BOOLEAN
      BY <1>8 DEF RenameOutput, TypeOK
    <2>4. faults' \in 0 .. MaxFaults
      BY <1>8, <1>f DEF RenameOutput, TypeOK
    <2> QED
      BY <1>8, <2>2, <2>3, <2>4 DEF RenameOutput, Return, TypeOK, DirTypeOK, flushVars, history
  <1>9. ASSUME NEW f \in readFiles, RemoveOld(f) PROVE TypeOK'
    <2>1. DirTypeOK'
      BY <1>9, DirType DEF RemoveOld, TypeOK
    <2>2. faults' \in 0 .. MaxFaults
      BY <1>9, <1>f DEF RemoveOld, TypeOK
    <2> QED
      BY <1>9, <2>1, <2>2 DEF RemoveOld, TypeOK, DirTypeOK, flushVars, history, past
  <1>10. CASE Crash
    <2>1. crashes' \in 0 .. MaxFaults
      BY <1>10, CompactionAssumption DEF Crash, TypeOK
    <2>2. running' \in BOOLEAN
      BY <1>10 DEF Crash
    <2> QED
      BY <1>10, <2>1, <2>2 DEF Crash, TypeOK, dirVars, history, past
  <1>11. CASE UNCHANGED vars
    BY <1>11 DEF vars, dirVars, flushVars, workVars, history, past, TypeOK
  <1> QED
    BY <1>1, <1>2, <1>3, <1>4, <1>5, <1>6, <1>7, <1>8, <1>9, <1>10, <1>11 DEF Next, WorkerStep

-----------------------------------------------------------------------------
(* The temporary file, and merged files *)

Whole == OutputInv /\ MergedWhole /\ PresentInv

LEMMA InitOutput == Init => Whole
  BY NamesAreNames DEF Init, Whole, OutputInv, MergedWhole, PresentInv, AnyName, FlushFile

\* What the file primitives keep of PresentInv, and which files they touch.
LEMMA Untouched ==
    ASSUME TypeOK, PresentInv, NEW n \in Name
    PROVE  /\ OpenSst(n) \/ RemoveSst(n) =>
                  PresentInv' /\ n \notin readable' /\ content'[n] = {}
           /\ \A S, s : CloseSst(n, S, s) => PresentInv'
           /\ \A m \in Name : RenameSst(n, m) /\ n # m => PresentInv'
           /\ \/ OpenSst(n) \/ RemoveSst(n) \/ \E S, s : CloseSst(n, S, s)
              => \A m \in Name : m # n => /\ content'[m] = content[m] /\ span'[m] = span[m]
                                          /\ m \in readable' <=> m \in readable
                                          /\ m \in present' <=> m \in present
  <1>1. OpenSst(n) \/ RemoveSst(n) => PresentInv' /\ n \notin readable' /\ content'[n] = {}
    BY DEF TypeOK, PresentInv, OpenSst, RemoveSst
  <1>2. ASSUME NEW S, NEW s, CloseSst(n, S, s)
        PROVE  /\ PresentInv'
               /\ \A m \in Name : m # n => /\ content'[m] = content[m] /\ span'[m] = span[m]
                                           /\ m \in readable' <=> m \in readable
                                           /\ m \in present' <=> m \in present
    BY <1>2 DEF TypeOK, PresentInv, CloseSst
  <1>3. ASSUME NEW m \in Name, RenameSst(n, m), n # m PROVE PresentInv'
    <2>1. \A k \in Name : k # n /\ k # m => content'[k] = content[k]
      BY <1>3 DEF TypeOK, RenameSst
    <2>2. content'[n] = {} /\ content'[m] = content[n]
      BY <1>3 DEF TypeOK, RenameSst
    <2> QED
      BY <1>3, <2>1, <2>2 DEF TypeOK, PresentInv, RenameSst
  <1>4. OpenSst(n) \/ RemoveSst(n) =>
            \A m \in Name : m # n => /\ content'[m] = content[m] /\ span'[m] = span[m]
                                     /\ m \in readable' <=> m \in readable
                                     /\ m \in present' <=> m \in present
    BY DEF TypeOK, OpenSst, RemoveSst
  <1> QED
    BY <1>1, <1>2, <1>3, <1>4

LEMMA FlushKeepsWhole ==
    ASSUME TypeOK, TypeOK', Whole, UNCHANGED <<cpc, points, outputSpoilt>>, PresentInv',
           flushName'.kind = "flush",
           NEW n \in Name, n.kind = "flush", present \subseteq present' \union {n},
           \A m \in Name : m # n => /\ content'[m] = content[m]
                                    /\ m \in readable' <=> m \in readable
                                    /\ m \in present' <=> m \in present
    PROVE  Whole'
  <1>1. points # {} => TmpFile(points) \in Name /\ TmpFile(points).kind = "tmp"
    BY NamesAreNames DEF TypeOK
  <1>2. OutputInv'
    BY <1>1 DEF Whole, OutputInv
  <1>3. MergedWhole'
    BY DEF Whole, MergedWhole, TypeOK
  <1> QED
    BY <1>2, <1>3 DEF Whole

LEMMA StepOutput == TypeOK /\ TypeOK' /\ Whole /\ [Next]_vars => Whole'
  <1> SUFFICES ASSUME TypeOK, TypeOK', Whole, [Next]_vars PROVE Whole'
    OBVIOUS
  <1> DEFINE tmp == TmpFile(points)
             out == MergedFile(points)
  <1>d. flushName \in Name /\ PresentInv /\ flushName.kind = "flush"
    BY DEF TypeOK, Whole, OutputInv
  <1>n. points # {} => /\ tmp \in Name /\ tmp.kind = "tmp" /\ Output(points) = tmp
                      /\ out \in Name /\ out.kind = "merged"
    BY NamesAreNames DEF TypeOK, Output
  <1>1. ASSUME NEW S \in SUBSET Ts, NEW t \in S, FlushOpen(S, t) PROVE Whole'
    <2>1. FlushFile(t) \in Name /\ FlushFile(t).kind = "flush"
      BY NamesAreNames
    <2>2. OpenSst(FlushFile(t)) /\ flushName' = FlushFile(t)
          /\ UNCHANGED <<cpc, points, outputSpoilt>>
      BY <1>1 DEF FlushOpen, workVars
    <2> QED
      BY <1>d, <2>1, <2>2, Untouched, FlushKeepsWhole DEF TypeOK
  <1>2. CASE FlushClose
    <2>1. UNCHANGED <<flushName, cpc, points, outputSpoilt>>
      BY <1>2 DEF FlushClose, workVars, past
    <2>2. CASE UNCHANGED dirVars
      BY <1>d, <2>1, <2>2 DEF Whole, OutputInv, MergedWhole, PresentInv, dirVars
    <2>3. ASSUME NEW D \in SUBSET Ts, NEW s \in Ts \X Ts, FlushTo(D, s) PROVE Whole'
      <3>1. CloseSst(flushName, D, s)
        BY <2>3 DEF FlushTo
      <3> QED
        BY <1>d, <2>1, <3>1, Untouched, FlushKeepsWhole DEF TypeOK
    <2> QED
      BY <1>2, <2>2, <2>3, FlushWrites
  <1>3. CASE /\ UNCHANGED <<dirVars, flushName, outputSpoilt>>
             /\ (cpc' \in {"stopped", "waiting", "reading"} \/ UNCHANGED <<cpc, points>>)
    BY <1>3 DEF Whole, OutputInv, MergedWhole, PresentInv, dirVars
  <1>4. CASE ReadDone
    BY <1>4 DEF ReadDone, Return, Whole, OutputInv, MergedWhole, PresentInv, dirVars, flushVars,
                past
  <1>5. CASE OpenOutput
    <2>1. points # {} /\ UNCHANGED <<flushName, outputSpoilt>>
      BY <1>5 DEF OpenOutput, Whole, OutputInv, flushVars, past
    <2>2. CASE OpenSst(tmp) /\ cpc' = "writing" /\ UNCHANGED points
      <3>1. PresentInv' /\ tmp \in present'
        BY <1>d, <1>n, <2>1, <2>2, Untouched DEF OpenSst
      <3>2. OutputInv'
        BY <1>d, <2>1, <2>2, <3>1 DEF OutputInv
      <3>3. MergedWhole'
        BY <1>d, <1>n, <2>1, <2>2, Untouched DEF Whole, MergedWhole, TypeOK
      <3> QED
        BY <3>1, <3>2, <3>3 DEF Whole
    <2>3. CASE Return /\ UNCHANGED dirVars
      BY <1>3, <2>1, <2>3 DEF Return
    <2> QED
      BY <1>5, <1>n, <2>1, <2>2, <2>3 DEF OpenOutput
  <1>6. CASE CloseOutput
    <2>1. points # {} /\ tmp \in present /\ tmp \in Name /\ tmp.kind = "tmp"
      BY <1>6, <1>n DEF CloseOutput, Whole, OutputInv
    <2>2. /\ UNCHANGED <<flushName, points>> /\ cpc' = "renaming"
          /\ outputSpoilt => outputSpoilt'
      BY <1>6, <2>1, OutputWrites DEF CloseOutput, flushVars
    <2>3. CASE UNCHANGED dirVars /\ outputSpoilt'
      BY <1>d, <2>1, <2>2, <2>3 DEF Whole, OutputInv, MergedWhole, PresentInv, dirVars
    <2>4. ASSUME NEW D \in SUBSET Ts, NEW s \in Ts \X Ts, CloseSst(tmp, D, s),
                 ~outputSpoilt' => D = points
          PROVE  Whole'
      <3>1. PresentInv'
        BY <1>d, <2>1, <2>4, Untouched
      <3>2. content'[tmp] = D /\ tmp \in readable'
        BY <2>1, <2>4 DEF CloseSst, TypeOK
      <3>3. OutputInv'
        BY <1>d, <2>1, <2>2, <2>4, <3>2 DEF OutputInv
      <3>4. MergedWhole'
        BY <1>d, <2>1, <2>2, <2>4, Untouched DEF Whole, MergedWhole, TypeOK
      <3> QED
        BY <3>1, <3>3, <3>4 DEF Whole
    <2> QED
      BY <1>6, <1>n, <2>1, <2>3, <2>4, OutputWrites
  <1>7. CASE RenameOutput
    <2>1. /\ points # {} /\ tmp # out /\ tmp \in Name /\ tmp.kind = "tmp" /\ out \in Name
          /\ ~outputSpoilt => content[tmp] = points /\ tmp \in readable
          /\ UNCHANGED <<flushName, outputSpoilt>>
      BY <1>7, <1>n DEF RenameOutput, Whole, OutputInv, flushVars
    <2>2. CASE RenameSst(tmp, out) /\ cpc' = "removing" /\ UNCHANGED points
      <3>1. /\ present' = (present \ {tmp}) \union {out}
            /\ content'[out] = content[tmp] /\ (tmp \in readable => out \in readable')
            /\ \A n \in Name : n # tmp /\ n # out =>
                   content'[n] = content[n] /\ (n \in readable' <=> n \in readable)
        BY <2>1, <2>2 DEF RenameSst, TypeOK
      <3>2. OutputInv'
        BY <1>d, <2>1, <2>2 DEF OutputInv
      <3>3. MergedWhole'
        BY <2>1, <3>1 DEF Whole, MergedWhole, TypeOK
      <3>4. PresentInv'
        BY <1>d, <2>1, <2>2, Untouched
      <3> QED
        BY <3>2, <3>3, <3>4 DEF Whole
    <2>3. CASE RemoveSst(tmp) /\ Return
      <3>1. PresentInv'
        BY <1>d, <2>1, <2>3, Untouched
      <3>2. MergedWhole'
        BY <1>d, <2>1, <2>3, Untouched DEF Whole, MergedWhole, TypeOK
      <3> QED
        BY <1>d, <2>1, <2>3, <3>1, <3>2 DEF Return, Whole, OutputInv
    <2> QED
      BY <1>n, <1>7, <2>1, <2>2, <2>3 DEF RenameOutput
  <1>8. ASSUME NEW f \in readFiles, RemoveOld(f) PROVE Whole'
    <2>1. f \in Name /\ cpc = "removing" /\ UNCHANGED <<cpc, points, flushName, outputSpoilt>>
      BY <1>8 DEF RemoveOld, TypeOK, flushVars, past
    <2>2. CASE RemoveSst(f)
      <3>1. PresentInv'
        BY <1>d, <2>1, <2>2, Untouched
      <3>2. present' = present \ {f}
        BY <2>2 DEF RemoveSst
      <3>3. MergedWhole'
        BY <1>d, <2>1, <2>2, <3>2, Untouched DEF Whole, MergedWhole, TypeOK
      <3> QED
        BY <2>1, <3>1, <3>3 DEF Whole, OutputInv
    <2>3. CASE UNCHANGED dirVars
      BY <1>3, <2>1, <2>3
    <2> QED
      BY <1>8, <2>2, <2>3 DEF RemoveOld
  <1>9. CASE \/ Start \/ Stop \/ WorkerExit \/ ListFiles \/ RemoveDone \/ Crash
             \/ (\E f \in toRead : ReadFile(f)) \/ UNCHANGED vars
    BY <1>3, <1>9 DEF Start, Stop, WorkerExit, ListFiles, RemoveDone, Return, Crash, ReadFile,
                      vars, flushVars, workVars, dirVars, past
  <1> QED
    BY <1>1, <1>2, <1>4, <1>5, <1>6, <1>7, <1>8, <1>9 DEF Next, WorkerStep

-----------------------------------------------------------------------------
(* Nothing is lost *)

Keeps == InputInv /\ FlushInv /\ StoredInv

\* Steps that leave the directory and the flush alone.
LEMMA SameDirKeeps ==
    ASSUME Keeps, UNCHANGED <<dirVars, flushPts, flushName, history>>, InputInv',
           readFiles' \subseteq readFiles
    PROVE  Keeps'
  BY DEF Keeps, FlushInv, StoredInv, dirVars, history

LEMMA StepKeeps ==
    ASSUME TypeOK, TypeOK', Whole, MinTs >= 0, ~reused', ~outputTaken', ~outputSpoilt', Keeps,
           [Next]_vars
    PROVE  Keeps'
  <1> DEFINE tmp == TmpFile(points)
             out == MergedFile(points)
  <1>d. /\ present \subseteq Name /\ content \in [Name -> SUBSET Ts] /\ flushName \in Name
        /\ readable \subseteq Name /\ readFiles \subseteq Name /\ toRead \subseteq Name
        /\ PresentInv /\ flushName.kind = "flush"
    BY DEF TypeOK, Whole, OutputInv
  <1>n. points # {} => /\ tmp \in Name /\ tmp.kind = "tmp" /\ Output(points) = tmp
                      /\ out \in Name /\ out.kind = "merged"
    BY NamesAreNames DEF TypeOK, Output
  <1> HIDE DEF tmp, out
  <1>1. ASSUME NEW S \in SUBSET Ts, NEW t \in S, FlushOpen(S, t) PROVE Keeps'
    <2> DEFINE n == FlushFile(t)
    <2>1. n \in Name /\ n.kind = "flush" /\ n \notin readable /\ content[n] = {}
      BY <1>1, <1>d, NamesAreNames DEF FlushOpen, PresentInv
    <2> HIDE DEF n
    <2>2. /\ content' = content /\ present' = present \union {n} /\ readable' = readable
          /\ flushName' = n /\ UNCHANGED <<cpc, readFiles, points, stored>>
      <3>1. OpenSst(n)
        BY <1>1 DEF FlushOpen, n
      <3>2. content' = content /\ present' = present \union {n} /\ readable' = readable
        BY <1>d, <2>1, <3>1 DEF OpenSst
      <3> QED
        BY <1>1, <3>2 DEF FlushOpen, workVars, history, n
    <2>3. n \notin readFiles
      BY <2>1 DEF Keeps, InputInv
    <2> QED
      BY <2>1, <2>2, <2>3 DEF Keeps, InputInv, FlushInv, StoredInv
  <1>2. CASE FlushClose
    <2>1. /\ flushName \in present /\ flushName \notin readFiles /\ content[flushName] = {}
          /\ flushPts' = {} /\ UNCHANGED <<cpc, readFiles, points>>
      BY <1>2, <1>d DEF FlushClose, Keeps, FlushInv, PresentInv, workVars
    <2>2. CASE UNCHANGED <<dirVars, history>>
      BY <2>1, <2>2 DEF Keeps, InputInv, FlushInv, StoredInv, dirVars, history
    <2>3. ASSUME NEW D \in SUBSET Ts, NEW s \in Ts \X Ts, FlushTo(D, s) PROVE Keeps'
      <3>1. /\ content'[flushName] = D /\ readable \subseteq readable'
            /\ \A n \in Name : n # flushName => content'[n] = content[n]
            /\ stored' \subseteq stored \union D
        BY <1>d, <2>1, <2>3 DEF FlushTo, CloseSst
      <3>2. InputInv'
        <4>1. cpc = "removing" => out # flushName /\ out \in Name
          BY <1>d, <1>n DEF Whole, OutputInv
        <4>2. \A f \in readFiles : content'[f] = content[f] /\ f \in Name
          BY <1>d, <2>1, <3>1
        <4> QED
          BY <2>1, <3>1, <4>1, <4>2 DEF Keeps, InputInv, out
      <3>3. StoredInv'
        BY <1>d, <2>1, <3>1 DEF Keeps, StoredInv
      <3> QED
        BY <2>1, <3>2, <3>3 DEF Keeps, FlushInv
    <2> QED
      BY <1>2, <2>2, <2>3, FlushWrites
  <1>3. CASE Start \/ Stop \/ WorkerExit \/ RemoveDone \/ ListFiles \/ ReadDone \/ UNCHANGED vars
    <2>1. UNCHANGED <<dirVars, flushPts, flushName, history>> /\ readFiles' \subseteq readFiles
      BY <1>3 DEF Start, Stop, WorkerExit, RemoveDone, ListFiles, ReadDone, Return, vars,
                  flushVars, workVars
    <2>2. InputInv'
      BY <1>3 DEF Start, Stop, WorkerExit, RemoveDone, ListFiles, ReadDone, Return, vars,
                  workVars, dirVars, Keeps, InputInv
    <2> QED
      BY <2>1, <2>2, SameDirKeeps
  <1>4. ASSUME NEW f \in toRead, ReadFile(f) PROVE Keeps'
    <2>1. /\ UNCHANGED <<present, readable, content, flushPts, flushName, cpc, stored>>
          /\ cpc = "reading"
          /\ readFiles' \subseteq readFiles \union {f}
          /\ f \in readFiles' => f \in readFiles \/ f \in readable
          /\ f \notin readFiles' \/ f \in readFiles \/ Collect(f)
          /\ points' = points \/ Collect(f)
      BY <1>4 DEF ReadFile, ReadOrSkip, dirVars, flushVars, history
    <2>2. /\ points \subseteq points'
          /\ f \in readFiles' => f \in readFiles \/ content[f] \subseteq points'
      BY <1>d, <2>1, Collected
    <2>3. InputInv'
      BY <2>1, <2>2 DEF Keeps, InputInv
    <2>4. FlushInv' /\ StoredInv'
      BY <2>1 DEF Keeps, FlushInv, StoredInv
    <2> QED
      BY <2>3, <2>4 DEF Keeps
  <1>5. CASE OpenOutput \/ CloseOutput
    <2>1. /\ points # {} /\ cpc \in {"merging", "writing"}
          /\ tmp \in Name /\ tmp.kind = "tmp" /\ Output(points) = tmp
          /\ UNCHANGED <<flushPts, flushName, history>>
      BY <1>5, <1>n DEF OpenOutput, CloseOutput, Whole, OutputInv, flushVars
    <2>2. CASE Return /\ UNCHANGED dirVars
      <3>1. InputInv' /\ readFiles' \subseteq readFiles
        BY <2>2 DEF Return, InputInv
      <3> QED
        BY <2>1, <2>2, <3>1, SameDirKeeps
    <2>3. CASE /\ \A n \in Name : n # tmp => /\ content'[n] = content[n]
                                             /\ n \in readable' <=> n \in readable
                                             /\ n \in present' <=> n \in present
               /\ content'[tmp] \subseteq points
               /\ cpc' \in {"writing", "renaming"} /\ UNCHANGED <<readFiles, points>>
      <3>1. InputInv'
        BY <1>d, <2>1, <2>3 DEF Keeps, InputInv
      <3>2. FlushInv' /\ StoredInv'
        BY <1>d, <2>1, <2>3 DEF Keeps, FlushInv, StoredInv, history
      <3> QED
        BY <3>1, <3>2 DEF Keeps
    <2>4. CASE OpenOutput /\ ~Return
      <3>1. OpenSst(tmp) /\ cpc' = "writing" /\ UNCHANGED <<readFiles, points>>
        BY <2>1, <2>4 DEF OpenOutput
      <3> QED
        BY <1>d, <2>1, <2>3, <3>1, Untouched
    <2>5. CASE CloseOutput
      <3>1. PICK s \in Ts \X Ts : CloseSst(tmp, points, s)
        BY <2>1, <2>5, OutputWrites
      <3>2. cpc' = "renaming" /\ UNCHANGED <<readFiles, points>> /\ tmp \in present
        BY <2>5 DEF CloseOutput, Whole, OutputInv, tmp
      <3>3. content'[tmp] = points
        BY <1>d, <2>1, <3>1, <3>2 DEF CloseSst
      <3> QED
        BY <1>d, <2>1, <2>3, <3>1, <3>2, <3>3, Untouched
    <2>6. CASE OpenOutput /\ Return
      <3>1. UNCHANGED dirVars
        BY <2>6 DEF OpenOutput, Return
      <3> QED
        BY <2>2, <2>6, <3>1
    <2> QED
      BY <1>5, <2>4, <2>5, <2>6
  <1>6. CASE RenameOutput
    <2>1. /\ points # {} /\ cpc = "renaming" /\ content[tmp] = points
          /\ UNCHANGED <<flushPts, flushName, history>>
      BY <1>6 DEF RenameOutput, Whole, OutputInv, flushVars, past, tmp
    <2>2. /\ tmp \in Name /\ tmp.kind = "tmp" /\ out \in Name /\ out.kind = "merged"
      BY <1>n, <2>1
    <2>3. CASE /\ RenameSst(tmp, out) /\ cpc' = "removing" /\ out \notin readable
               /\ UNCHANGED <<readFiles, points>>
      <3>1. /\ content'[out] = points /\ content'[tmp] = {} /\ content[out] = {}
            /\ \A n \in Name : n # tmp /\ n # out =>
                   /\ content'[n] = content[n]
                   /\ n \in readable' <=> n \in readable
            /\ \A n \in present : n # tmp => n \in present'
        BY <1>d, <2>1, <2>2, <2>3 DEF RenameSst, PresentInv
      <3>2. out \notin readFiles
        BY <2>2, <2>3 DEF Keeps, InputInv
      <3>3. InputInv'
        BY <1>d, <2>1, <2>2, <2>3, <3>1, <3>2 DEF Keeps, InputInv, out
      <3>4. FlushInv' /\ StoredInv'
        BY <1>d, <2>1, <2>2, <2>3, <3>1 DEF Keeps, FlushInv, StoredInv, history
      <3> QED
        BY <3>3, <3>4 DEF Keeps
    <2>4. CASE RemoveSst(tmp) /\ Return
      <3>1. InputInv'
        BY <2>4 DEF Return, InputInv
      <3>2. FlushInv' /\ StoredInv'
        BY <1>d, <2>1, <2>2, <2>4, Untouched DEF Return, Keeps, FlushInv, StoredInv, history
      <3> QED
        BY <3>1, <3>2 DEF Keeps
    <2> QED
      BY <1>6, <1>n, <2>1, <2>3, <2>4 DEF RenameOutput, out
  <1>7. ASSUME NEW f \in readFiles, RemoveOld(f) PROVE Keeps'
    <2>1. /\ cpc = "removing" /\ points # {} /\ readFiles' = readFiles \ {f}
          /\ UNCHANGED <<cpc, points, flushPts, flushName, history>>
      BY <1>7 DEF RemoveOld, Whole, OutputInv, flushVars
    <2>2. out \in Name /\ out.kind = "merged" /\ f \in Name
      BY <1>d, <1>n, <2>1
    <2>3. /\ \A g \in readFiles : g # out /\ content[g] \subseteq content[out]
          /\ \A g \in readFiles : g.kind # "tmp" => g \in readable
      BY <2>1 DEF Keeps, InputInv, out
    <2>4. CASE RemoveSst(f)
      <3>1. \A n \in Name : n # f => /\ content'[n] = content[n]
                                     /\ n \in readable' <=> n \in readable
                                     /\ n \in present' <=> n \in present
        BY <1>d, <2>2, <2>4, Untouched
      <3>2. InputInv'
        BY <1>d, <2>1, <2>2, <2>3, <3>1 DEF InputInv, out
      <3>3. FlushInv'
        BY <1>d, <2>1, <3>1 DEF Keeps, FlushInv
      <3>4. StoredInv'
        BY <2>1, <2>2, <2>3, <3>1 DEF Keeps, StoredInv, history
      <3> QED
        BY <3>2, <3>3, <3>4 DEF Keeps
    <2>5. CASE UNCHANGED dirVars
      <3>1. InputInv'
        BY <2>1, <2>3, <2>5 DEF InputInv, dirVars, out
      <3> QED
        BY <2>1, <2>5, <3>1, SameDirKeeps
    <2> QED
      BY <1>7, <2>4, <2>5 DEF RemoveOld
  <1>8. CASE Crash
    BY <1>8 DEF Crash, dirVars, history, Keeps, InputInv, FlushInv, StoredInv
  <1> QED
    BY <1>1, <1>2, <1>3, <1>4, <1>5, <1>6, <1>7, <1>8 DEF Next, WorkerStep

LEMMA FlagsStay ==
    ASSUME TypeOK, OutputInv, [Next]_vars
    PROVE  /\ ~reused' => ~reused
           /\ ~outputTaken' => ~outputTaken
           /\ ~outputSpoilt' => ~outputSpoilt
  <1>1. ASSUME NEW S \in SUBSET Ts, NEW t \in S, FlushOpen(S, t)
        PROVE  (~reused' => ~reused) /\ UNCHANGED <<outputTaken, outputSpoilt>>
    BY <1>1 DEF FlushOpen
  <1>2. CASE RenameOutput
    <2>1. UNCHANGED <<reused, outputSpoilt>>
      BY <1>2 DEF RenameOutput
    <2>2. \/ outputTaken' = (outputTaken \/ MergedFile(points) \in readable)
          \/ outputTaken' = outputTaken
      BY <1>2 DEF RenameOutput
    <2>3. ~outputTaken' => ~outputTaken
      BY <2>2
    <2> QED
      BY <2>1, <2>3
  <1>3. CASE CloseOutput
    <2>1. outputSpoilt => outputSpoilt'
      BY <1>3, OutputWrites DEF CloseOutput, OutputInv
    <2>2. UNCHANGED <<reused, outputTaken>>
      BY <1>3 DEF CloseOutput
    <2> QED
      BY <2>1, <2>2
  <1>4. CASE \/ FlushClose \/ Start \/ Stop \/ WorkerExit \/ ListFiles
             \/ (\E f \in toRead : ReadFile(f)) \/ ReadDone \/ OpenOutput
             \/ (\E f \in readFiles : RemoveOld(f)) \/ RemoveDone \/ Crash \/ UNCHANGED vars
    <2>1. UNCHANGED past
      BY <1>4 DEF FlushClose, Start, Stop, WorkerExit, ListFiles, ReadFile, ReadDone, OpenOutput,
                  RemoveOld, RemoveDone, Crash, vars
    <2> QED
      BY <2>1 DEF past
  <1> QED
    BY <1>1, <1>2, <1>3, <1>4 DEF Next, WorkerStep

LEMMA InitKeeps == Init => KeepInv
  <1>1. Init => InputInv /\ FlushInv /\ StoredInv
    BY DEF Init, InputInv, FlushInv, StoredInv
  <1> QED
    BY <1>1, InitOutput DEF KeepInv, Whole

LEMMA StepKeepInv == TypeOK /\ KeepInv /\ [Next]_vars => KeepInv'
  <1> SUFFICES ASSUME TypeOK, KeepInv, [Next]_vars PROVE KeepInv'
    OBVIOUS
  <1>1. Whole
    BY DEF KeepInv, Whole
  <1>2. TypeOK' /\ Whole'
    BY <1>1, StepType, StepOutput DEF Whole
  <1>3. ASSUME MinTs >= 0, ~reused', ~outputTaken', ~outputSpoilt'
        PROVE  InputInv' /\ FlushInv' /\ StoredInv'
    <2>1. ~reused /\ ~outputTaken /\ ~outputSpoilt
      BY <1>1, <1>3, FlagsStay DEF Whole
    <2>2. Keeps
      BY <1>3, <2>1 DEF KeepInv, Keeps
    <2> QED
      BY <1>1, <1>2, <1>3, <2>2, StepKeeps DEF Keeps
  <1> QED
    BY <1>2, <1>3 DEF KeepInv, Whole

\* Every state of the worker, the flush and the directory is of its type.
THEOREM TypeCorrect == Spec => []TypeOK
  <1>1. Whole => OutputInv
    BY DEF Whole
  <1> QED
    BY <1>1, InitType, StepType, InitOutput, StepOutput, PTL DEF Spec

LEMMA KeepInvHolds == Spec => []KeepInv
  <1> QED
    BY TypeCorrect, InitKeeps, StepKeepInv, PTL DEF Spec

\* Whatever flushes, crashes and failing calls come between its steps, a merge
\* whose output takes a free name and decodes to what was read makes no timestamp
\* unreadable.
THEOREM MergeKeeps == Spec => []KeptUnlessOutputTaken
  <1>1. TypeOK /\ KeepInv => KeptUnlessOutputTaken
    <2> SUFFICES ASSUME TypeOK, KeepInv, MinTs >= 0, ~outputTaken, ~outputSpoilt, ~reused,
                        NEW t \in stored
                 PROVE  t \in UNION {content[n] : n \in Name}
      BY DEF KeptUnlessOutputTaken, MergeKeepsTs
    <2>1. PICK n \in Name : t \in content[n]
      BY DEF KeepInv, StoredInv
    <2> QED
      BY <2>1
  <1> QED
    BY <1>1, TypeCorrect, KeepInvHolds, PTL

\* No crash and no failing call that CompactTag looks at leaves a merged file that
\* is half-written: where its writes all went through, the one that was renamed is
\* complete, for any timestamps, negative ones and reused names included.
THEOREM MergedFilesWhole == Spec => []MergedWhole
  <1>1. KeepInv => MergedWhole
    BY DEF KeepInv
  <1> QED
    BY <1>1, KeepInvHolds, PTL

-----------------------------------------------------------------------------
(* Stop *)

\* A step of a worker that is to stop.
LEMMA WorkerAdvances == ASSUME ~running, WorkerStep PROVE RoundAdvances
  <1> USE DEF RoundAdvances
  <1>1. CASE WorkerExit
    <2>1. cpc = "waiting" /\ cpc' = "stopped"
      BY <1>1 DEF WorkerExit
    <2> QED
      BY <2>1 DEF Stage
  <1>2. ~ListFiles
    BY DEF ListFiles
  <1>3. ASSUME NEW f \in toRead, ReadFile(f) PROVE RoundAdvances
    <2>1. cpc = "reading" /\ cpc' = "reading" /\ toRead' = toRead \ {f}
      BY <1>3 DEF ReadFile, ReadOrSkip
    <2> QED
      BY <2>1 DEF Shrinks
  <1>4. CASE ReadDone
    <2>1. cpc = "reading" /\ cpc' \in {"waiting", "merging"}
      BY <1>4 DEF ReadDone, Return
    <2> QED
      BY <2>1 DEF Stage
  <1>5. CASE OpenOutput
    <2>1. cpc = "merging" /\ cpc' \in {"waiting", "writing"}
      BY <1>5 DEF OpenOutput, Return
    <2> QED
      BY <2>1 DEF Stage
  <1>6. CASE CloseOutput
    <2>1. cpc = "writing" /\ cpc' = "renaming"
      BY <1>6 DEF CloseOutput
    <2> QED
      BY <2>1 DEF Stage
  <1>7. CASE RenameOutput
    <2>1. cpc = "renaming" /\ cpc' \in {"waiting", "removing"}
      BY <1>7 DEF RenameOutput, Return
    <2> QED
      BY <2>1 DEF Stage
  <1>8. ASSUME NEW f \in readFiles, RemoveOld(f) PROVE RoundAdvances
    <2>1. cpc = "removing" /\ cpc' = "removing" /\ readFiles' = readFiles \ {f}
      BY <1>8 DEF RemoveOld
    <2> QED
      BY <2>1 DEF Shrinks
  <1>9. CASE RemoveDone
    <2>1. cpc = "removing" /\ cpc' = "waiting"
      BY <1>9 DEF RemoveDone, Return
    <2> QED
      BY <2>1 DEF Stage
  <1> QED
    BY <1>1, <1>2, <1>3, <1>4, <1>5, <1>6, <1>7, <1>8, <1>9 DEF WorkerStep

\* Flushes, Stop itself and a crash while it is to stop.
LEMMA OthersDoNotDelay ==
    ASSUME [Next]_vars, ~running', ~WorkerStep
    PROVE  cpc' = "stopped" \/ UNCHANGED workVars
  <1>1. ASSUME NEW S \in SUBSET Ts, NEW t \in S, FlushOpen(S, t) PROVE UNCHANGED workVars
    BY <1>1 DEF FlushOpen
  <1>2. CASE FlushClose \/ Stop \/ UNCHANGED vars
    BY <1>2 DEF FlushClose, Stop, vars
  <1>3. ~Start
    BY DEF Start
  <1>4. CASE Crash
    BY <1>4 DEF Crash
  <1> QED
    BY <1>1, <1>2, <1>3, <1>4 DEF Next

\* The join in Stop waits for finitely many steps of the worker: one for each
\* file that was listed, one for each that was read, and a few more.
THEOREM StopIsBounded == Spec => StopAdvances
  <1>1. [Next]_vars => [~running /\ ~running' =>
            IF WorkerStep THEN RoundAdvances ELSE cpc' = "stopped" \/ UNCHANGED workVars]_vars
    BY WorkerAdvances, OthersDoNotDelay
  <1> QED
    BY <1>1, PTL DEF Spec, StopAdvances
=============================================================================
