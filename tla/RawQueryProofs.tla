--------------------------- MODULE RawQueryProofs ---------------------------
(***************************************************************************)
(* A query beside flushes and merges: it disturbs neither of them, and it  *)
(* finds what was flushed when it listed the directory, for any range of   *)
(* timestamps, any ranges asked for and any values of the bounds.          *)
(***************************************************************************)
EXTENDS RawQuery, CompactionProofs

\* The steps of the query are stutters of compaction, the others are its steps.
LEMMA QueryStepsAreSteps == [QueryNext]_allVars => [Next]_vars
  <1>1. ASSUME NEW r \in Range, QueryList(r) PROVE UNCHANGED vars
    BY <1>1 DEF QueryList
  <1>2. CASE QueryStep
    BY <1>2 DEF QueryStep, QueryReturn, QueryFile
  <1>3. CASE OthersStep
    BY <1>3 DEF OthersStep, MergeStep, Next
  <1>4. CASE UNCHANGED allVars
    BY <1>4 DEF allVars
  <1> QED
    BY <1>1, <1>2, <1>3, <1>4 DEF QueryNext

\* What runs beside a query is compaction as it is without queries.
THEOREM QueriesDisturbNothing == QuerySpec => Spec
  <1>1. QueryInit => Init
    BY DEF QueryInit
  <1> QED
    BY <1>1, QueryStepsAreSteps, PTL DEF QuerySpec, Spec

-----------------------------------------------------------------------------
(* Types *)

\* The query's half of QueryTypeOK, and no result without a query.
QueryVarsType ==
    /\ qpc = "idle" => found = {}
    /\ qpc \in {"idle", "reading"}
    /\ range \in Ts \X Ts
    /\ entries \in SUBSET Name
    /\ found \in SUBSET Inside(range)
    /\ expected \in SUBSET Inside(range)
    /\ renamed \in BOOLEAN

LEMMA QueryInitType == QueryInit => QueryVarsType
  <1>1. QueryInit => renamed \in BOOLEAN
    BY DEF QueryInit
  <1> QED
    BY <1>1, BlankSpan DEF QueryInit, QueryVarsType

LEMMA OverType == QueryVarsType /\ QueryOver => QueryVarsType'
  <1> SUFFICES ASSUME QueryVarsType, QueryOver PROVE QueryVarsType'
    OBVIOUS
  <1>1. renamed' \in BOOLEAN
    BY DEF QueryOver
  <1> QED
    BY <1>1, BlankSpan DEF QueryOver, QueryVarsType

LEMMA QueryStepType == TypeOK /\ QueryVarsType /\ [QueryNext]_allVars => QueryVarsType'
  <1> SUFFICES ASSUME TypeOK, QueryVarsType, [QueryNext]_allVars PROVE QueryVarsType'
    OBVIOUS
  <1>1. ASSUME NEW r \in Range, QueryList(r) PROVE QueryVarsType'
    <2>1. range' \in Ts \X Ts
      BY <1>1, RawQueryAssumption DEF QueryList
    <2>2. expected' \in SUBSET Inside(range') /\ entries' \in SUBSET Name
      BY <1>1 DEF QueryList, Due, TypeOK
    <2>3. found' \in SUBSET Inside(range')
      <3>1. found' = found /\ qpc = "idle"
        BY <1>1 DEF QueryList
      <3> QED
        BY <3>1 DEF QueryVarsType
    <2> QED
      BY <1>1, <2>1, <2>2, <2>3 DEF QueryList, QueryVarsType
  <1>2. ASSUME NEW f \in entries, QueryFile(f) PROVE QueryVarsType'
    BY <1>2 DEF QueryFile, ReadEntry, InFile, QueryVarsType
  <1>3. CASE QueryReturn
    BY <1>3, OverType DEF QueryReturn
  <1>4. CASE MergeStep
    <2>1. renamed' \in BOOLEAN
      BY <1>4 DEF MergeStep, NoteRename
    <2> QED
      BY <1>4, <2>1 DEF MergeStep, NoteRename, QueryVarsType
  <1>5. CASE UNCHANGED queryVars
    BY <1>5 DEF queryVars, QueryVarsType
  <1>6. CASE Crash /\ QueryOver
    BY <1>6, OverType
  <1> QED
    BY <1>1, <1>2, <1>3, <1>4, <1>5, <1>6 DEF QueryNext, QueryStep, OthersStep, allVars

\* The state of a query keeps its type, whatever runs beside it.
THEOREM QueryTypeCorrect == QuerySpec => []QueryTypeOK
  <1>1. QueryInit /\ TypeOK => QueryVarsType
    BY QueryInitType
  <1>2. QuerySpec => []TypeOK
    BY QueriesDisturbNothing, TypeCorrect, PTL
  <1>3. TypeOK /\ QueryVarsType => QueryTypeOK
    BY DEF QueryVarsType, QueryTypeOK
  <1> QED
    BY <1>1, <1>2, <1>3, QueryStepType, PTL DEF QuerySpec

-----------------------------------------------------------------------------
(* The ranges of the blocks *)

LEMMA InitSpan == Init => SpanInv
  BY DEF Init, SpanInv

\* A step that touches no file but temporary ones.
LEMMA SameSpans ==
    ASSUME SpanInv, outputSpoilt => outputSpoilt', hidden' = hidden, cpc' # "renaming",
           \A n \in Name : n.kind # "tmp" =>
               (content'[n] = content[n] /\ span'[n] = span[n]) \/ content'[n] = {}
    PROVE  SpanInv'
  BY DEF SpanInv

LEMMA StepSpan == TypeOK /\ KeepInv /\ SpanInv /\ [Next]_vars => SpanInv'
  <1> SUFFICES ASSUME TypeOK, KeepInv, SpanInv, [Next]_vars PROVE SpanInv'
    OBVIOUS
  <1> DEFINE tmp == TmpFile(points)
             out == MergedFile(points)
  <1>d. /\ flushName \in Name /\ OutputInv /\ flushName.kind = "flush" /\ PresentInv
        /\ content \in [Name -> SUBSET Ts] /\ span \in [Name -> Ts \X Ts]
        /\ readFiles \subseteq Name /\ points \subseteq Ts
    BY DEF TypeOK, KeepInv, OutputInv
  <1>n. points # {} => /\ tmp \in Name /\ tmp.kind = "tmp" /\ Output(points) = tmp
                      /\ out \in Name /\ out.kind = "merged"
    BY NamesAreNames DEF TypeOK, Output
  <1> HIDE DEF tmp, out
  <1>1. ASSUME NEW S \in SUBSET Ts, NEW t \in S, FlushOpen(S, t) PROVE SpanInv'
    <2>1. FlushFile(t) \in Name /\ FlushFile(t).kind = "flush" /\ OpenSst(FlushFile(t))
          /\ UNCHANGED <<cpc, points, hidden, outputSpoilt>>
      BY <1>1, NamesAreNames DEF FlushOpen, workVars, history
    <2>2. \A n \in Name : n # FlushFile(t) => content'[n] = content[n] /\ span'[n] = span[n]
      BY <1>d, <2>1, Untouched
    <2>3. content'[FlushFile(t)] = {}
      BY <1>d, <2>1, Untouched
    <2>4. cpc = "renaming" => tmp \in Name /\ tmp # FlushFile(t)
      BY <1>d, <1>n, <2>1 DEF OutputInv
    <2> QED
      BY <2>1, <2>2, <2>3, <2>4 DEF SpanInv, tmp
  <1>2. CASE FlushClose
    <2>1. UNCHANGED <<cpc, points, outputSpoilt>>
      BY <1>2 DEF FlushClose, workVars, past
    <2>2. CASE UNCHANGED <<dirVars, history>>
      BY <2>1, <2>2 DEF SpanInv, dirVars, history
    <2>3. ASSUME NEW D \in SUBSET Ts, NEW s \in Ts \X Ts, FlushTo(D, s) PROVE SpanInv'
      <3>1. CloseSst(flushName, D, s) /\ hidden' = hidden \union (D \ Inside(s))
        BY <2>3 DEF FlushTo
      <3>2. \A n \in Name : n # flushName => content'[n] = content[n] /\ span'[n] = span[n]
        BY <1>d, <3>1, Untouched
      <3>3. \/ content'[flushName] = D /\ span'[flushName] = s
            \/ content'[flushName] = content[flushName] /\ span'[flushName] = span[flushName]
        BY <1>d, <3>1 DEF CloseSst
      <3>4. cpc = "renaming" => tmp \in Name /\ tmp # flushName
        BY <1>d, <1>n DEF OutputInv
      <3>5. ~outputSpoilt => content'[flushName] \ hidden' \subseteq Inside(span'[flushName])
        BY <1>d, <3>1, <3>3 DEF SpanInv
      <3> QED
        BY <1>d, <2>1, <3>1, <3>2, <3>4, <3>5 DEF SpanInv, tmp
    <2> QED
      BY <1>2, <2>2, <2>3, FlushWrites
  <1>3. CASE /\ UNCHANGED <<content, span, hidden, outputSpoilt>>
             /\ cpc' # "renaming" \/ UNCHANGED <<cpc, points>>
    BY <1>3 DEF SpanInv
  <1>4. CASE OpenOutput
    <2>1. points # {} /\ UNCHANGED <<hidden, outputSpoilt>> /\ cpc' # "renaming"
      BY <1>d, <1>4 DEF OpenOutput, OutputInv, Return, history, past
    <2>2. CASE OpenSst(tmp)
      BY <1>d, <1>n, <2>1, <2>2, Untouched, SameSpans
    <2>3. CASE UNCHANGED dirVars
      BY <1>3, <2>1, <2>3 DEF dirVars
    <2> QED
      BY <1>4, <1>n, <2>1, <2>2, <2>3 DEF OpenOutput
  <1>5. CASE CloseOutput
    <2>1. /\ points # {} /\ tmp \in present /\ tmp \in Name /\ tmp.kind = "tmp"
          /\ UNCHANGED <<hidden, points>>
      BY <1>d, <1>n, <1>5 DEF CloseOutput, OutputInv, history, tmp
    <2>2. CASE outputSpoilt'
      BY <2>2 DEF SpanInv
    <2>3. CASE ~outputSpoilt'
      <3>1. CloseSst(tmp, points, <<Least(points), Greatest(points)>>) /\ ~outputSpoilt
        BY <1>5, <1>n, <2>1, <2>3, OutputWrites
      <3>2. span'[tmp] = <<Least(points), Greatest(points)>>
        BY <1>d, <2>1, <3>1 DEF CloseSst
      <3>3. points \subseteq Inside(span'[tmp])
        BY <1>d, <2>1, <3>2, FrontAndBack
      <3>4. \A n \in Name : n # tmp => content'[n] = content[n] /\ span'[n] = span[n]
        BY <1>d, <2>1, <3>1, Untouched
      <3> QED
        BY <2>1, <2>3, <3>1, <3>3, <3>4 DEF SpanInv, tmp
    <2> QED
      BY <2>2, <2>3, <1>5, <2>1, OutputWrites
  <1>6. CASE RenameOutput
    <2>1. /\ points # {} /\ tmp \in Name /\ tmp.kind = "tmp" /\ out \in Name
          /\ out.kind = "merged" /\ cpc = "renaming" /\ cpc' # "renaming"
          /\ UNCHANGED <<hidden, outputSpoilt>>
      BY <1>d, <1>n, <1>6 DEF RenameOutput, OutputInv, Return, history, past
    <2>2. CASE RenameSst(tmp, out)
      <3>1. /\ content'[out] = content[tmp] /\ span'[out] = span[tmp]
            /\ \A n \in Name : n # tmp /\ n # out => content'[n] = content[n] /\ span'[n] = span[n]
        BY <1>d, <2>1, <2>2 DEF RenameSst
      <3>2. ~outputSpoilt => content[tmp] = points /\ points \subseteq Inside(span[tmp])
        BY <1>d, <2>1 DEF OutputInv, SpanInv, tmp
      <3>3. ~outputSpoilt => content'[out] \subseteq Inside(span'[out])
        BY <3>1, <3>2
      <3> QED
        BY <2>1, <3>1, <3>3 DEF SpanInv
    <2>3. CASE RemoveSst(tmp)
      BY <1>d, <2>1, <2>3, Untouched, SameSpans
    <2> QED
      BY <1>6, <1>n, <2>1, <2>2, <2>3 DEF RenameOutput, out
  <1>7. ASSUME NEW f \in readFiles, RemoveOld(f) PROVE SpanInv'
    <2>1. cpc = "removing" /\ UNCHANGED <<cpc, hidden, outputSpoilt>> /\ f \in Name
      BY <1>7, <1>d DEF RemoveOld, history, past
    <2>2. CASE RemoveSst(f)
      BY <1>d, <2>1, <2>2, Untouched, SameSpans
    <2>3. CASE UNCHANGED dirVars
      BY <1>3, <2>1, <2>3 DEF dirVars
    <2> QED
      BY <1>7, <2>2, <2>3 DEF RemoveOld
  <1>8. CASE \/ Start \/ Stop \/ WorkerExit \/ ListFiles \/ ReadDone \/ RemoveDone \/ Crash
             \/ (\E f \in toRead : ReadFile(f)) \/ UNCHANGED vars
    BY <1>3, <1>8 DEF Start, Stop, WorkerExit, ListFiles, ReadDone, RemoveDone, Return, Crash,
                      ReadFile, vars, dirVars, workVars, history, past
  <1> QED
    BY <1>1, <1>2, <1>4, <1>5, <1>6, <1>7, <1>8 DEF Next, WorkerStep

-----------------------------------------------------------------------------
(* What is expected is found or still listed *)

\* ReadInv without its antecedent.
OnTheWay ==
    /\ \A t \in expected \ found : \E n \in entries : n.kind # "tmp" /\ t \in InFile(n)
    /\ (cpc = "removing" /\ MergedFile(points) \notin entries) =>
           content[MergedFile(points)] \intersect Inside(range) \subseteq found

\* A block is read by whoever asks for a timestamp inside its range.
LEMMA InsideOverlaps ==
    ASSUME NEW s \in Ts \X Ts, NEW r \in Ts \X Ts, NEW t \in Ts, t \in Inside(s), t \in Inside(r)
    PROVE  Overlaps(s, r[1], r[2])
  BY CompactionAssumption DEF Inside, Overlaps, Ts

\* One that asks for everything reads every block.
LEMMA AllOverlap ==
    ASSUME NEW s \in Ts \X Ts, NEW r \in Ts \X Ts, Inside(r) = Ts
    PROVE  Overlaps(s, r[1], r[2])
  <1>1. s[1] \in Ts /\ s[2] \in Ts
    OBVIOUS
  <1>2. s[1] <= r[2] /\ r[1] <= s[2]
    BY <1>1 DEF Inside
  <1>3. r[1] \in Int /\ s[2] \in Int
    BY CompactionAssumption DEF Ts
  <1> QED
    BY <1>2, <1>3 DEF Overlaps

\* Listing the directory: what the query has to find is in a file of the list, in
\* a block it will read.
LEMMA ListOnTheWay ==
    ASSUME TypeOK, OutputInv, StoredInv, PresentInv, SpanInv, ~outputSpoilt, QueryVarsType,
           NEW r \in Range, QueryList(r)
    PROVE  OnTheWay'
  <1>1. /\ qpc = "idle" /\ entries' = present /\ found' = found /\ range' = r
        /\ expected' = Due(r) /\ UNCHANGED <<content, span, cpc, points>>
    BY DEF QueryList, vars, dirVars, workVars
  <1>2. r \in Ts \X Ts
    BY RawQueryAssumption
  <1>3. ASSUME NEW t \in Due(r)
        PROVE  \E n \in present : /\ n.kind # "tmp"
                                  /\ Overlaps(span[n], r[1], r[2])
                                  /\ t \in content[n] \intersect Inside(r)
    <2>1. t \in stored /\ t \in Inside(r) /\ t \in Ts /\ (Inside(r) = Ts \/ t \notin hidden)
      BY DEF Due, TypeOK
    <2>2. PICK n \in Name : n.kind # "tmp" /\ t \in content[n]
      BY <2>1 DEF StoredInv
    <2>3. n \in present /\ span[n] \in Ts \X Ts
      BY <2>2 DEF PresentInv, TypeOK
    <2>4. n.kind \in {"flush", "merged"}
      BY <2>2 DEF Name
    <2>5. t \notin hidden => t \in Inside(span[n])
      BY <2>2, <2>4 DEF SpanInv
    <2> QED
      BY <1>2, <2>1, <2>2, <2>3, <2>5, InsideOverlaps, AllOverlap
  <1>4. (cpc = "removing" /\ MergedFile(points) \notin present) => content[MergedFile(points)] = {}
    <2>1. cpc = "removing" => MergedFile(points) \in Name
      BY NamesAreNames DEF OutputInv, TypeOK
    <2> QED
      BY <2>1 DEF PresentInv
  <1> QED
    BY <1>1, <1>3, <1>4 DEF OnTheWay, InFile

LEMMA FileOnTheWay ==
    ASSUME TypeOK, OutputInv, SpanInv, ~outputSpoilt, OnTheWay, QueryVarsType,
           NEW f \in entries, QueryFile(f)
    PROVE  OnTheWay'
  <1>1. /\ entries' = entries \ {f} /\ found' = found \union InFile(f)
        /\ UNCHANGED <<content, span, cpc, points, range, expected>>
    BY DEF QueryFile, ReadEntry, vars, dirVars, workVars
  <1>2. \A n : InFile(n)' = InFile(n)
    BY <1>1 DEF InFile
  <1>3. \A t \in expected' \ found' : \E n \in entries' : n.kind # "tmp" /\ t \in InFile(n)'
    BY <1>1, <1>2 DEF OnTheWay
  <1>4. (cpc' = "removing" /\ MergedFile(points)' \notin entries') =>
            (content[MergedFile(points)])' \intersect Inside(range') \subseteq found'
    <2>1. CASE cpc = "removing" /\ MergedFile(points) = f
      <3>1. f \in Name /\ f.kind = "merged"
        BY <2>1, NamesAreNames DEF OutputInv, TypeOK
      <3>2. content[f] \subseteq Inside(span[f]) /\ content[f] \subseteq Ts /\ span[f] \in Ts \X Ts
        BY <3>1 DEF SpanInv, TypeOK
      <3>3. content[f] \intersect Inside(range) \subseteq InFile(f)
        BY <3>2, InsideOverlaps DEF InFile, QueryVarsType
      <3> QED
        BY <1>1, <2>1, <3>3
    <2>2. CASE cpc # "removing" \/ MergedFile(points) # f
      BY <1>1, <2>2 DEF OnTheWay
    <2> QED
      BY <2>1, <2>2
  <1> QED
    BY <1>3, <1>4 DEF OnTheWay

\* A step that takes nothing out of the files the query may need.
LEMMA SameFilesOnTheWay ==
    ASSUME OnTheWay, UNCHANGED <<entries, found, expected, range>>,
           \A n \in entries : n.kind # "tmp" =>
               content[n] = {} \/ (content'[n] = content[n] /\ span'[n] = span[n]),
           cpc' = "removing" =>
               /\ cpc = "removing" /\ points' = points
               /\ content'[MergedFile(points)] = content[MergedFile(points)]
    PROVE  OnTheWay'
  <1>1. \A n \in entries : n.kind # "tmp" => InFile(n) \subseteq InFile(n)'
    BY DEF InFile
  <1>2. \A t \in expected' \ found' : \E n \in entries' : n.kind # "tmp" /\ t \in InFile(n)'
    BY <1>1 DEF OnTheWay
  <1>3. (cpc' = "removing" /\ MergedFile(points)' \notin entries') =>
            (content[MergedFile(points)])' \intersect Inside(range') \subseteq found'
    BY DEF OnTheWay
  <1> QED
    BY <1>2, <1>3 DEF OnTheWay

\* The worker, as long as it does not put an output in place.
LEMMA MergeOnTheWay ==
    ASSUME TypeOK, QueryVarsType, Whole, InputInv, SpanInv, ~outputSpoilt', OnTheWay, WorkerStep, ~(cpc = "renaming" /\ cpc' = "removing"),
           UNCHANGED <<entries, found, expected, range>>
    PROVE  OnTheWay'
  <1>d. /\ readFiles \subseteq Name /\ entries \subseteq Name /\ OutputInv /\ PresentInv
    BY DEF TypeOK, QueryVarsType, Whole
  <1>n. points # {} => /\ Output(points) \in Name /\ Output(points).kind = "tmp"
                      /\ MergedFile(points) \in Name /\ MergedFile(points).kind = "merged"
    BY NamesAreNames DEF TypeOK, Output
  <1>1. CASE \/ WorkerExit \/ ListFiles \/ ReadDone \/ RemoveDone \/ (\E f \in toRead : ReadFile(f))
    <2>1. UNCHANGED <<content, span>> /\ cpc' # "removing"
      BY <1>1 DEF WorkerExit, ListFiles, ReadDone, RemoveDone, ReadFile, Return, dirVars
    <2> QED
      BY <2>1, SameFilesOnTheWay
  <1>2. CASE OpenOutput \/ CloseOutput \/ RenameOutput
    <2>1. points # {} /\ Output(points) \in Name /\ Output(points).kind = "tmp"
      BY <1>2, <1>d, <1>n DEF OpenOutput, CloseOutput, RenameOutput, OutputInv
    <2>2. /\ cpc' # "removing"
          /\ \/ UNCHANGED dirVars \/ OpenSst(Output(points)) \/ RemoveSst(Output(points))
             \/ \E S, s : CloseSst(Output(points), S, s)
      BY <1>2, <2>1, OutputWrites DEF OpenOutput, CloseOutput, RenameOutput, Return
    <2>3. \A n \in Name : n # Output(points) => content'[n] = content[n] /\ span'[n] = span[n]
      BY <1>d, <2>1, <2>2, Untouched DEF dirVars
    <2> QED
      BY <1>d, <2>1, <2>2, <2>3, SameFilesOnTheWay
  <1>3. ASSUME NEW f \in readFiles, RemoveOld(f) PROVE OnTheWay'
    <2> DEFINE out == MergedFile(points)
    <2>1. cpc = "removing" /\ UNCHANGED <<cpc, points, outputSpoilt>>
      BY <1>3 DEF RemoveOld, past
    <2>2. /\ f # out /\ content[f] \subseteq content[out] /\ f \in Name
          /\ out \in Name /\ out.kind = "merged"
      BY <1>d, <1>n, <2>1 DEF InputInv, OutputInv
    <2>3. \A n \in Name : n # f => content'[n] = content[n] /\ span'[n] = span[n]
      BY <1>3, <1>d, <2>2, Untouched DEF RemoveOld, dirVars
    <2>4. \A n \in Name : n # f => InFile(n)' = InFile(n)
      BY <2>3 DEF InFile
    <2>5. ASSUME NEW t \in expected \ found
          PROVE  \E n \in entries : n.kind # "tmp" /\ t \in InFile(n)'
      <3>1. PICK n \in entries : n.kind # "tmp" /\ t \in InFile(n)
        BY DEF OnTheWay
      <3>2. CASE n # f
        BY <1>d, <2>4, <3>1, <3>2
      <3>3. CASE n = f
        <4>1. t \in content[out] /\ t \in Inside(range) /\ t \in Ts
          BY <2>2, <3>1, <3>3 DEF InFile, Inside
        <4>2. out \in entries
          BY <2>1, <4>1 DEF OnTheWay
        <4>3. t \in Inside(span[out])
          BY <2>1, <2>2, <4>1 DEF SpanInv
        <4>4. t \in InFile(out)
          BY <2>2, <4>1, <4>3, InsideOverlaps DEF InFile, TypeOK, QueryVarsType
        <4> QED
          BY <2>2, <2>4, <4>2, <4>4
      <3> QED
        BY <3>2, <3>3
    <2>6. content'[out] = content[out]
      BY <2>2, <2>3
    <2>7. out \notin entries => content[out] \intersect Inside(range) \subseteq found
      BY <2>1 DEF OnTheWay
    <2> QED
      BY <2>1, <2>5, <2>6, <2>7 DEF OnTheWay
  <1> QED
    BY <1>1, <1>2, <1>3 DEF WorkerStep

\* The flush callback: it writes to a file that had no points.
LEMMA FlushOnTheWay ==
    ASSUME TypeOK, QueryVarsType, Whole, FlushInv, OnTheWay, ~reused',
           UNCHANGED <<entries, found, expected, range>>,
           FlushClose \/ \E S \in SUBSET Ts : \E t \in S : FlushOpen(S, t)
    PROVE  OnTheWay'
  <1>d. OutputInv /\ PresentInv /\ entries \subseteq Name
    BY DEF Whole, QueryVarsType
  <1>1. PICK n \in Name :
            /\ n.kind = "flush" /\ content[n] = {} /\ UNCHANGED <<cpc, points>>
            /\ \A m \in Name : m # n => content'[m] = content[m] /\ span'[m] = span[m]
    <2>1. CASE FlushClose
      <3>1. /\ flushName \in Name /\ flushName.kind = "flush" /\ content[flushName] = {}
            /\ UNCHANGED <<cpc, points>>
        BY <1>d, <2>1 DEF FlushClose, FlushInv, OutputInv, PresentInv, TypeOK, workVars
      <3>2. UNCHANGED dirVars \/ \E D, s : CloseSst(flushName, D, s)
        BY <2>1, FlushWrites DEF FlushTo
      <3>3. \A m \in Name : m # flushName => content'[m] = content[m] /\ span'[m] = span[m]
        BY <1>d, <3>1, <3>2, Untouched DEF dirVars
      <3> QED
        BY <3>1, <3>3
    <2>2. ASSUME NEW S \in SUBSET Ts, NEW t \in S, FlushOpen(S, t)
          PROVE  /\ FlushFile(t) \in Name /\ FlushFile(t).kind = "flush"
                 /\ content[FlushFile(t)] = {} /\ UNCHANGED <<cpc, points>>
                 /\ \A m \in Name : m # FlushFile(t) =>
                        content'[m] = content[m] /\ span'[m] = span[m]
      <3>1. FlushFile(t) \in Name /\ FlushFile(t).kind = "flush" /\ FlushFile(t) \notin readable
        BY <2>2, NamesAreNames DEF FlushOpen
      <3>2. content[FlushFile(t)] = {}
        BY <1>d, <3>1 DEF PresentInv
      <3> QED
        BY <1>d, <2>2, <3>1, <3>2, Untouched DEF FlushOpen, workVars
    <2> QED
      BY <2>1, <2>2
  <1>2. cpc = "removing" => content'[MergedFile(points)] = content[MergedFile(points)]
    <2>1. cpc = "removing" => MergedFile(points) \in Name /\ MergedFile(points).kind = "merged"
      BY <1>d, NamesAreNames DEF OutputInv, TypeOK
    <2> QED
      BY <1>1, <2>1
  <1> QED
    BY <1>d, <1>1, <1>2, SameFilesOnTheWay

LEMMA StepRead ==
    ASSUME TypeOK, QueryVarsType, KeepInv, SpanInv, ReadInv, [QueryNext]_allVars
    PROVE  ReadInv'
  <1> SUFFICES ASSUME qpc' = "reading", MinTs >= 0, ~reused', ~outputTaken', ~outputSpoilt',
                      ~renamed'
               PROVE  OnTheWay'
    BY DEF ReadInv, OnTheWay
  <1>1. ~reused /\ ~outputTaken /\ ~outputSpoilt
    BY QueryStepsAreSteps, FlagsStay DEF KeepInv
  <1>2. OutputInv /\ PresentInv /\ Whole /\ InputInv /\ FlushInv /\ StoredInv
    BY <1>1 DEF KeepInv, Whole
  <1>3. qpc = "reading" /\ ~renamed => OnTheWay
    BY <1>1 DEF ReadInv, OnTheWay
  <1>4. ASSUME NEW r \in Range, QueryList(r) PROVE OnTheWay'
    BY <1>1, <1>2, <1>4, ListOnTheWay
  <1>5. ASSUME NEW f \in entries, QueryFile(f) PROVE OnTheWay'
    <2>1. qpc = "reading" /\ ~renamed
      BY <1>5 DEF QueryFile
    <2> QED
      BY <1>1, <1>2, <1>3, <1>5, <2>1, FileOnTheWay
  <1>6. CASE QueryReturn \/ (Crash /\ QueryOver)
    BY <1>6 DEF QueryReturn, QueryOver
  <1>7. CASE MergeStep
    <2>1. qpc = "reading" /\ WorkerStep /\ UNCHANGED <<entries, found, expected, range>>
      BY <1>7 DEF MergeStep, NoteRename
    <2>2. renamed' = (qpc = "reading" /\ (renamed \/ (cpc = "renaming" /\ cpc' = "removing")))
      BY <1>7 DEF MergeStep, NoteRename
    <2>3. ~renamed /\ ~(cpc = "renaming" /\ cpc' = "removing")
      BY <2>1, <2>2
    <2> QED
      BY <1>2, <1>3, <2>1, <2>3, MergeOnTheWay
  <1>8. CASE UNCHANGED queryVars /\ (FlushClose \/ \E S \in SUBSET Ts : \E t \in S : FlushOpen(S, t))
    <2>1. qpc = "reading" /\ ~renamed /\ UNCHANGED <<entries, found, expected, range>>
      BY <1>8 DEF queryVars
    <2> QED
      BY <1>2, <1>3, <1>8, <2>1, FlushOnTheWay
  <1>9. CASE UNCHANGED queryVars /\ (Start \/ Stop \/ UNCHANGED vars)
    <2>1. qpc = "reading" /\ ~renamed /\ UNCHANGED <<entries, found, expected, range>>
      BY <1>9 DEF queryVars
    <2>2. UNCHANGED <<content, span>> /\ (cpc' = "removing" => cpc = "removing" /\ points' = points)
      BY <1>9 DEF Start, Stop, vars, dirVars, workVars
    <2> QED
      BY <1>3, <2>1, <2>2, SameFilesOnTheWay
  <1> QED
    BY <1>4, <1>5, <1>6, <1>7, <1>8, <1>9 DEF QueryNext, QueryStep, OthersStep, allVars

LEMMA ReadInvHolds == QuerySpec => [](TypeOK /\ KeepInv /\ QueryVarsType /\ ReadInv)
  <1>1. QueryInit => QueryVarsType /\ SpanInv /\ ReadInv
    <2>1. QueryInit => ReadInv
      BY DEF QueryInit, ReadInv
    <2> QED
      BY <2>1, QueryInitType, InitSpan DEF QueryInit
  <1>2. QuerySpec => []TypeOK /\ []KeepInv
    BY QueriesDisturbNothing, TypeCorrect, KeepInvHolds, PTL
  <1>3. TypeOK /\ KeepInv /\ SpanInv /\ [QueryNext]_allVars => SpanInv'
    BY QueryStepsAreSteps, StepSpan
  <1> QED
    BY <1>1, <1>2, <1>3, QueryStepType, StepRead, PTL DEF QuerySpec

\* No merge that was renamed before the query listed the directory, no flush, no
\* failing call and no crash takes a flushed timestamp away from it, for any ranges:
\* what it misses had come out of order, before the first or after the last
\* timestamp of its block.
THEOREM QueriesComplete == QuerySpec => []QueryComplete
  <1>1. ReadInv => QueryComplete
    BY DEF ReadInv, QueryComplete
  <1> QED
    BY <1>1, ReadInvHolds, PTL

-----------------------------------------------------------------------------
(* Flushes, merges and queries implement the points of a tag *)

Undamaged == MinTs >= 0 /\ ~reused /\ ~outputTaken /\ ~outputSpoilt

\* What is in the files that are not temporary is not touched.
LEMMA SameHeld ==
    ASSUME \A n \in Name : n.kind # "tmp" => content'[n] = content[n]
    PROVE  Held' = Held
  BY DEF Held

LEMMA HeldIs == \A t : t \in Held <=> \E n \in Name : n.kind # "tmp" /\ t \in content[n]
  BY DEF Held

LEMMA NextHeldIs == \A t : t \in Held' <=> \E n \in Name : n.kind # "tmp" /\ t \in content'[n]
  BY DEF Held

\* The worker's steps take nothing away, and leave the rest of the tag alone.
LEMMA WorkerHolds ==
    ASSUME TypeOK, Whole, InputInv, ~outputTaken', WorkerStep
    PROVE  Held \subseteq Held'
  <1>d. readFiles \subseteq Name /\ OutputInv /\ PresentInv
    BY DEF TypeOK, Whole
  <1>n. points # {} => /\ Output(points) \in Name /\ Output(points).kind = "tmp"
                      /\ MergedFile(points) \in Name /\ MergedFile(points).kind = "merged"
    BY NamesAreNames DEF TypeOK, Output
  <1>s. ASSUME \A n \in Name : n.kind # "tmp" => content[n] \subseteq content'[n]
        PROVE  Held \subseteq Held'
    BY <1>s, HeldIs, NextHeldIs
  <1>1. CASE \/ WorkerExit \/ ListFiles \/ ReadDone \/ RemoveDone \/ (\E f \in toRead : ReadFile(f))
    BY <1>1, <1>s DEF WorkerExit, ListFiles, ReadDone, RemoveDone, ReadFile, dirVars
  <1>2. CASE OpenOutput \/ CloseOutput
    <2>1. points # {} /\ Output(points) \in Name /\ Output(points).kind = "tmp"
      BY <1>2, <1>d, <1>n DEF OpenOutput, CloseOutput, OutputInv
    <2>2. \/ UNCHANGED dirVars \/ OpenSst(Output(points))
          \/ \E S, s : CloseSst(Output(points), S, s)
      BY <1>2, <2>1, OutputWrites DEF OpenOutput
    <2>3. \A n \in Name : n # Output(points) => content'[n] = content[n]
      BY <1>d, <2>1, <2>2, Untouched DEF dirVars
    <2> QED
      BY <1>s, <2>1, <2>3
  <1>3. CASE RenameOutput
    <2>1. /\ points # {} /\ Output(points) \in Name /\ Output(points).kind = "tmp"
          /\ MergedFile(points) \in Name /\ MergedFile(points).kind = "merged"
      BY <1>3, <1>d, <1>n DEF RenameOutput, OutputInv
    <2>2. CASE RenameSst(Output(points), MergedFile(points)) /\ MergedFile(points) \notin readable
      <3>1. content[MergedFile(points)] = {}
        BY <1>d, <2>1, <2>2 DEF PresentInv
      <3>2. \A n \in Name : n # Output(points) /\ n # MergedFile(points) => content'[n] = content[n]
        BY <2>1, <2>2 DEF RenameSst, TypeOK
      <3> QED
        BY <1>s, <2>1, <3>1, <3>2
    <2>3. CASE RemoveSst(Output(points))
      <3>1. \A n \in Name : n # Output(points) => content'[n] = content[n]
        BY <1>d, <2>1, <2>3, Untouched
      <3> QED
        BY <1>s, <2>1, <3>1
    <2> QED
      BY <1>3, <2>2, <2>3 DEF RenameOutput
  <1>4. ASSUME NEW f \in readFiles, RemoveOld(f) PROVE Held \subseteq Held'
    <2>1. cpc = "removing" /\ points # {} /\ f \in Name
      BY <1>4, <1>d DEF RemoveOld, OutputInv
    <2>2. f # MergedFile(points) /\ content[f] \subseteq content[MergedFile(points)]
      BY <2>1 DEF InputInv
    <2>3. \A n \in Name : n # f => content'[n] = content[n]
      BY <1>4, <1>d, <2>1, Untouched DEF RemoveOld, dirVars
    <2>4. /\ MergedFile(points) \in Name /\ MergedFile(points).kind # "tmp"
          /\ content'[MergedFile(points)] = content[MergedFile(points)]
      BY <1>n, <2>1, <2>2, <2>3
    <2>5. ASSUME NEW t \in Held PROVE t \in Held'
      <3>1. PICK n \in Name : n.kind # "tmp" /\ t \in content[n]
        BY HeldIs
      <3>2. CASE n = f
        BY <2>2, <2>4, <3>1, <3>2, NextHeldIs
      <3>3. CASE n # f
        BY <2>3, <3>1, <3>3, NextHeldIs
      <3> QED
        BY <3>2, <3>3
    <2> QED
      BY <2>5
  <1> QED
    BY <1>1, <1>2, <1>3, <1>4 DEF WorkerStep

LEMMA WorkerLeaves == WorkerStep => UNCHANGED <<stored, hidden, reused, crashes>>
  <1> USE DEF past, history
  <1>1. CASE \/ WorkerExit \/ ListFiles \/ ReadDone \/ (\E f \in toRead : ReadFile(f))
    BY <1>1 DEF WorkerExit, ListFiles, ReadDone, ReadFile
  <1>2. CASE \/ OpenOutput \/ CloseOutput \/ RenameOutput \/ RemoveDone
             \/ (\E f \in readFiles : RemoveOld(f))
    BY <1>2 DEF OpenOutput, CloseOutput, RenameOutput, RemoveOld, RemoveDone
  <1> QED
    BY <1>1, <1>2 DEF WorkerStep

\* A flush truncates nothing when it opens its file, and when it closes it, adds
\* what the file decodes to.
LEMMA OpenHolds ==
    ASSUME TypeOK, PresentInv, ~reused', NEW S \in SUBSET Ts, NEW t \in S, FlushOpen(S, t)
    PROVE  Held' = Held
  <1>1. /\ content \in [Name -> SUBSET Ts] /\ FlushFile(t) \in Name
        /\ FlushFile(t) \notin readable
    BY NamesAreNames DEF TypeOK, FlushOpen
  <1>2. content[FlushFile(t)] = {}
    BY <1>1 DEF PresentInv
  <1>3. content' = content
    BY <1>1, <1>2 DEF FlushOpen, OpenSst
  <1> QED
    BY <1>3 DEF Held

LEMMA CloseHolds ==
    ASSUME TypeOK, OutputInv, PresentInv, FlushInv, flushPts # {},
           NEW D \in SUBSET Ts, NEW s \in Ts \X Ts, FlushTo(D, s)
    PROVE  Held' = Held \union D
  <1>1. /\ content \in [Name -> SUBSET Ts] /\ flushName \in present /\ flushName \in Name
        /\ flushName.kind # "tmp" /\ content[flushName] = {}
    BY DEF TypeOK, OutputInv, PresentInv, FlushInv
  <1>2. /\ content'[flushName] = D
        /\ \A n \in Name : n # flushName => content'[n] = content[n]
    BY <1>1 DEF FlushTo, CloseSst
  <1>3. \A t : t \in Held' <=> t \in Held \union D
    BY <1>1, <1>2, HeldIs, NextHeldIs
  <1> QED
    BY <1>3

\* All steps of a damaged tag are alike.
LEMMA DamagedStep ==
    ASSUME TypeOK, TypeOK', ~Undamaged', [QueryNext]_allVars
    PROVE  Tag!Damaged
  <1>1. stored \subseteq stored' /\ crashes' \in {crashes, crashes + 1}
    <2>1. CASE WorkerStep
      BY <2>1, WorkerLeaves
    <2>2. CASE \/ Start \/ Stop \/ Crash \/ UNCHANGED vars
               \/ \E S \in SUBSET Ts : \E t \in S : FlushOpen(S, t)
      BY <2>2 DEF Start, Stop, Crash, vars, history, FlushOpen
    <2>3. CASE FlushClose
      <3>1. stored \subseteq stored'
        BY <2>3, FlushWrites DEF FlushTo, history
      <3> QED
        BY <2>3, <3>1 DEF FlushClose
    <2> QED
      BY <2>1, <2>2, <2>3, QueryStepsAreSteps DEF Next
  <1>2. (MinTs < 0 \/ reused' \/ outputTaken' \/ outputSpoilt') = TRUE
    <2>1. MinTs < 0 \/ reused' \/ outputTaken' \/ outputSpoilt'
      BY CompactionAssumption DEF Undamaged
    <2> QED
      BY <2>1
  <1> QED
    BY <1>1, <1>2 DEF Tag!Damaged

\* No query is idle with a result or an excuse.
IdleInv == qpc = "idle" => expected = {} /\ found = {} /\ ~renamed

LEMMA StepIdle == QueryVarsType /\ IdleInv /\ [QueryNext]_allVars => IdleInv'
  <1> SUFFICES ASSUME QueryVarsType, IdleInv, [QueryNext]_allVars PROVE IdleInv'
    OBVIOUS
  <1>1. CASE \E r \in Range : QueryList(r)
    BY <1>1 DEF QueryList, IdleInv
  <1>2. CASE \E f \in entries : QueryFile(f)
    BY <1>2 DEF QueryFile, IdleInv
  <1>3. CASE QueryReturn \/ (Crash /\ QueryOver)
    BY <1>3 DEF QueryReturn, QueryOver, IdleInv
  <1>4. CASE MergeStep
    <2>1. qpc' = qpc /\ expected' = expected /\ found' = found /\ (renamed' => qpc = "reading")
      BY <1>4 DEF MergeStep, NoteRename
    <2> QED
      BY <2>1 DEF IdleInv
  <1>5. CASE UNCHANGED queryVars
    BY <1>5 DEF queryVars, IdleInv
  <1> QED
    BY <1>1, <1>2, <1>3, <1>4, <1>5 DEF QueryNext, QueryStep, OthersStep, allVars

\* Every step is one of the tag's points, or none.
LEMMA StepTag ==
    ASSUME TypeOK, TypeOK', QueryVarsType, QueryVarsType', KeepInv, ReadInv, IdleInv,
           [QueryNext]_allVars
    PROVE  [Tag!Next]_(Tag!vars)
  <1>1. CASE ~Undamaged'
    <2>1. Tag!Damaged
      BY <1>1, DamagedStep
    <2> QED
      BY <2>1 DEF Tag!Next
  <1>2. CASE Undamaged'
    <2>0. /\ Undamaged /\ OutputInv /\ PresentInv /\ Whole
          /\ InputInv /\ FlushInv /\ StoredInv
      BY <1>2, QueryStepsAreSteps, FlagsStay DEF Undamaged, KeepInv, Whole
    <2>d. /\ (MinTs < 0 \/ reused \/ outputTaken \/ outputSpoilt) = FALSE
          /\ (MinTs < 0 \/ reused' \/ outputTaken' \/ outputSpoilt') = FALSE
      BY <1>2, <2>0, CompactionAssumption DEF Undamaged
    <2>1. ASSUME NEW r \in Range, QueryList(r) PROVE Tag!Next
      <3>1. /\ UNCHANGED <<content, stored, hidden, found, renamed, crashes>>
            /\ qpc = "idle" /\ qpc' = "reading" /\ expected' = Due(r)
        BY <2>1 DEF QueryList, vars, dirVars, history
      <3>2. Inside(r) \in SUBSET Ts
        BY DEF Inside
      <3>3. Tag!Ask(Inside(r))
        BY <2>d, <3>1 DEF Tag!Ask, Held, Due
      <3> QED
        BY <3>2, <3>3 DEF Tag!Next
    <2>2. ASSUME NEW f \in entries, QueryFile(f) PROVE Tag!Next
      <3>1. /\ UNCHANGED <<content, stored, hidden, expected, renamed, crashes, qpc>>
            /\ qpc = "reading" /\ found \subseteq found'
        BY <2>2 DEF QueryFile, ReadEntry, vars, dirVars, history
      <3>2. Tag!Find
        BY <2>d, <3>1 DEF Tag!Find, Held
      <3> QED
        BY <3>2 DEF Tag!Next
    <2>3. CASE QueryReturn
      <3>1. /\ UNCHANGED <<content, stored, hidden, crashes>> /\ qpc = "reading" /\ entries = {}
            /\ qpc' = "idle" /\ expected' = {} /\ found' = {} /\ renamed' = FALSE
        BY <2>3 DEF QueryReturn, QueryOver, vars, dirVars, history
      <3>2. renamed \/ expected \subseteq found
        BY <2>0, <3>1 DEF ReadInv, Undamaged
      <3>3. Tag!Answer
        BY <2>d, <3>1, <3>2 DEF Tag!Answer, Tag!NoQuery, Held
      <3> QED
        BY <3>3 DEF Tag!Next
    <2>4. CASE MergeStep
      <3>1. WorkerStep /\ UNCHANGED <<qpc, expected, found>>
        BY <2>4 DEF MergeStep, NoteRename
      <3>2. UNCHANGED <<stored, hidden, crashes>> /\ Held \subseteq Held'
        BY <1>2, <2>0, <3>1, WorkerLeaves, WorkerHolds DEF Undamaged
      <3>3. renamed' \in {renamed, qpc = "reading"}
        <4>1. renamed' = (qpc = "reading" /\ (renamed \/ (cpc = "renaming" /\ cpc' = "removing")))
          BY <2>4 DEF MergeStep, NoteRename
        <4>2. renamed \in BOOLEAN /\ (renamed => qpc = "reading")
          BY DEF QueryVarsType, IdleInv
        <4> QED
          BY <4>1, <4>2, Zenon
      <3>4. Tag!Merge
        BY <2>d, <3>1, <3>2, <3>3 DEF Tag!Merge
      <3> QED
        BY <3>4 DEF Tag!Next
    <2>5. ASSUME NEW S \in SUBSET Ts, NEW t \in S, FlushOpen(S, t), UNCHANGED queryVars
          PROVE  UNCHANGED Tag!vars
      <3>1. UNCHANGED <<stored, hidden, crashes, qpc, expected, found, renamed>>
        BY <2>5 DEF FlushOpen, queryVars, history
      <3>2. Held' = Held
        BY <1>2, <2>0, <2>5, OpenHolds DEF Undamaged
      <3> QED
        BY <2>d, <3>1, <3>2 DEF Tag!vars, Tag!query
    <2>6. CASE FlushClose /\ UNCHANGED queryVars
      <3>1. UNCHANGED <<crashes, qpc, expected, found, renamed>> /\ flushPts # {}
        BY <2>6 DEF FlushClose, queryVars
      <3>2. ASSUME NEW D \in SUBSET Ts, NEW s \in Ts \X Ts, FlushTo(D, s) PROVE Tag!Next
        <4>1. Held' = Held \union D
          BY <2>0, <3>1, <3>2, CloseHolds
        <4>2. /\ stored' = stored \union (flushPts \intersect D)
              /\ hidden \subseteq hidden' /\ flushPts \intersect D \in SUBSET Ts
          BY <3>2 DEF FlushTo
        <4>3. Tag!Store(flushPts \intersect D)
          BY <2>d, <3>1, <4>1, <4>2 DEF Tag!Store, Tag!query
        <4> QED
          BY <4>2, <4>3 DEF Tag!Next
      <3>3. ASSUME UNCHANGED <<dirVars, history>> PROVE UNCHANGED Tag!vars
        BY <2>d, <3>1, <3>3 DEF Tag!vars, Tag!query, Held, dirVars, history
      <3> QED
        BY <2>6, <3>2, <3>3, FlushWrites
    <2>7. CASE (Start \/ Stop \/ UNCHANGED vars) /\ UNCHANGED queryVars
      <3>1. UNCHANGED <<content, stored, hidden, crashes, qpc, expected, found, renamed>>
        BY <2>7 DEF Start, Stop, vars, dirVars, queryVars, history
      <3> QED
        BY <2>d, <3>1 DEF Tag!vars, Tag!query, Held
    <2>8. CASE Crash /\ QueryOver
      <3>1. /\ UNCHANGED <<content, stored, hidden>> /\ crashes' = crashes + 1
            /\ qpc' = "idle" /\ expected' = {} /\ found' = {} /\ renamed' = FALSE
        BY <2>8 DEF Crash, QueryOver, dirVars, history
      <3>2. Tag!Crash
        BY <2>d, <3>1 DEF Tag!Crash, Tag!NoQuery, Held
      <3> QED
        BY <3>2 DEF Tag!Next
    <2> QED
      BY <2>1, <2>2, <2>3, <2>4, <2>5, <2>6, <2>7, <2>8
      DEF QueryNext, QueryStep, OthersStep, allVars
  <1> QED
    BY <1>1, <1>2

\* To a reader, a directory that flushes, merges and queries share without a
\* lock is a set of timestamps that only grows.
THEOREM QueriesSeeTagPoints == QuerySpec => ImplementsTagPoints
  <1>1. QueryInit => Tag!Init /\ IdleInv
    <2> SUFFICES ASSUME QueryInit PROVE Tag!Init /\ IdleInv
      OBVIOUS
    <2>1. Held = {}
      BY DEF QueryInit, Init, Held
    <2>2. (MinTs < 0 \/ reused \/ outputTaken \/ outputSpoilt) \in BOOLEAN
      OBVIOUS
    <2>3. Tag!Init
      BY <2>1, <2>2 DEF QueryInit, Init, Tag!Init, Tag!NoQuery
    <2> QED
      BY <2>3 DEF QueryInit, IdleInv
  <1> QED
    BY <1>1, StepIdle, StepTag, ReadInvHolds, PTL DEF QuerySpec, ImplementsTagPoints, Tag!Spec
=============================================================================
