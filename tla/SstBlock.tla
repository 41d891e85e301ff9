------------------------------- MODULE SstBlock -------------------------------
(***************************************************************************)
(* A block of an SSTable: BlockCompressor of src/storage/compressor.cpp,   *)
(* and what SSTableWriter::AddBlock stores of a block and                  *)
(* SSTableReader::ReadRange makes of it.                                   *)
(*                                                                         *)
(* A buffer is a sequence of bits, in the order AppendBitToBuffer writes   *)
(* them (the lowest bit of a number first). The widths of the code are     *)
(* constants: 64 for a word, 7, 9, 12 and 32 for the four classes of       *)
(* delta-of-deltas, 6 for the counts of the XOR code, 32 for the length of *)
(* a string, 8 for a byte. A double and an int64 are their bit patterns.   *)
(*                                                                         *)
(* rb() << 1 | rb() in ValueEncoder::Decode is taken to read the left bit  *)
(* first. C++ leaves the order open; the encoder needs this one.           *)
(***************************************************************************)
EXTENDS FiniteSetsExt, Functions, Integers, Sequences

CONSTANTS
    Word, Classes, Wide,   \* 64, <<7, 9, 12>> and 32
    Count, Length, Byte,   \* 6, 32 and 8
    Ts, Value,             \* timestamps and values; a value has a kind and a v
    MaxPoints              \* bound

ASSUME SstBlockAssumption ==
    /\ Word \in Nat \ {0} /\ Classes \in Seq(Nat \ {0}) /\ Wide \in Nat \ {0}
    /\ Count \in Nat /\ 2 ^ Count = Word /\ Length \in Nat /\ Byte \in Nat \ {0} /\ Word % Byte = 0
    /\ \A t \in Ts : t \in Int /\ -(2 ^ (Word - 1)) <= t /\ t < 2 ^ (Word - 1)
    /\ \A v \in Value : v.kind \in {"double", "int"} => v.v \in 0 .. 2 ^ Word - 1
    /\ MaxPoints \in Nat

VARIABLES
    points,   \* the points given to Compress so far
    tsEnc,    \* ts_comp_: first_, prev_ts_, prev_delta_ and the buffer
    valEnc    \* enc: first_, prev_bits_, prev_int_, the buffer and string_data_

blockVars == <<points, tsEnc, valEnc>>

Point == [ts : Ts, val : Value]

-----------------------------------------------------------------------------
(* Bits *)

\* The n lowest bits of v, in two's complement if v is negative.
Bits(v, n) == [i \in 1 .. n |-> (v \div 2 ^ (i - 1)) % 2]

\* rb(): behind the end there are zeros.
Bit(data, i) == IF i <= Len(data) THEN data[i] ELSE 0

\* rbits(n) at position i
Read(data, i, n) ==
    LET sum[k \in 0 .. n] == IF k = 0 THEN 0 ELSE sum[k - 1] + Bit(data, i + k - 1) * 2 ^ (k - 1)
    IN  sum[n]

Signed(v, n) == IF v >= 2 ^ (n - 1) THEN v - 2 ^ n ELSE v

\* The buffer is a vector of bytes: the last one is filled up with zeros.
PadToWord(bs) == bs \o [i \in 1 .. (Word - (Len(bs) % Word)) % Word |-> 0]
Pad(bs) == bs \o [i \in 1 .. (Byte - (Len(bs) % Byte)) % Byte |-> 0]

Xor(v, w) == Read([i \in 1 .. Word |-> (Bits(v, Word)[i] + Bits(w, Word)[i]) % 2], 1, Word)

Ones(x) == {i \in 1 .. Word : Bits(x, Word)[i] = 1}
LeadingZeros(x) == Word - Max(Ones(x))
TrailingZeros(x) == Min(Ones(x)) - 1

-----------------------------------------------------------------------------
(* TimestampCompressor *)

\* The numbers of a class of n bits: -63 .. 64 for 7 bits.
Bias(n) == 2 ^ (n - 1) - 1
FitsOneMore(dd, n) == -Bias(n) <= dd /\ dd <= Bias(n) + 2
Fits(dd, n) == -Bias(n) <= dd /\ dd <= Bias(n) + 1

\* As many ones as the number of the class, and a zero unless it is the last.
Prefix(k) == [i \in 1 .. k |-> 1] \o <<0>>

TsCode(dd) ==
    LET fitting == {k \in DOMAIN Classes : Fits(dd, Classes[k])} IN
    IF dd = 0 THEN Prefix(0)
    ELSE IF fitting # {} THEN LET k == Min(fitting) IN
                              Prefix(k) \o Bits(dd + Bias(Classes[k]), Classes[k])
    ELSE [i \in 1 .. Len(Classes) + 1 |-> 1] \o Bits(dd, Wide)

\* What Decode reads at position i: a delta-of-delta and where the next one is.
TsCodeAt(data, i) ==
    LET zeros == {k \in 0 .. Len(Classes) : Bit(data, i + k) = 0}
        last == Len(Classes) + 1 IN
    IF zeros = {} THEN [dd |-> Signed(Read(data, i + last, Wide), Wide), next |-> i + last + Wide]
    ELSE LET k == Min(zeros) IN
         IF k = 0 THEN [dd |-> 0, next |-> i + 1]
         ELSE [dd |-> Read(data, i + k + 1, Classes[k]) - Bias(Classes[k]),
               next |-> i + k + 1 + Classes[k]]

NewTsEnc == [first |-> TRUE, prev |-> 0, delta |-> 0, bits |-> <<>>]

EncodeTs(enc, ts) ==
    IF enc.first
    THEN [first |-> FALSE, prev |-> ts, delta |-> 0, bits |-> Bits(ts, Word)]
    ELSE LET delta == ts - enc.prev IN
         [enc EXCEPT !.prev = ts, !.delta = delta, !.bits = @ \o TsCode(delta - enc.delta)]

\* A count of zero stands for "until the bytes are used up".
Limit(data, count) == IF count > 0 THEN count ELSE Len(data)

DecodeTs(data, count) ==
    LET rest[i \in Nat, prev \in Int, delta \in Int, left \in Nat] ==
            IF left = 0 \/ i > Len(data) THEN <<>>
            ELSE LET c == TsCodeAt(data, i)
                     d == delta + c.dd IN
                 <<prev + d>> \o rest[c.next, prev + d, d, left - 1]
        first == Signed(Read(data, 1, Word), Word)
    IN  IF data = <<>> THEN <<>>
        ELSE <<first>> \o rest[Word + 1, first, 0, Limit(data, count) - 1]

-----------------------------------------------------------------------------
(* ValueEncoder *)

NewValEnc == [first |-> TRUE, double |-> 0, int |-> 0, bits |-> <<>>, strings |-> <<>>]

TypeTag(kind) == CASE kind = "double" -> <<0, 0>> [] kind = "int" -> <<0, 1>> [] kind = "string" -> <<1, 0>>

\* A word that differs from the previous one of its type in x: the leading
\* zeros and the number of meaningful bits, Word written as 0, then those bits.
XorCodeShort(x) ==
    IF x = 0 THEN <<0>>
    ELSE LET lead == LeadingZeros(x) trail == TrailingZeros(x) m == Word - lead - trail IN
         <<1>> \o Bits(lead, Count) \o Bits(m, Count) \o Bits(x \div 2 ^ trail, m - 1)

XorCode(x) ==
    IF x = 0 THEN <<0>>
    ELSE LET lead == LeadingZeros(x) trail == TrailingZeros(x) m == Word - lead - trail IN
         <<1>> \o Bits(lead, Count) \o Bits(IF m = Word THEN 0 ELSE m, Count)
               \o Bits(x \div 2 ^ trail, m)

EncodeValue(enc, val) ==
    IF val.kind = "string"
    THEN [enc EXCEPT !.first = FALSE, !.strings = @ \o val.v,
                     !.bits = @ \o TypeTag("string") \o Bits(Len(val.v), Length)]
    ELSE LET code == IF enc.first THEN Bits(val.v, Word) ELSE XorCode(Xor(val.v, enc[val.kind])) IN
         [enc EXCEPT !.first = FALSE, ![val.kind] = val.v, !.bits = @ \o TypeTag(val.kind) \o code]

\* The difference Decode reads behind the flag bit at position i.
XorCodeAt(data, i) ==
    LET lead == Read(data, i, Count)
        m == IF Read(data, i + Count, Count) = 0 THEN Word ELSE Read(data, i + Count, Count)
        x == Read(data, i + 2 * Count, m) IN
    [x |-> IF m = Word THEN x ELSE x * 2 ^ (Word - lead - m), next |-> i + 2 * Count + m]

\* One value at position i, with the previous words prev and the strings from off on.
ValueAt(data, strings, i, first, prev, off) ==
    LET kind == IF Bit(data, i) = 1 THEN "string" ELSE IF Bit(data, i + 1) = 1 THEN "int" ELSE "double"
        len == Read(data, i + 2, Length)
        code == XorCodeAt(data, i + 3)
        word(v, next) == [val |-> [kind |-> kind, v |-> v], next |-> next,
                          prev |-> [prev EXCEPT ![kind] = v], off |-> off] IN
    IF kind = "string"
    THEN [val |-> [kind |-> kind, v |-> IF off + len <= Len(strings)
                                        THEN SubSeq(strings, off + 1, off + len) ELSE <<>>],
          next |-> i + 2 + Length, prev |-> prev, off |-> off + len]
    ELSE IF first THEN word(Read(data, i + 2, Word), i + 2 + Word)
    ELSE IF Bit(data, i + 2) = 0 THEN word(prev[kind], i + 3)
    ELSE word(Xor(prev[kind], code.x), code.next)

DecodeValues(data, strings, count) ==
    LET rest[st \in [i : Nat, first : BOOLEAN, prev : [{"double", "int"} -> Int], off : Nat], left \in Nat] ==
            IF left = 0 \/ st.i > Len(data) THEN <<>>
            ELSE LET a == ValueAt(data, strings, st.i, st.first, st.prev, st.off) IN
                 <<a.val>> \o rest[[i |-> a.next, first |-> FALSE, prev |-> a.prev, off |-> a.off], left - 1]
    IN  rest[[i |-> 1, first |-> TRUE, prev |-> [k \in {"double", "int"} |-> 0], off |-> 0],
             Limit(data, count)]

-----------------------------------------------------------------------------
(* BlockCompressor, and the block in a file *)

BlockInit ==
    /\ points = <<>>
    /\ tsEnc = NewTsEnc
    /\ valEnc = NewValEnc

\* One round of Compress's loop.
AddPoint(p) ==
    /\ Len(points) < MaxPoints
    /\ points' = Append(points, p)
    /\ tsEnc' = EncodeTs(tsEnc, p.ts)
    /\ valEnc' = EncodeValue(valEnc, p.val)

\* The next call of Compress: Reset of ts_comp_, which the calls share, and a
\* new ValueEncoder.
NewBlock ==
    /\ points # <<>>
    /\ points' = <<>>
    /\ tsEnc' = NewTsEnc
    /\ valEnc' = NewValEnc

BlockNext == NewBlock \/ \E p \in Point : AddPoint(p)

BlockSpec == BlockInit /\ [][BlockNext]_blockVars

\* What Compress returns. The range is the first and the last timestamp in the
\* order the points came, not the least and the greatest.
Block == [start |-> points[1].ts, end |-> points[Len(points)].ts,
          timestamps |-> Pad(tsEnc.bits), values |-> Pad(valEnc.bits),
          strings |-> valEnc.strings, count |-> Len(points)]

Decompress(block) ==
    LET ts == DecodeTs(block.timestamps, block.count)
        vs == DecodeValues(block.values, block.strings, block.count)
    IN  [i \in 1 .. Min({Len(ts), Len(vs)}) |-> [ts |-> ts[i], val |-> vs[i]]]

\* AddBlock writes neither point_count nor string_data, and ReadRange hands
\* Decompress a block whose point_count is 0 and whose string_data is empty.
Stored(block) == [block EXCEPT !.strings = <<>>, !.count = 0]

OverlapsStrictly(block, a, b) == block.start < b /\ a < block.end
Overlaps(block, a, b) == block.start <= b /\ a <= block.end

ReadRange(block, a, b) ==
    IF Overlaps(block, a, b)
    THEN SelectSeq(Decompress(block), LAMBDA p : a <= p.ts /\ p.ts <= b)
    ELSE <<>>

-----------------------------------------------------------------------------
(* Properties *)

\* Every entry of the buffers is a bit, however large, negative or odd the
\* number written: AppendBitsToBuffer masks what it shifts.
TypeOK ==
    /\ points \in Seq(Point) /\ Len(points) <= MaxPoints
    /\ tsEnc.first = (points = <<>>) /\ valEnc.first = (points = <<>>)
    /\ \A buffer \in {tsEnc.bits, valEnc.bits} : \A i \in DOMAIN buffer : buffer[i] \in {0, 1}

\* The second differences of the timestamps, the first delta counting from 0.
Delta(i) == points[i].ts - points[i - 1].ts
DeltaOfDelta(i) == Delta(i) - (IF i = 2 THEN 0 ELSE Delta(i - 1))

\* The last branch of TimestampCompressor::Encode writes the low 32 bits.
AllFit == \A i \in 2 .. Len(points) : DeltaOfDelta(i) \in -(2 ^ (Wide - 1)) .. 2 ^ (Wide - 1) - 1

\* The same point, or the same but for the text of a string.
SameButString(p, q) == p.ts = q.ts /\ p.val.kind = q.val.kind /\ (p.val.kind # "string" => p = q)
Sorted == \A i \in 2 .. Len(points) : points[i - 1].ts <= points[i].ts

\* Decompress, given the block Compress returned, count and strings included,
\* restores every point of any mixture of types, in order, as long as no
\* delta-of-delta is wider than the last class. In particular a second block
\* compressed by the same object does not depend on the first.
RoundTrip == points # <<>> /\ AllFit => Decompress(Block) = points

\* What comes back from a file begins with the points that went in, each in its
\* place with its timestamp and, if that is a number, its value, whatever
\* strings stand between them. (Of the strings themselves nothing is said here:
\* see NothingLostInFile.)
ReadBackKeepsNumbers ==
    points # <<>> /\ AllFit =>
        LET read == Decompress(Stored(Block)) IN
        /\ Len(read) >= Len(points)
        /\ \A i \in DOMAIN points : SameButString(read[i], points[i])

\* The scenario "Decompress yields identical data" of the specification of the
\* compression, "all original DataPoint values SHALL be recovered with zero
\* loss", for the block that ReadRange decompresses: what comes back begins with
\* the points that went in. It does not hold: AddBlock does not write the
\* strings.
NothingLostInFile ==
    points # <<>> /\ AllFit =>
        LET read == Decompress(Stored(Block)) IN
        \A i \in DOMAIN points : i \in DOMAIN read /\ read[i] = points[i]

\* Without the count the decoders run on into the bits that fill up the last
\* bytes, and every three zeros there are another point: at most three, all
\* doubles, at the distance of the last two points from each other.
ReadBackAddsLittle ==
    points # <<>> /\ AllFit =>
        LET read == Decompress(Stored(Block))
            n == Len(points)
            delta == IF n = 1 THEN 0 ELSE Delta(n) IN
        /\ Len(read) <= n + 3
        /\ \A i \in n + 1 .. Len(read) :
               /\ read[i].ts = read[i - 1].ts + delta
               /\ read[i].val = [kind |-> "double", v |-> valEnc.double]

\* A query over any range finds every stored point inside it, also at its two
\* ends, with its value if that is a number, if the points were compressed in
\* the order of their timestamps.
ReadRangeFinds ==
    points # <<>> /\ AllFit /\ Sorted =>
        \A a, b \in Ts :
            LET found == ReadRange(Stored(Block), a, b) IN
            \A p \in Range(points) :
                a <= p.ts /\ p.ts <= b => \E q \in Range(found) : SameButString(q, p)
=============================================================================
