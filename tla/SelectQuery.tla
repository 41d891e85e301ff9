----------------------------- MODULE SelectQuery -----------------------------
(***************************************************************************)
(* A SELECT from its text to its rows: SQLParser, Executor::ExecuteSelect  *)
(* and its paths of src/sql/executor.cpp, and ReadAggregated of            *)
(* src/storage/engine.cpp on the points that ReadRaw has returned.         *)
(*                                                                         *)
(* Times are the numbers the points carry, which are microseconds. The     *)
(* width of a bucket is the number that the executor computes, which is    *)
(* that of its milliseconds, and ReadAggregated divides the one by the     *)
(* other without a conversion: a bucket of '5m' holds 300000 us, or 0.3 s. *)
(* Doubles are integers without rounding, and a quotient is the pair of    *)
(* its terms. A digit or a letter of a bucket is an atom of its own.       *)
(***************************************************************************)
EXTENDS SqlParser

CONSTANTS
    Query,     \* texts, with the function (agg) and the width (size) they ask for
    RawPoints  \* sequences of points that ReadRaw may return

ASSUME SelectQueryAssumption ==
    \A raw \in RawPoints : \A i \in 2 .. Len(raw) : raw[i - 1].ts < raw[i].ts

-----------------------------------------------------------------------------
(* ExecuteSelectAggregate: the bucket and the function *)

Digit == [d \in {"0", "1", "2", "5", "9"} |->
             CASE d = "0" -> 0 [] d = "1" -> 1 [] d = "2" -> 2 [] d = "5" -> 5 [] d = "9" -> 9]
UnitMs == [u \in {"s", "m", "h", "d"} |->
             CASE u = "s" -> 1000 [] u = "m" -> 60000 [] u = "h" -> 3600000 [] u = "d" -> 86400000]
OtherLetter == {"x"}
DefaultMs == 300000

\* The digits anywhere in the bucket make a number, its last character is the
\* unit. What has no digits or no unit, or is zero, is 300000.
BucketMs(bucket) ==
    LET digits == SelectSeq(bucket, LAMBDA c : c \in DOMAIN Digit)
        val == FoldLeft(LAMBDA n, c : 10 * n + Digit[c], 0, digits)
        unit == At(bucket, Len(bucket))
        ms == CASE digits = <<>> \/ unit \notin DOMAIN UnitMs \union OtherLetter -> DefaultMs
                [] digits # <<>> /\ unit \in DOMAIN UnitMs -> val * UnitMs[unit]
                [] digits # <<>> /\ unit \in OtherLetter -> val
    IN  IF ms <= 0 THEN DefaultMs ELSE ms

\* The function of the first column that has one.
AggType(columns) ==
    LET aggs == SelectSeq(columns, LAMBDA c : c.aggregate /\ c.agg # "NONE") IN
    IF aggs = <<>> THEN "AVG" ELSE aggs[1].agg

-----------------------------------------------------------------------------
(* ReadAggregated *)

\* The time, in microseconds, by the size, in milliseconds; C++ division rounds
\* towards zero.
BucketTsFloor(ts, size) == (ts \div size) * size
BucketTs(ts, size) == IF ts >= 0 THEN (ts \div size) * size ELSE -((-ts) \div size) * size

\* Only doubles count; any other value is taken for 0.
Val(p) == IF p.double THEN p.v ELSE 0

NewBucket == [ts |-> 0, count |-> 0, sum |-> 0, sumSq |-> 0, max |-> 0, min |-> 0, first |-> 0, last |-> 0]

AddFromZero(b, p, size) ==
    LET v == Val(p) IN
    [ts |-> BucketTs(p.ts, size), count |-> b.count + 1, sum |-> b.sum + v, sumSq |-> b.sumSq + v * v,
     max |-> Max({b.max, v}), min |-> Min({b.min, v}),
     first |-> IF b.count = 0 THEN v ELSE b.first, last |-> v]

\* One round of the loop, on the bucket the point falls into.
Add(b, p, size) ==
    LET v == Val(p)
        fresh == b.count = 0 IN
    [ts |-> BucketTs(p.ts, size), count |-> b.count + 1, sum |-> b.sum + v, sumSq |-> b.sumSq + v * v,
     max |-> IF fresh \/ v > b.max THEN v ELSE b.max,
     min |-> IF fresh \/ v < b.min THEN v ELSE b.min,
     first |-> IF fresh THEN v ELSE b.first, last |-> v]

\* The buckets, by the order of their times.
ReadAggregated(raw, size) ==
    LET keys == {BucketTs(raw[i].ts, size) : i \in DOMAIN raw}
        buckets == FoldLeft(LAMBDA bs, p : [bs EXCEPT ![BucketTs(p.ts, size)] = Add(@, p, size)],
                            [k \in keys |-> NewBucket], raw)
    IN  [i \in 1 .. Cardinality(keys) |-> buckets[SetToSortSeq(keys, <)[i]]]

\* The value of a row.
Shown(b, agg) ==
    CASE agg = "AVG" -> <<b.sum, b.count>>
      [] agg = "MAX" -> b.max
      [] agg = "MIN" -> b.min
      [] agg = "SUM" -> b.sum
      [] agg = "COUNT" -> b.count
      [] agg = "FIRST" -> b.first
      [] agg = "LAST" -> b.last
      [] agg = "STDDEV" ->   \* its square
             IF b.count > 1 THEN <<b.sumSq * b.count - b.sum * b.sum, b.count * b.count>> ELSE <<0, 1>>

-----------------------------------------------------------------------------
\* The path a statement takes, and its rows where they come from the files.
ExecuteSelect(stmt, raw) ==
    LET agg == AggType(stmt.columns)
        buckets == ReadAggregated(raw, BucketMs(stmt.group[1])) IN
    CASE ToUpper(stmt.table) = <<"SNAPSHOT">> -> [kind |-> "snapshot"]
      [] ToUpper(stmt.table) # <<"SNAPSHOT">> /\ stmt.latest -> [kind |-> "latest"]
      [] OTHER -> IF stmt.group = <<>> THEN [kind |-> "raw", rows |-> raw]
                  ELSE [kind |-> "rows", rows |-> [i \in DOMAIN buckets |->
                            [bucket |-> buckets[i].ts, value |-> Shown(buckets[i], agg)]]]

QueryInit ==
    \/ Init
    \/ /\ \E q \in Query, raw \in RawPoints :
             input = [kind |-> "query", text |-> q.text, agg |-> q.agg, size |-> q.size, raw |-> raw]
       /\ result = NotYet

RunQuery ==
    /\ input.kind = "query" /\ result = NotYet
    /\ result' = ExecuteSelect(Parse(input.text), input.raw)
    /\ UNCHANGED input

QueryNext == Next \/ RunQuery

QuerySpec == QueryInit /\ [][QueryNext]_vars

-----------------------------------------------------------------------------
(* Properties *)

Equal(q, r) == q[1] * r[2] = r[1] * q[2]

\* v is what agg is of the points ps: for a spread, the mean of the squared
\* distances from the mean.
IsAggregate(v, agg, ps) ==
    LET n == Cardinality(ps)
        Total(Op(_)) == FoldSet(LAMBDA p, acc : acc + Op(p), 0, ps)
        sum == Total(Val)
        Spread(p) == (n * Val(p) - sum) * (n * Val(p) - sum)
    IN  CASE agg = "COUNT" -> v = n
          [] agg = "SUM" -> v = sum
          [] agg = "AVG" -> Equal(v, <<sum, n>>)
          [] agg = "STDDEV" -> Equal(v, <<Total(Spread), n * n * n>>)
          [] agg = "MAX" -> v = Max({Val(p) : p \in ps})
          [] agg = "MIN" -> v = Min({Val(p) : p \in ps})
          [] agg = "FIRST" -> \E p \in ps : v = Val(p) /\ \A q \in ps : p.ts <= q.ts
          [] agg = "LAST" -> \E p \in ps : v = Val(p) /\ \A q \in ps : p.ts >= q.ts

\* An aggregate query has one row for each stretch of timestamps that holds a
\* point, in the order of time, and the row has the function the query asks for
\* of exactly the points inside: no point is counted twice or left out at the
\* border of two. A stretch is as many microseconds long as the bucket has
\* milliseconds, a thousandth of what '5m' says. (The one at 0 reaches to both
\* sides, and before it the stretches open to the left.)
RowsAreAggregates ==
    (result # NotYet /\ input.kind = "query") =>
        LET rows == result.rows
            Inside(b) == {p \in Range(input.raw) :
                            IF p.ts >= 0 THEN b <= p.ts /\ p.ts < b + input.size
                                         ELSE b - input.size < p.ts /\ p.ts <= b}
        IN  /\ result.kind = "rows"
            /\ \A i \in 2 .. Len(rows) : rows[i - 1].bucket < rows[i].bucket
            /\ \A i \in DOMAIN rows : /\ rows[i].bucket % input.size = 0
                                      /\ Inside(rows[i].bucket) # {}
                                      /\ IsAggregate(rows[i].value, input.agg, Inside(rows[i].bucket))
            /\ Range(input.raw) = UNION {Inside(rows[i].bucket) : i \in DOMAIN rows}
=============================================================================
