--------------------------- MODULE MCStorageEngine ---------------------------
(***************************************************************************)
(* Points for the model-checking runs of StorageEngine.                    *)
(***************************************************************************)
EXTENDS StorageEngine

P(t, s, v) == [tag |-> t, ts |-> s, val |-> v]

\* One tag, three points: with a threshold of two, one full buffer and a rest.
OneTag == {P("t1", 1, "a"), P("t1", 2, "a"), P("t1", 3, "a")}

\* One tag, two points: one buffer that a second write fills.
Pair == {P("t1", 1, "a"), P("t1", 2, "a")}

\* A pair and a point with a string.
Strings == {P("t1", 3, "text")}
PairAndString == Pair \union Strings

\* Two tags, so that Close has two buffers to flush.
TwoTags == {P("t1", 1, "a"), P("t1", 2, "a"), P("t2", 1, "a")}
=============================================================================
