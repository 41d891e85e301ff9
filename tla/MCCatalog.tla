----------------------------- MODULE MCCatalog -----------------------------
(* One table, two tags, three batches (a good row, two rows of which the     *)
(* second may be the one that fails, and rows without a tag or a value) and  *)
(* a list of tags that ends with a name that is not valid; UPDATE for one tag. *)
EXTENDS Catalog

CONSTANTS h1, h2

R(g, ts, v) == [tag |-> g, ts |-> ts, value |-> v]
MCBatch == {<<R("x", 1, "a")>>, <<R("x", 2, "a"), R("y", 1, "a")>>,
            <<R(NoTag, 1, "a"), R("y", 1, NoValue), R("x", 1, "b")>>}
MCTagList == {<<"x", "y", "-z">>}
MCNewPoint == {R("x", 2, "b")}
MCSymmetry == Permutations(Handler)
============================================================================
