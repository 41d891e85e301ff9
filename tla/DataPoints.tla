------------------------------ MODULE DataPoints ------------------------------
(***************************************************************************)
(* The data points of src/common/types.h that the storage modules share.   *)
(***************************************************************************)
EXTENDS Integers

CONSTANT Point   \* the points clients may write: records with fields tag, ts, val

ASSUME PointAssumption ==
    /\ Point # {}
    /\ \A p \in Point : p = [tag |-> p.tag, ts |-> p.ts, val |-> p.val] /\ p.ts \in Nat

Tag == {p.tag : p \in Point}
Ts == {p.ts : p \in Point}

\* No two points of a tag share a timestamp.
DistinctTs == \A p, q \in Point : p.tag = q.tag /\ p.ts = q.ts => p = q
=============================================================================
