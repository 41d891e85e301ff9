---------------------------- MODULE MCAlarmEngine ----------------------------
(***************************************************************************)
(* The conditions for the runs of AlarmEngine: one that a high value meets,*)
(* one that a low value meets, one met by both, one that does not parse.   *)
(***************************************************************************)
EXTENDS AlarmEngine

Conditions == {[op |-> ">", threshold |-> 0], [op |-> "<=", threshold |-> 0],
               [op |-> "!=", threshold |-> 2], [op |-> "none", threshold |-> 0]}
=============================================================================
