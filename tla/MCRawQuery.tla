------------------------------ MODULE MCRawQuery ------------------------------
(***************************************************************************)
(* Model-checking instance of RawQuery.                                    *)
(***************************************************************************)
EXTENDS RawQuery

One == 1
Blocks == {<<{}, <<MinTs, MinTs>>>>, <<Ts, <<MaxTs, MinTs>>>>}
Ranges == {<<MinTs, MaxTs>>, <<MaxTs, MaxTs>>}
=============================================================================
