---------------------------- MODULE MCFunctions ----------------------------
(***************************************************************************)
(* The two parts of the program that no thread, file or clock interferes   *)
(* with, side by side: each behavior either compresses points, as          *)
(* MCSstBlock has them, or takes one text or query of MCSelectQuery.       *)
(***************************************************************************)
EXTENDS MCSelectQuery, MCSstBlock

NoText == [kind |-> "none"]

FunctionsInit ==
    /\ BlockInit
    /\ QueryInit \/ (input = NoText /\ result = NotYet)

FunctionsNext ==
    \/ QueryNext /\ UNCHANGED blockVars
    \/ input = NoText /\ BlockNext /\ UNCHANGED vars

FunctionsSpec == FunctionsInit /\ [][FunctionsNext]_<<vars, blockVars>>
=============================================================================
