-------------------------------- MODULE MCAuth --------------------------------
(***************************************************************************)
(* Names and passwords for the model-checking run of Auth.                 *)
(***************************************************************************)
EXTENDS Auth, TLC

TwoNames == {"admin", "engineer"}
TwoPasswords == {"admin123", "pass123"}

\* Handlers are interchangeable.
Symmetry == Permutations(Handler)
=============================================================================
