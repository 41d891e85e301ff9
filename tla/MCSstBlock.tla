----------------------------- MODULE MCSstBlock -----------------------------
(* Scaled widths: one number on each side of every class of delta-of-deltas,  *)
(* words that agree, that differ in one bit and that differ in every bit.     *)
EXTENDS SstBlock

MCClasses == <<3, 4, 5>>
MCTs == {0, 4, 5, 13, 140}
MCValue == [kind : {"double"}, v : {0, 1, 65535}] \cup [kind : {"int"}, v : {6}]
           \cup [kind : {"string"}, v : {<<"x">>}]
=============================================================================
