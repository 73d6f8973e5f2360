----------------------------- MODULE MCAmounts ------------------------------
(* Amounts with integers of 12 bits: 41 units are the first that wrap into *)
(* the accepted range.                                                     *)
EXTENDS Amounts

MCWhole == {-1, 0, 1, 9, 10, 20, 21, 40, 41, 42}
=============================================================================
