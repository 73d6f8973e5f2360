------------------------------- MODULE MCAuth -------------------------------
(* AuthSystem on a small instance: two spellings of one address, and a     *)
(* password that the policy refuses.                                       *)
EXTENDS AuthSystem, TLC

MCNormal(s) == IF s = "Ann@x" THEN "ann@x" ELSE s

MCSymmetry == Permutations(Request)
=============================================================================
