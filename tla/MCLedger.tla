------------------------------ MODULE MCLedger ------------------------------
(* LedgerSystem on small instances: users and request slots are symmetric. *)
EXTENDS LedgerSystem, TLC

MCSymmetry == Permutations(User) \cup Permutations(Request)
=============================================================================
