------------------------------- MODULE MCLedger --------------------------------
(* Instances of Ledger for TLC. *)
EXTENDS Ledger, TLC
(* A call without usage, one too small for its tokens to count, and one of a        *)
(* thousand tokens.                                                          *)
SomeUsages == {<<0, 0>>, <<400, 0>>, <<1000, 0>>}
ProcSymmetry == Permutations(Procs)
================================================================================
