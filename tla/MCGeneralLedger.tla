--------------------------- MODULE MCGeneralLedger ---------------------------
(* Instances of GeneralLedger for TLC. *)
EXTENDS GeneralLedger, TLC

Symmetry == Permutations(Requests)
=============================================================================
