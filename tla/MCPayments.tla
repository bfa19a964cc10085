----------------------------- MODULE MCPayments -----------------------------
(* Instances of Payments for TLC: see Payments.cfg. *)
EXTENDS Payments, TLC

\* No liveness is checked, so the ids may be interchanged.
Symmetry == Permutations(Requests) \cup Permutations(Pays) \cup Permutations(Asks)
=============================================================================
