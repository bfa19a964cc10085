---------------------------- MODULE MCPeriodClose ----------------------------
(* Instances of PeriodClose for TLC. *)
EXTENDS PeriodClose, TLC

\* The review and the depreciation, which is ticked on evidence, wait for the
\* reconciliation.
MCDependsOn == [s \in Steps |-> IF s \in {"review", "depr"} THEN "recon" ELSE NoStep]

Symmetry == Permutations(Requests) \cup Permutations(Closers) \cup Permutations(Users)
=============================================================================
