\* Two audit writes queue for the same last row.
SPECIFICATION Spec
CONSTANTS
  Requests = {q1, q2, q3}
  Tenants = {t1}
  NoTenant = none
  NoRow = null
SYMMETRY Symmetry
INVARIANT ChainCannotFork
CHECK_DEADLOCK FALSE
