\* Four audited requests over the chain of one tenant and the chain of none.
SPECIFICATION FairSpec
CONSTANTS
  Requests = {q1, q2, q3, q4}
  Tenants = {t1}
  NoTenant = none
  NoRow = null
INVARIANTS
  TypeOK
  EveryRowLinked
  WalkAcceptsLinear
  VerdictWhenQuiet
PROPERTY
  EventuallyAudited
CHECK_DEADLOCK FALSE
