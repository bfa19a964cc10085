\* Two jobs, two API processes, one fault.
SPECIFICATION FairSpec
CONSTANTS
  Jobs = {1, 2}
  Workers = {w1, w2}
  MaxAttempts <- MCMaxAttempts
  DrainMax = 2
  MaxFaults = 1
INVARIANTS
  TypeOK
  AttemptsBounded
  DeadOnlyWhenExhausted
  AttemptsAreExclusive
PROPERTIES
  ReopenedOnlyByStaleCopy
  KeepsTaskPool
  EventuallySettled
