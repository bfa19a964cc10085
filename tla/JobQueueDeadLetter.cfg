\* The comment on dead letters against what late writers do.
SPECIFICATION Spec
CONSTANTS
  Jobs = {1}
  Workers = {w1, w2}
  MaxAttempts <- MCMaxAttempts
  DrainMax = 2
  MaxFaults = 0
PROPERTY
  DeadLetterIsFinal
