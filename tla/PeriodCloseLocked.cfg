\* A posting that passed the gate before the lock.
SPECIFICATION CloseSpec
CONSTANTS
  Entries = {1, 2}
  Periods = {m12}
  YearEnd = m12
  Requests = {r1}
  Refs = {1}
  Users = {ann, bob}
  Closers = {c1, c2}
  Steps = {"recon", "depr", "review"}
  Required = {"recon", "review"}
  DependsOn <- MCDependsOn
  NoStep = "-"
  AutoSteps = {"recon", "depr"}
  SelfApproval = FALSE
SYMMETRY Symmetry
PROPERTY LockedRejectsPostings
