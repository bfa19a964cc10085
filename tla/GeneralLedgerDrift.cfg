\* Two requests approve one draft: is its amount in the snapshot once?
SPECIFICATION Spec
CONSTANTS
  Entries = {1}
  Periods = {m12}
  YearEnd = m12
  Requests = {r1, r2}
  Refs = {1}
SYMMETRY Symmetry
INVARIANT SnapshotCannotDrift
