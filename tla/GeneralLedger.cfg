\* Two entries, two months, two requests in flight.
SPECIFICATION Spec
CONSTANTS
  Entries = {1, 2}
  Periods = {m11, m12}
  YearEnd = m12
  Requests = {r1, r2}
  Refs = {1}
SYMMETRY Symmetry
INVARIANTS
  TypeOK
  SnapshotFollowsAudit
  OneEntryPerKey
  ReversedExactlyOnce
  ApprovalsBounded
PROPERTIES
  PostedIsFinal
  KeepsJournal
