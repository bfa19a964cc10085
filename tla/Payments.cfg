\* Two requests at once and five in all, two payments of 3, threshold 2.
SPECIFICATION Spec
CONSTANTS
  Requests = {r1, r2}
  Pays = {p1, p2}
  Keys = {k1}
  Asks = {a1, a2}
  None = none
  Amount = 3
  Threshold = 2
  MaxTip = 1
  MaxBegun = 5
SYMMETRY Symmetry
INVARIANTS
  TypeOK
  OneTenderPerKey
  RefundsWithinPayment
  RefundsNeedReceipt
  PendingWithinPayment
  TipChargedUnlessUntaken
  UnapprovedBounded
  ApprovalRunsBounded
PROPERTIES
  CapturedVoidedOnlyByStaleRead
CHECK_DEADLOCK FALSE
