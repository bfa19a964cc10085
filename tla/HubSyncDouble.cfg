\* One sale, one that cannot be replayed, a waste sheet; two overlapping pushes, no fault.
SPECIFICATION Spec
CONSTANTS
  Sales = {1, 2}
  Papers = {3}
  Tills = {}
  TillSales <- MCTillSales
  Number <- MCNumber
  Shared = {}
  Unsupported = {2}
  Unsegregated = {}
  Refused = {}
  Pushers = {p1, p2}
  Requests = {1, 2}
  Nobody = nobody
  MaxFaults = 0
INVARIANT SaleBookedOnce
