\* A sale, a count sheet its counter posted, two tills: the second gets the number of the
\* first once a backup was restored.  The cloud may issue it as well.
SPECIFICATION Spec
CONSTANTS
  Sales = {1}
  Papers = {3}
  Tills = {4, 5}
  TillSales <- MCTillSales
  Number <- MCNumber
  Shared = {4}
  Unsupported = {}
  Unsegregated = {3}
  Refused = {}
  Pushers = {p1}
  Requests = {1}
  Nobody = nobody
  MaxFaults = 1
INVARIANT NeverSilentlyDropped
