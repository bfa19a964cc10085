\* Two sales, one of which the pusher skips, a waste sheet the cloud refuses, a till over
\* the first sale whose number the cloud may issue as well; two overlapping pushes; one fault.
SPECIFICATION FairSpec
CONSTANTS
  Sales = {1, 2}
  Papers = {3}
  Tills = {4}
  TillSales <- MCTillSales
  Number <- MCNumber
  Shared = {4}
  Unsupported = {2}
  Unsegregated = {}
  Refused = {3}
  Pushers = {p1, p2}
  Requests = {1, 2}
  Nobody = nobody
  MaxFaults = 1
INVARIANTS
  TypeOK
  TickedNumberIsHeld
  TillsCoverTheirSales
  BookedAgainOnlyByOverlap
PROPERTIES
  KeepsPromise
  EventuallyReplayed
