SPECIFICATION FairSpec
CONSTANTS
  Requests = {r1, r2, r3}
  Ids = {u1}
  PoolLimit = 2
  PageLimit = 1
  Skips = {0}
  MaxWrites = 2
INVARIANTS TypeOK SummariesGoForward
PROPERTIES SummaryJustified PageWithinTotal ReadsEnd
