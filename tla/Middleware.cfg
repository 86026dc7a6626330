SPECIFICATION Spec
CONSTANTS
  Requests = {r1, r2}
  Users = {u1}
  Contents = {c1}
  Ids = {i1, i2}
  Missing = Missing
  Down = Down
  Alive = Alive
  Star = Star
  Malformed = Malformed
  None = None
  SentIds = {i1, None}
  Asks <- AllAsks
SYMMETRY Symmetric
INVARIANTS TypeOK RepresentationCurrent StatsCountRequests LogTellsOutcome
