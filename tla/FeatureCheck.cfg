SPECIFICATION Spec
CONSTANTS
  r1 = r1
  r2 = r2
  r3 = r3
  None = None
  Runs = {r1, r2, r3}
  Ports = {p1, p2}
  Pid <- MCPid
  Candidate <- MCCandidate
  TwinFiles <- MCTwins
  Claims <- MCClaims
  Decorated <- MCDecorated
  Silent = {"c.hurl"}
  Lower <- MCLower
  PathOf <- MCPathOf
  NotAFeaturesOwn <- MCNotOwn
INVARIANTS CoveredIsProved NothingSlips EndsClean
PROPERTIES LiveSpared
CHECK_DEADLOCK FALSE
