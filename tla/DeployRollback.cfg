SPECIFICATION Spec
CONSTANTS
  Legs = {p1, p2}
  Builds = {b1}
  Tokens = {b1}
  TokenOf <- OwnToken
  Images = {good1, good2, bad}
  Healthy = {good1, good2}
  None = None
SYMMETRY Symmetric
INVARIANTS KeptImageKnownGood
