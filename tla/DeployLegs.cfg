SPECIFICATION Spec
CONSTANTS
  Legs = {p1, p2, p3}
  Builds = {b1, b2}
  Tokens = {b1, b2}
  TokenOf <- OwnToken
  Images = {good1, good2, bad}
  Healthy = {good1, good2}
  None = None
SYMMETRY Symmetric
INVARIANTS TypeOK CheckedIsWhatAnswered NamedMeansChecked LiveFollowsTag
PROPERTIES NoneMeansDown ChecksUndisturbed
