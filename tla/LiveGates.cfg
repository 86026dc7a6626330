SPECIFICATION GatesSpec
CONSTANTS
  before = before
  after = after
  t1 = t1
  Images = {before, after}
  HeadOf <- MCHead
  None = None
  MaxLives = 2
  MaxServed = 6
  Twins = {t1}
  MaxGates = 2
INVARIANTS SchemaWhole OneSource
CHECK_DEADLOCK FALSE
