SPECIFICATION FairSpec
CONSTANTS
  Requests = {r1, r2}
  Ids = {u1, u2}
  Emails = {e1, e2}
  Offered <- LiveOffered
  Bodies <- LiveBodies
  Null = Null
  Earlier = Earlier
INVARIANTS TypeOK EmailUnique
PROPERTIES EveryRequestEnds
