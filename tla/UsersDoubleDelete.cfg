SPECIFICATION Spec
CONSTANTS
  Requests = {r1, r2}
  Ids = {u1}
  Emails = {e1}
  Offered <- RowOffered
  Bodies <- RowBodies
  Null = Null
  Earlier = Earlier
SYMMETRY Symmetric
INVARIANTS OneDeleteSucceeds
