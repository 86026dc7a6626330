SPECIFICATION Spec
CONSTANTS
  Requests = {r1, r2, r3}
  Ids = {u1}
  Emails = {e1}
  Offered <- RowOffered
  Bodies <- RowBodies
  Null = Null
  Earlier = Earlier
SYMMETRY Symmetric
INVARIANTS ClaimWonOncePerActivation AnswerJustified DeleteIsFinal CreatedStaysFound
PROPERTIES OnlyNamedColumns ImplementsStore
