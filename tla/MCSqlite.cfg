SPECIFICATION SqlSpec
CONSTANTS
  t1 = t1
  t2 = t2
  a1 = a1
  a2 = a2
  c1 = c1
  c2 = c2
  NoTask = NoTask
  NoAgent = NoAgent
  Tasks = {t1, t2}
  Agents = {a1, a2}
  Conns = {c1, c2}
  DepSets <- NoDeps
SYMMETRY RowSymmetry
CHECK_DEADLOCK FALSE
INVARIANTS
  CheckoutAgreesWithStatus
PROPERTIES
  CompletionSettlesParents
  NoStolenCheckout
  RowsArePermanent
