SPECIFICATION Spec
CONSTANTS
  t1 = t1
  t2 = t2
  t3 = t3
  a1 = a1
  NoTask = NoTask
  NoAgent = NoAgent
  Tasks = {t1, t2, t3}
  Agents = {a1}
  DepSets <- SmallDeps
SYMMETRY TaskSymmetry
CHECK_DEADLOCK FALSE
INVARIANTS
  TypeOK
  ParentsAcyclic
  CheckoutAgreesWithStatus
  FullIsDone
PROPERTIES
  CompletionSettlesParents
  OnlyFinishedParentsFollow
  DoneIsFinal
  ReadyStaysReady
