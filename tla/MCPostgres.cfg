\* Siblings, a chain of three, and rows under a parent of another namespace.
SPECIFICATION PgFairSpec
CONSTANTS
  t1 = t1
  t2 = t2
  t3 = t3
  far = far
  a1 = a1
  NoTask = NoTask
  NoAgent = NoAgent
  Tasks = {t1, t2, t3, far}
  Foreign = {far}
  Agents = {a1}
  Conns = {c1, c2}
  DepSets <- NoDeps
  Boards <- MCBoards
INVARIANTS
  WaitsAreSeen
  NothingOverwritten
PROPERTIES
  CompletionIsSerial
  EveryCompletionEnds
CHECK_DEADLOCK FALSE
