SPECIFICATION Spec
CONSTANTS
  t1 = t1
  t2 = t2
  t3 = t3
  r1 = r1
  r2 = r2
  NoTask = NoTask
  NoAgent = NoAgent
  NoRun = NoRun
  Tasks = {t1, t2, t3}
  Agents = {a1}
  Runs = {r1, r2}
  RootTask <- TwoRoots
  MaxConcurrent = 2
  MaxRetries <- RootsOnce
  LateFaulty = {t3}
SYMMETRY SwapRuns
CHECK_DEADLOCK FALSE
INVARIANTS
  TypeOK
  SlotsConserved
  NoEscapedExecution
  CompletedIsDone
  EndedIsSettled
  ResultMeansCompleted
PROPERTIES
  CompletedIsFinal
  ImplementsPool
