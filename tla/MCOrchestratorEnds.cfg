SPECIFICATION FairSpec
CONSTANTS
  t1 = t1
  t2 = t2
  t3 = t3
  r1 = r1
  r2 = r2
  NoTask = NoTask
  NoAgent = NoAgent
  NoRun = NoRun
  Tasks = {t1, t2}
  Agents = {a1}
  Runs = {r1}
  RootTask <- OneRoot
  MaxConcurrent = 1
  MaxRetries <- RootsOnce
  LateFaulty = {t2}
CHECK_DEADLOCK FALSE
PROPERTIES
  EveryExecutionEnds
