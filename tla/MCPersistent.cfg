SPECIFICATION FairSpec
CONSTANTS
  NoGoal = NoGoal
  Goals = {g1, g2}
  BusRaises = TRUE
CHECK_DEADLOCK FALSE
INVARIANTS
  OneLoopPerGoal
  ProcessingHasLoop
  QueueHoldsQueued
  LiveRootIsAwaited
PROPERTIES
  NoGoalForgotten
  EveryGoalSettles
  ShutdownEnds
