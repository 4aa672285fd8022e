SPECIFICATION Spec
CONSTANTS
  NoGoal = NoGoal
  Goals = {g1, g2}
  BusRaises = FALSE
CHECK_DEADLOCK FALSE
INVARIANTS
  GoalsAreSequential
