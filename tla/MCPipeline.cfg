\* Both retries and both delegations fit under the two slots' contention.
SPECIFICATION FairSpec
CONSTANTS
  r1 = r1
  r2 = r2
  d1 = d1
  d2 = d2
  lead = lead
  dev = dev
  LastPhase = 2
  Execs <- MCExecs
  Agents <- MCAgents
  Root <- MCRoot
  PhaseOf <- MCPhaseOf
  AgentOf <- MCAgentOf
  Gated <- MCGated
  Deadlines <- MCDeadlines
  MaxConcurrent = 2
  MaxRetries <- MCMaxRetries
  Limit = 2
  MaxCost = 1
  Threshold = 2
INVARIANTS
  OvershootBounded
  RootWorksInItsPhase
  OutcomesAreTrue
  ConsecutiveFailuresOpen
PROPERTY
  RunEnds
CHECK_DEADLOCK FALSE
