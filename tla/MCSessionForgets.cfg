\* An opening, a role update and a turn over a saved session.
SPECIFICATION Spec
CONSTANTS
  t1 = t1
  t2 = t2
  a1 = a1
  a2 = a2
  u1 = u1
  c1 = c1
  Turns <- MCTurns
  Openers <- MCOpeners
  Updaters <- MCUpdaters
  Closers <- MCClosers
  Worlds <- RacingWorlds
  NoSession = NoSession
  NoLock = NoLock
  NoSnapshot = NoSnapshot
INVARIANT
  HistoryIsKept
CHECK_DEADLOCK FALSE
