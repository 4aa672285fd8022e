\* A turn may follow another, a restart, a role update or a close.
SPECIFICATION FairSpec
CONSTANTS
  t1 = t1
  t2 = t2
  a1 = a1
  a2 = a2
  u1 = u1
  c1 = c1
  Turns <- MCTurns
  Openers <- MCOpeners
  Updaters <- MCUpdaters
  Closers <- MCClosers
  Worlds <- MCWorlds
  NoSession = NoSession
  NoLock = NoLock
  NoSnapshot = NoSnapshot
INVARIANTS
  AcknowledgedIsRemembered
  TurnsAreSequential
PROPERTY
  EveryCallEnds
CHECK_DEADLOCK FALSE
