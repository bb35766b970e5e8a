\* Three connections: a queue of two behind a busy worker, refusals, spawn
\* failures and both signals at every point.
SPECIFICATION Spec
CONSTANTS
  Clients = {c1, c2, c3}
  None = None

INVARIANT NoDanglingJob
INVARIANT NoLostWakeup
INVARIANT ResourcesReleasedLast
PROPERTY ConnectionsReleased
PROPERTY StopEnds
PROPERTY ImplementsService
