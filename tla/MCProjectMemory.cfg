CONSTANTS
  Project = {a, b}
  Config = {c, d}
  Global = Global
  Port = {1, 2}
  Child = {t1, t2}
  None = None
  Request = {r1, r2}
  MaxRequests = 5
  MaxCrashes = 1

SPECIFICATION Spec
SYMMETRY Alike

INVARIANTS
  TypeOK
  PoolsMatchUse
  LedgerKnowsStored

PROPERTIES
  PendingIsHeld

\* The server may rest when every project was deleted.
CHECK_DEADLOCK FALSE
