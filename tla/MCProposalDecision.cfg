CONSTANTS
  Patches = {pa}
  Revisions = {ra, rb}
  Reruns = {e}
  Changes = {c}
  Requests = {h1, h2}
  MaxDecisions = 3
  MaxCrashes = 1
  None = None

SPECIFICATION Spec
SYMMETRY RequestsAreAlike

INVARIANTS
  TypeOK
  PatchOnItsBase
  ApprovedIsSwept
  RevisionIsNeverLost

PROPERTIES
  RerunIsFresh

\* The server may rest when every proposal is decided.
CHECK_DEADLOCK FALSE
