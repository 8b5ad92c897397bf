CONSTANTS
  Installs = {i1}
  Plans = {p1}
  Writes = {x1, x2}
  Runs = {r1}
  Requests = {h1, h2}
  MaxDecisions = 3
  MaxCrashes = 1
  None = None

SPECIFICATION FairSpec

INVARIANTS
  TypeOK
  RunningHasWorker
  AwaitingIsAnswerable

PROPERTIES
  RunEnds

\* The server may rest when every proposal is decided.
CHECK_DEADLOCK FALSE
