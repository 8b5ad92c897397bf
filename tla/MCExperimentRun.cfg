CONSTANTS
  Runs = {r1}
  NumFiles = 2
  Admins = {a1, a2}
  MaxPatches = 1
  MaxCrashes = 2
  None = None

SPECIFICATION FairSpec

INVARIANTS
  TypeOK
  SupervisorKnowsChildren
  NoStrandedRow
  CheckpointIsComplete

PROPERTIES
  EndedStaysEnded
  EveryRunEnds

\* The server may rest when every request was made.
CHECK_DEADLOCK FALSE
