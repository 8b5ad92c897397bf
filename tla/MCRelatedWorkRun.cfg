CONSTANTS
  Props = {p1}
  Starters = {h1, h2}
  Slots = {1, 2}
  MaxCrashes = 2
  None = None

SPECIFICATION FairSpec

INVARIANTS
  TypeOK
  NoStrandedRun
  CancelReachesSearch

PROPERTIES
  EveryRunEnds

\* The server may rest when every request was made.
CHECK_DEADLOCK FALSE
