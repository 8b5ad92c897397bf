CONSTANTS
  Runs = {r1}
  NumFiles = 1
  Admins = {}
  MaxPatches = 0
  MaxCrashes = 0
  None = None

SPECIFICATION Spec

PROPERTIES
  CancelledStays

\* The server may rest when every request was made.
CHECK_DEADLOCK FALSE
