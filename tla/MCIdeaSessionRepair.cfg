CONSTANTS
  Turn = {t1}
  Project = {a}
  File = {f}
  None = None
  MaxCrashes = 1

SPECIFICATION Spec
SYMMETRY Alike

INVARIANTS
  RepairFindsAll

CHECK_DEADLOCK FALSE
