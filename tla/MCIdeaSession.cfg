CONSTANTS
  Turn = {t1, t2}
  Project = {a, b}
  File = {f, g}
  None = None
  MaxCrashes = 2

SPECIFICATION Spec
SYMMETRY Alike

INVARIANTS
  TypeOK
  FileIsReadable
  BootstrapFindsAll

\* The server may rest when every request was made.
CHECK_DEADLOCK FALSE
