CONSTANTS
  paper = paper
  evidence = evidence
  commit = commit
  before = before
  after = after
  Records = {paper, evidence}
  Contents = {before, after}
  First = before
  Sources <- MCSources
  Fixed = {commit}
  Runs = {r1}
  Inputs <- MCInputs
  Workers = {w1, w2}
  MaxChanges = 2
  MaxRequests = 2
  MaxCrashes = 1
  None = None

SPECIFICATION Spec
SYMMETRY WorkersAreAlike

INVARIANTS
  TypeOK
  GrantIsSound
  NothingIsMissed
  InvalidForAReason

\* The server may rest when every request was answered.
CHECK_DEADLOCK FALSE
