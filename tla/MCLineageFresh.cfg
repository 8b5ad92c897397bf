CONSTANTS
  paper = paper
  evidence = evidence
  commit = commit
  before = before
  after = after
  Records = {evidence}
  Contents = {before, after}
  First = before
  Sources <- MCSources
  Fixed = {commit}
  Runs = {r1}
  Inputs <- MCInputs
  Workers = {w1, w2}
  MaxChanges = 2
  MaxRequests = 3
  MaxCrashes = 1
  None = None

SPECIFICATION Spec
SYMMETRY WorkersAreAlike

INVARIANT
  GrantIsFresh

\* The server may rest when every request was answered.
CHECK_DEADLOCK FALSE
