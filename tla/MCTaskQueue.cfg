CONSTANTS
  index1 = index1
  index2 = index2
  repro = repro
  Tasks <- MCTasks
  Material <- MCMaterial
  MaxAttempts <- MCMaxAttempts
  Ticks = {k1, k2}
  MaxCrashes = 2
  NoTask = NoTask

SPECIFICATION FairSpec

INVARIANTS
  TypeOK
  OneAtATime
  RunningIsHeld
  HolderOwnsRow
  AttemptsBounded

PROPERTIES
  ImplementsJobQueue
  EveryTaskEnds

