SPECIFICATION WorkersFairSpec
CONSTANTS
  j1 = j1
  w1 = w1
  w2 = w2
  lab = lab
  NoWorker = NoWorker
  NoJob = NoJob
  Jobs = {j1}
  Workers = {w1, w2}
  Workspaces = {lab}
  WorkspaceOf <- MCWorkspaceOf
  Scope <- MCScope
  StaleTicks = 1
  MaxDelay = 0
  MaxAttempts = 3
  Deadline = 1
  MaxCrashes = 1
INVARIANTS
  ServedOutputIsFinished
  OnePublisher
  NoChildOutlivesItsWatch
PROPERTIES
  DecidesEveryJob
  TakesEveryStop
