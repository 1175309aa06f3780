SPECIFICATION CoreSpec
CONSTANTS
  j1 = j1
  j2 = j2
  local = local
  remote = remote
  NoWorker = NoWorker
  Jobs <- MCJobs
  Workers <- MCWorkers
  Workspaces <- MCWorkspaces
  WorkspaceOf <- MCWorkspaceOf
  Scope <- MCScope
  StaleTicks = 1
  MaxDelay = 1
  MaxAttempts = 3
  Backends = {"qemu", "cape", "replay"}
  Deadline = 2
INVARIANTS
  AttemptsBounded
  ReleasedWhenOver
  MergedWhenAllTaken
  OnlyOwnEvidence
PROPERTIES
  FencedPublication
  LeaseHonoured
  KeepsContract
  RunEnds
