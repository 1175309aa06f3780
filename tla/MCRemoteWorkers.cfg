SPECIFICATION RemoteFairSpec
CONSTANTS
  j1 = j1
  j2 = j2
  r1 = r1
  r2 = r2
  labKey = labKey
  guestKey = guestKey
  local = local
  NoWorker = NoWorker
  NoJob = NoJob
  Local = local
  Workers = {labKey, guestKey, local}
  Workspaces <- MCWorkspaces
  WorkspaceOf <- MCWorkspaceOf
  StaleTicks = 1
  MaxDelay = 0
  Deadline = 1
  Remotes = {r1, r2}
  Jobs = {j1}
  AccountOf <- MCOneKey
  Scope <- MCScope
  MaxAttempts = 2
  MaxFaults = 1
INVARIANTS
  ServedUploadIsWhole
  OneAcceptableUpload
  WatchEndsChild
PROPERTIES
  DecidesEveryJob
