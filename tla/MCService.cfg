SPECIFICATION Spec
CONSTANTS
  u1 = u1
  u2 = u2
  c1 = c1
  c2 = c2
  r1 = r1
  r2 = r2
  t1 = t1
  t2 = t2
  i1 = i1
  i2 = i2
  n1 = n1
  n2 = n2
  n3 = n3
  n4 = n4
  NoUser = NoUser
  NoCred = NoCred
  Users = {u1, u2}
  HomeOf <- MCHomeOf
  Creds = {c1, c2}
  Requests = {r1, r2}
  Threads = {t1, t2}
  Limit = 2
  MaxBucket = 2
  Nobody = Nobody
  Ingesters = {i1, i2}
  Lines = 2
  MaxVersion = 2
  Runs = {n1, n2, n3, n4}
  FormatOf <- MCFormatOf
  Mode <- MCMode
  Pieces = 2
  MaxFaults = 2
  Pool = {"a", "b", "c"}
  Malicious <- MCMalicious
  Clean <- MCClean
  Population = 3
  Generations = 2
  Images <- MCImages
  Regions <- MCRegions
  Entry = 0
  Nowhere = 9
  MaxFunctions = 3
  MaxInstructions = 5
SYMMETRY MCSymmetry
INVARIANTS
  RotationKeepsKey
  WorkspaceKeepsAdmin
  LimitHolds
  IndexIsOneVersion
  QuietFileIsIndexed
  FreshRunIsItsOwn
  FrontierIsBest
  FunctionsAreApart
  CalleesAreFound
