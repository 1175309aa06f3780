SPECIFICATION FairSpec
CONSTANTS
  j1 = j1
  j2 = j2
  j3 = j3
  s1 = s1
  s2 = s2
  w1 = w1
  NoJob = NoJob
  NoSlot = NoSlot
  NoWorker = NoWorker
  Jobs = {j1, j2, j3}
  Slots = {s1, s2}
  Workers = {w1}
  Interval = 1
  MaxOverdue = 1
  BatchLimit = 1
  MaxCrashes = 1
INVARIANTS
  LiveJobHasSample
  ExpiredJobHasNone
PROPERTIES
  RunsApart
  BrokenScheduleStops
