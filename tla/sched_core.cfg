CONSTANTS
  a1 = a1
  a2 = a2
  t1 = t1
  t2 = t2
  None = None
  Calls = {a1, a2}
  Ids = {t1, t2}
  Delays = {0}
  Batch = 1
  Caps = {1, 2}
  MaxLate = 2
  ManifestFails = TRUE
  Crashes = TRUE
SPECIFICATION FairSpec
INVARIANT TypeOK AlarmIsEarliest PendingWithinCap OneShotsRunOnce
PROPERTY TakenTasksAreNotDue EveryTaskIsTaken
