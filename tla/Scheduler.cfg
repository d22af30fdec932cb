SPECIFICATION FairSpec
CONSTANTS
  Task = {t1, t2}
  NoTask = none
  Run = {r1, r2}
  MaxRetries = 3
INVARIANTS TypeOK RetriesBounded RetryNotLost
PROPERTIES OnlyCurrentStarts RemovedComesToRest EnabledRuns
CHECK_DEADLOCK FALSE
