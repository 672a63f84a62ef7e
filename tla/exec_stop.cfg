\* Three tasks, one of them delayed, two workers, a queue of one, Stop(true).
SPECIFICATION FairSpec
CONSTANTS
  Tasks = {t1, t2, t3}
  Delayed = {t3}
  Workers = {w1, w2}
  QueueLength = 1
  WaitFlag = TRUE
  NoTask = NoTask
INVARIANTS TypeOK RunsOnce StopCompletes
PROPERTIES StopAlwaysReturns AcceptedRuns
CHECK_DEADLOCK FALSE
