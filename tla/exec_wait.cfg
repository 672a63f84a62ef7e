\* Two tasks, two workers, a queue of one: a call of Wait.
SPECIFICATION Spec
CONSTANTS
  Tasks = {t1, t2}
  Delayed = {}
  Workers = {w1, w2}
  QueueLength = 1
  WaitFlag = TRUE
  NoTask = NoTask
INVARIANT WaitCompletes
CHECK_DEADLOCK FALSE
