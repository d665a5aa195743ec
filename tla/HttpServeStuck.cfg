SPECIFICATION HFairSpec
CONSTANTS
  Task = {t1, t2}
  WithChan = {t1, t2}
  WorkerCount = 1
  Backlog = 1
  NoTask = NoTask
  MaxWorkers <- EnoughWorkers
PROPERTY WorkerGetsPastTimedOut
CHECK_DEADLOCK FALSE
