SPECIFICATION FairSpec
CONSTANTS
  Task = {t1, t2, t3}
  WithChan = {t1, t2}
  WorkerCount = 2
  Backlog = 1
  NoTask = NoTask
  MaxWorkers <- EnoughWorkers
CHECK_DEADLOCK FALSE
INVARIANTS
  WorkerBound
  SlotsExact
  DetachedExact
  StrandedOnlyIfMissed
 
