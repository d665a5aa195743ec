SPECIFICATION HFairSpec
CONSTANTS
  Task = {t1, t2}
  WithChan = {t1, t2}
  WorkerCount = 1
  Backlog = 1
  NoTask = NoTask
  MaxWorkers <- EnoughWorkers
INVARIANTS KnownWorkerIsOwn CrashNeedsHandlerPanic
PROPERTIES WriteReturns RequestEnds
CHECK_DEADLOCK FALSE
