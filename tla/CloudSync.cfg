SPECIFICATION Spec
CONSTANTS
  Account = account
  p1 = p1
  r1 = r1
  r2 = r2
  w1 = w1
  w2 = w2
  Provider = {p1}
  Region = {r1, r2}
  ProviderOf <- TwoRegions
  SyncWorker = {w1, w2}
  WorkerOf <- TwoWorkers
  Prober = prober
  AccountTask = {a1}
  ProviderRequest = {q1}
  None = None
  Background = background
  MaxRequests = 1
  MaxRestarts = 1
INVARIANTS
  RestIsIdle
  BusyShown
PROPERTIES
  
  Recovers
CHECK_DEADLOCK FALSE
