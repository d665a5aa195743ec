SPECIFICATION MCSpec
CONSTANTS
  Account = Account
  Provider = {p1, p2, p3}
  NoTask = NoTask
  Task <- AccountTasks
  ParentOf <- AccountParents
  Stage <- AccountStages
  InitStage <- OnInit
  Method <- AccountMethods
  MaxRuns <- EnoughRuns
SYMMETRY ProviderSymmetry
INVARIANTS DeletedAfterAllUnlessEarly KeptIfAllFail IdleMeansEnded
PROPERTY EndIsFinal
