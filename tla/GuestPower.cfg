SPECIFICATION Spec
CONSTANTS
  MaxFaults = 1
  Op = {o1}
  Kinds = {"start", "stop", "force_stop", "restart", "force_restart", "suspend",
           "sync", "syncstatus", "delete", "real_delete", "cancel_delete"}
INVARIANTS
  
  OpenOnlyIfForgotten
  NotLeftTransient
  DeletedIsGone
PROPERTIES
  
  Settles
CHECK_DEADLOCK FALSE
