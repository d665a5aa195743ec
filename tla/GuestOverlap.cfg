SPECIFICATION Spec
CONSTANTS
  MaxFaults = 0
  Op = {o1, o2}
  Kinds = {"start", "stop", "force_stop", "suspend", "sync", "syncstatus",
           "delete", "real_delete", "cancel_delete"}
SYMMETRY SymmetricRequests
INVARIANTS
  StatusAgrees
  DeletedIsGone
CHECK_DEADLOCK FALSE
