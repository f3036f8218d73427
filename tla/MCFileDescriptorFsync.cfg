SPECIFICATION FdSpec
CONSTANTS
  Thread = {t1}
  BlockSize = 2
  MayFail = {}
  Workloads <- MCFsync
\* the bounds on calls end every behaviour
CHECK_DEADLOCK FALSE
INVARIANTS
  DurableAfterSync
