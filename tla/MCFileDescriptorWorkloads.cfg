SPECIFICATION FdSpec
CONSTANTS
  Thread = {t1, t2}
  BlockSize = 2
  MayFail = {"upload", "commit", "create"}
  Workloads <- MCWorkloads
\* the bounds on calls end every behaviour
CHECK_DEADLOCK FALSE
INVARIANTS
  Durable
  ErrorsAreReal
  CloseDrains
PROPERTIES
  CallsReturn
