SPECIFICATION Spec
CONSTANTS
  Worker = {w1, w2}
  NJobs = 1
  MaxBlocks = 1
  MaxFaults = 1
  MayFail = {"short", "close"}
INVARIANTS
  SuccessIsWhole
