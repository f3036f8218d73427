SPECIFICATION Spec
CONSTANTS
  Worker = {w1, w2}
  NJobs = 2
  MaxBlocks = 2
  MaxFaults = 2
  MayFail = {"open", "read", "short", "write", "close", "commit", "end"}
INVARIANTS
  SuccessIsWritten
  PublishedIsPrefix
PROPERTIES
  Returns
