SPECIFICATION Spec
CONSTANTS
  Link = {file}
  Reader = {r1, r2}
  None = None
  Modes = {"daemon", "drive", "core"}
  Window = 1
  MaxChanges = 2
  MaxFaults = 1
  MaxCrashes = 1
INVARIANTS StaleIsExplained WatchSkipsNothing
PROPERTIES CatchesUp
CHECK_DEADLOCK FALSE
