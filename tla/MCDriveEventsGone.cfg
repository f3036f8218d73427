SPECIFICATION Spec
CONSTANTS
  Link = {file}
  Reader = {r1}
  None = None
  Modes = {"daemon"}
  Window = 1
  MaxChanges = 1
  MaxFaults = 0
  MaxCrashes = 1
PROPERTIES InvalidatedIsGone
CHECK_DEADLOCK FALSE
