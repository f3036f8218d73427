SPECIFICATION ConfigSpec
CONSTANTS
  p1 = p1
  p2 = p2
  s1 = s1
  s2 = s2
  Proc = {p1, p2}
  Service = {"drive"}
  ShareId = {s1, s2}
  Private = {s2}
  Input <- Inputs
  Jobs <- JobFlags
  Version <- VersionFlags
  Worlds <- FewWorlds
  Workers = 10
  NoFlag = NoFlag
  Overlap = TRUE
  MaxCommands = 2
  MaxFaults = 1
SYMMETRY Symmetry
INVARIANT NeverCorrupt
CHECK_DEADLOCK FALSE
