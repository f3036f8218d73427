SPECIFICATION ConfigSpec
CONSTANTS
  p1 = p1
  p2 = p2
  s1 = s1
  s2 = s2
  Proc = {p1, p2}
  Service = {"drive"}
  ShareId = {s1, s2}
  Private = {s2}
  Input <- Inputs
  Jobs <- JobFlags
  Version <- VersionFlags
  Worlds <- AllWorlds
  Workers = 10
  NoFlag = NoFlag
  Overlap = FALSE
  MaxCommands = 3
  MaxFaults = 1
SYMMETRY Symmetry
INVARIANT FileIsWhatWasAsked
INVARIANT ProgramsObey
CHECK_DEADLOCK FALSE
