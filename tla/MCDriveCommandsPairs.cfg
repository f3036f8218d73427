SPECIFICATION Spec
CONSTANTS
  Proc = {p1, p2}
  None = None
  Commands <- MCCommands
  Trees <- MCTrees
  SrcName = "a"
  MaxId = 5
  MaxFaults = 1
INVARIANTS
  NothingLostUnasked
PROPERTIES
  OnlyAdds
  CommandsReturn
