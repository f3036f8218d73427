SPECIFICATION Spec
SYMMETRY Interchangeable
CONSTANTS
  File = {f1, f2}
  Dir = dir
  Op = {o1}
  None = none
  Remote = {"create", "delete", "update", "in", "out", "self", "refresh"}
  Local = {"unlink", "lookup", "relink"}
  MaxChanges = 2
  MaxLists = 2
\* the bounds end every behaviour
CHECK_DEADLOCK FALSE
INVARIANTS
  TableExplained
  IdsExplained
  ViewExplained
  ListingIsOneSet
