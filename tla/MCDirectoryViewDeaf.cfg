SPECIFICATION Spec
CONSTANTS
  File = {f1, f2}
  Dir = dir
  Op = {o1}
  None = none
  Remote = {"create"}
  Local = {}
  MaxChanges = 2
  MaxLists = 2
\* the bounds end every behaviour
CHECK_DEADLOCK FALSE
INVARIANTS
  ListingCatchesUp
