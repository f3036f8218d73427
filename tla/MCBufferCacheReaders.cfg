SPECIFICATION Spec
CONSTANTS
  Goroutine = {g1, g2, g3}
  Link = {a, b}
  Index = {1}
  Gen = {1, 2, 3}
  Cap = 1
  MaxInvalidations = 1
\* readers can be stranded for good: MCBufferCacheStranded.cfg
CHECK_DEADLOCK FALSE
INVARIANTS
  CleanSlotIsSettled
  FetchHasOwner
  NoStrandedWaiter
  CapacityRespected
  OneFetchPerBlock
PROPERTIES
  WaitersReturn
