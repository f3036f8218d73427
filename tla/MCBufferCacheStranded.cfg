SPECIFICATION SafetySpec
CONSTANTS
  Goroutine = {g1, g2, g3}
  Link = {a}
  Index = {1, 2}
  Gen = {1, 2, 3}
  Cap = 1
  MaxInvalidations = 1
PROPERTIES
  FetchingNeverEvicted
