SPECIFICATION Spec
CONSTANTS
  Daemon = {}
  App = {a1, a2}
  Free = free
  Settings <- MCColdStart
  MaxEvents = 2
  MaxStarts = 2
  MaxFaults = 0
\* the bounds on events and starts end every behaviour
CHECK_DEADLOCK FALSE
PROPERTIES
  ColdStartIsSafe
