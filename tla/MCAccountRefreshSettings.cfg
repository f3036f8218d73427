SPECIFICATION Spec
CONSTANTS
  Daemon = {d1}
  App = {a1, a2}
  Free = free
  Settings <- MCSettings
  MaxEvents = 2
  MaxStarts = 2
  MaxFaults = 1
\* the bounds on events and starts end every behaviour
CHECK_DEADLOCK FALSE
INVARIANTS
  AccountNotLost
  OneRotationPerEvent
PROPERTIES
  NoFalseDeauth
  StoreNeverGoesBack
  CallsReturn
  DaemonKeepsFresh
