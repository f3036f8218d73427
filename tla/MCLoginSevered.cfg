CONSTANTS
  p1 = p1
  p2 = p2
  alice = alice
  bob = bob
  Proc = {p1, p2}
  Service = {"drive"}
  User = {alice, bob}
  Nobody = Nobody
  None = None
  Worlds <- CookieWorld
  MaxSessions = 5
  MaxTime = 6
  MaxCommands = 3
  MaxRotations = 1
  MaxMishaps = 1
SPECIFICATION LoginSpec
SYMMETRY Symmetry
INVARIANTS DeadForkIsReplaced
CHECK_DEADLOCK FALSE
