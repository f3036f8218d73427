SPECIFICATION Spec
CONSTANTS
    Procs = {p, q}
    Accounts = {"a", "b"}
    Services = {"*", "drive"}
    Wildcard = "*"
    Held <- MCHeld
    MaxCalls = 2
    MaxFaults = 1
SYMMETRY Interchangeable
PROPERTY OnlyStaleCleaned
\* Calls are bounded: when they are used up the system stops.
CHECK_DEADLOCK FALSE
