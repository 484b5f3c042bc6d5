SPECIFICATION Spec
CONSTANTS
    MaxRestarts = 1
    MaxSpawns = 2
    MaxCommands = 2
INVARIANT DisabledIsOff
CHECK_DEADLOCK FALSE
