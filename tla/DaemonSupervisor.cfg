SPECIFICATION FairSpec
CONSTANTS
    MaxRestarts = 2
    MaxSpawns = 4
    MaxCommands = 4
INVARIANTS
    TypeOK
    Supervised
PROPERTIES
    LifecycleReturns
    CrashFollowedUp
    KeepsContract
CHECK_DEADLOCK FALSE
