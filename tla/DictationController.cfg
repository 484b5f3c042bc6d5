CONSTANTS
    Sessions = {s1, s2}
    NoSession = NoSession
SPECIFICATION FairSpec
INVARIANTS
    TypeOK
    CallsMadeOnce
    SessionsClosed
PROPERTIES
    OldAnswersIgnored
    WaitsEnd
    StartupEnds
CHECK_DEADLOCK FALSE
