CONSTANTS
    Sessions = {s1}
    NoSession = NoSession
SPECIFICATION RestartSpec
PROPERTIES
    RestartRecovers
CHECK_DEADLOCK FALSE
