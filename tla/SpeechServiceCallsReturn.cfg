SPECIFICATION FairSpec
CONSTANTS
    Sessions = {s1, s2}
    NoSession = NoSession
    MaxLosses = 1
    MaxShutdowns = 0
PROPERTY CallsReturn
CHECK_DEADLOCK FALSE
