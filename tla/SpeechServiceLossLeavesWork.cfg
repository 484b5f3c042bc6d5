SPECIFICATION Spec
CONSTANTS
    Sessions = {s1}
    NoSession = NoSession
    MaxLosses = 1
    MaxShutdowns = 0
INVARIANT NoWorkAfterLoss
CHECK_DEADLOCK FALSE
