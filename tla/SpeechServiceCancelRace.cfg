SPECIFICATION Spec
CONSTANTS
    Sessions = {s1}
    NoSession = NoSession
    MaxLosses = 0
    MaxShutdowns = 0
INVARIANT CancelSuppressesTranscript
CHECK_DEADLOCK FALSE
