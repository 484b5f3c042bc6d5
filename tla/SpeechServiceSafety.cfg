SPECIFICATION Spec
CONSTANTS
    Sessions = {s1, s2}
    NoSession = NoSession
    MaxLosses = 1
    MaxShutdowns = 1
SYMMETRY SessionSymmetry
INVARIANTS
    TypeOK
    StatusTruthful
    NoLostWakeup
    PendingReleased
    SessionReleased
    TranscriptOwned
PROPERTIES
    KeepsContract
CHECK_DEADLOCK FALSE
