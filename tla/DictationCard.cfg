SPECIFICATION FairSpec
CONSTANTS
    Sessions = {1, 2}
    NoSession = NoSession
    MaxEvents = 2
INVARIANTS
    TypeOK
    LevelsOwn
    RecordingHasLevels
    StreamReleased
    StatusOfShown
PROPERTIES
    StatusSettles
