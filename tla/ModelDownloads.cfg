\* Two calls and a deletion at a time, over two models.
SPECIFICATION FairSpec
CONSTANTS
    Models = {base, tiny}
    Calls = {c1, c2}
    None = None
    Deletions = {x1}
    MaxRetries = 1
INVARIANTS
    TypeOK
    PartsOwned
    CompleteIsInstalled
    SetupConcludes
PROPERTIES
    CancelEnds
