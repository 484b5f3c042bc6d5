\* Two saves or restarts that wait, and the choice of the other fields between two.
SPECIFICATION Spec
CONSTANTS
    Choices = {a, b}
    None = None
    MaxWaiting = 2
    MaxQueued = 1
INVARIANTS
    TypeOK
    SavedOrSaid
    SetupNotStuck
    FailureShownIsTrue
SYMMETRY Symmetry
