\* Two models, two downloads, a list beside the one that ends a delete run.
SPECIFICATION Spec
CONSTANTS
    Models = {base, tiny}
    Calls = {c1, c2}
    Lists = {l1}
    None = None
    MaxQueued = 1
INVARIANTS
    TypeOK
    SettlesOnce
    NoOldFailure
    CatalogueTrue
    InFlightIsWork
PROPERTIES
    SelectsInstalled
SYMMETRY Symmetry
