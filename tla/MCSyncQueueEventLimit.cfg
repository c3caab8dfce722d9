SPECIFICATION Spec
CONSTANTS
    i1 = i1
    i2 = i2
    b1 = b1
    auto = auto
    manual = manual
    Items = {i1, i2}
    Blobs = {}
    BlobOwner <- TextOnly
    Exporters = {auto}
    AutoExporters = {auto}
    Lag = 0
    Rounding = 0
    Window = 1
    EventLimit = 1
    MaxTime = 5
    MaxRev = 2
SYMMETRY ItemSymmetry
INVARIANTS DeletionEventsShipped
