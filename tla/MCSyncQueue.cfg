SPECIFICATION Spec
CONSTANTS
    i1 = i1
    i2 = i2
    b1 = b1
    auto = auto
    manual = manual
    Items = {i1}
    Blobs = {b1}
    BlobOwner <- OneImage
    Exporters = {auto, manual}
    AutoExporters = {auto}
    Lag = 0
    Rounding = 2
    Window = 1
    EventLimit = 2
    MaxTime = 5
    MaxRev = 2
INVARIANTS TypeOK
INVARIANTS NoChangeLost
INVARIANTS PackageCoversQueue
INVARIANTS AbandonedNeedsFullExport
INVARIANTS SyncedBlobIsUploaded
INVARIANTS DeletionEventsShipped
PROPERTIES StaleExportKeepsAbandoned
PROPERTIES ImplementsLedger
