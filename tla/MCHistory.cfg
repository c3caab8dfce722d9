CONSTANTS
    Ids = {i1, i2}
    Texts = {text}
    Images = {image}
    Limits = {1}
    NoId = NoId
    NoContent = NoContent
    RemoteStamps <- MCRemoteStamps
    MaxAge = 1
    Throttle = 1
    MaxTime = 1
    MaxEdits = 2
SYMMETRY Symmetric
SPECIFICATION Spec
INVARIANT TypeOK
INVARIANT PayloadMissingOnlyWhenCut
INVARIANT WordsFindRow
INVARIANT DuplicatesExplained
PROPERTY RetentionIsExact
CHECK_DEADLOCK FALSE
