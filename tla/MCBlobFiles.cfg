SPECIFICATION Spec
CONSTANTS
    i1 = i1
    i2 = i2
    b1 = b1
    b2 = b2
    b3 = b3
    Captured = {i1}
    Received = {i2}
    Blobs = {b1, b3}
    ItemOf <- MCItemOf
    Originals = {b1, b3}
    Limit = 2
    MaxImports = 1
    MaxFaults = 1
    NoItem = NoItem
    NoPath = NoPath
INVARIANT TypeOK
INVARIANT CapturedFileKept
INVARIANT OnlyDeletedBlocksExport
INVARIANT DeadFilesReclaimed
INVARIANT MissingBlobsFetched
CHECK_DEADLOCK FALSE
