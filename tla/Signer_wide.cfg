SPECIFICATION Spec
CONSTANTS
    A = A
    B = B
    s1 = s1
    s2 = s2
    None = None
    BadSize = BadSize
    HookErr = HookErr
    BlockIds = {A, B}
    RoundModulus = 2
    BLOCK_HEIGHT_SANITY_LIMIT = 2
    Sessions = {s1}
    Requests <- WideRequests
    Reconnect = {}
    Protobuf = {}
    MaxHeight <- MaxHeight2
    HookOutputs = {None, HookErr, 1, 2}
    FailClosed = TRUE
INVARIANTS
    NoDoubleSign
    MemoryAheadOfFile
    StopsAtMaxHeight
    RefusalIsReported
PROPERTY
    FileNeverRegresses
