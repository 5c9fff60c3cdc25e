SPECIFICATION Spec
CONSTANTS
    A = A
    None = None
    HookErr = HookErr
    BlockIds = {A}
    RoundModulus = 2
    BLOCK_HEIGHT_SANITY_LIMIT = 3
    TimeoutSettings = {None, 0, 1, 6}
    Outputs = {None, 1, 2, 5}
    FileHeights = {0, 1, 4}
INVARIANTS
    ChildReaped
    FailsClosed
PROPERTY
    HookDecides
