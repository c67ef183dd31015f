SPECIFICATION GcSpec
CONSTANTS
    WordMax = 1023
    ARRAYS_MIN_NUM = 1
    ARRAYS_MAX_NUM = 4
    ARR_REF_BASE <- MCRefBase
    GC_PERIOD = 1
    NumLocals = 1
    PushedWords <- NoWords
    Refusals = {0}
    MaxStack = 3
    MaxElements = 2
    Heaps <- AllHeaps
    Stacks <- ShortStacks
INVARIANTS GcTypeOK LoopsOnTrack AscendingHeapsAreExact HeldWhileSweeping
PROPERTIES ImplementsCollection CollectionEnds
