SPECIFICATION Spec
CONSTANTS
    WordMax = 1023
    ARRAYS_MIN_NUM = 1
    ARRAYS_MAX_NUM = 2
    ARR_REF_BASE <- MCRefBase
    GC_PERIOD = 2
    NumLocals = 1
    PushedWords <- WithLookAlike
    Refusals = {0}
    MaxStack = 5
    MaxElements = 1
PROPERTY CollectionsNeverAbort
