SPECIFICATION Spec
CONSTANTS
    WordMax = 1023
    ARRAYS_MIN_NUM = 1
    ARRAYS_MAX_NUM = 3
    ARR_REF_BASE <- MCRefBase
    GC_PERIOD = 50
    NumLocals = 1
    PushedWords <- Plain
    Refusals = {0}
    MaxStack = 4
    MaxElements = 1
PROPERTY LinkedRefsSurvive
