SPECIFICATION FairCSpec
CONSTANTS
    WordMax = 1048575
    ARRAYS_MIN_NUM = 1
    ARRAYS_MAX_NUM = 2
    ARR_REF_BASE <- MCArrBase
    GC_PERIOD = 1
    NET_CONN_MIN_NUM = 1
    NET_CONN_STEP = 1
    NET_REFS = 2
    NET_REF_BASE <- MCNetBase
    STACK_MIN_SIZE = 1
    OPERAND_MARGIN = 4
    STACK_MAX_SIZE = 64
    Programs <- EndingPrograms
    Refusals = {0, 1}
    Junk = {7}
    JunkBytes = {0}
    Chars = {65, 200}
PROPERTIES RunEnds NeverGoesBack
