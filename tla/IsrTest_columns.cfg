CONSTANTS
    t1 = t1
    Threads = {t1}
    Tester = t1
    Samples = 2
    Levels = {0, 1}
    M = 8
    ClearPoint = 1
    MaxIsr = 3
    MaxSig = 0
SPECIFICATION TSpec
INVARIANTS ColumnsNamed
CHECK_DEADLOCK FALSE
