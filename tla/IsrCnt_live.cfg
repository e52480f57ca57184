\* Two readers that race for flag.
CONSTANTS
    t1 = t1
    t2 = t2
    Threads = {t1, t2}
    Levels = {1}
    M = 2
    ClearPoint = 4
    MaxIsr = 2
    MaxSig = 0
SPECIFICATION FairSpec
PROPERTIES EventuallyReported
CHECK_DEADLOCK FALSE
