\* A lone reader, with signals; the stores of gpio_open in the order of the
\* shipped isr_cnt.ko; counters that do not wrap within the bound.
CONSTANTS
    t1 = t1
    Threads = {t1}
    Levels = {0, 1}
    M = 6
    ClearPoint = 1
    MaxIsr = 3
    MaxSig = 2
SPECIFICATION FairSpec
INVARIANTS LineBacked
PROPERTIES EventuallyServed
CHECK_DEADLOCK FALSE
