\* Two processes, a signal, counters that wrap, the stores of gpio_open in the
\* order of the text.
CONSTANTS
    t1 = t1
    t2 = t2
    Threads = {t1, t2}
    Levels = {1}
    M = 2
    ClearPoint = 4
    MaxIsr = 3
    MaxSig = 1
SPECIFICATION Spec
SYMMETRY Symmetry
INVARIANTS TypeOK NoLostWakeup NothingUnreported PassesBacked
PROPERTIES ImplementsLatch
CHECK_DEADLOCK FALSE
