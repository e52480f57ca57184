CONSTANTS
    Threads = {"a", "b", "c"}
    Opens <- BusyOpens
    Values = {0, 4095}
    MaxErr = 1
    MaxConv = 0
SPECIFICATION Spec
INVARIANTS LengthWritten
CHECK_DEADLOCK FALSE
