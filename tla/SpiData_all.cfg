\* The readers end when the bound on conversions is reached.
CONSTANTS
    Threads = {"a", "b", "c"}
    Opens <- BusyOpens
    Values <- Numbers
    MaxErr = 1
    MaxConv = 3
SPECIFICATION Spec
INVARIANTS TypeOK NothingUnlatched WrittenIsOut ReadCurrent
PROPERTIES OtherChannelKept
CHECK_DEADLOCK FALSE
