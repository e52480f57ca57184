\* Nothing is modelled after a BUG: the system may stop.  With a word of 2048, the
\* delay 1 is 10 ticks, 3 wraps to 9.
CONSTANTS
    p1 = p1
    p2 = p2
    Procs = {p1, p2}
    Secs = {1, 3}
    Word = 2048
    HZ = 100
SPECIFICATION FairSpec
INVARIANTS TypeOK NeverAddedTwice ArmedStays DeadUnlessRaced DelayStored
PROPERTIES PinUndisturbed NewDelayHolds KeepsToggling RemoveEnds
CHECK_DEADLOCK FALSE
