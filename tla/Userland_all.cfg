\* A program may have ended, and a driver may be left alone.
CONSTANTS
    Boards <- Meetings
    Temps <- Days
    Junks <- Reads
    MaxErr = 2
    MaxChange = 2
SPECIFICATION FairSpec
INVARIANTS TypeOK NoLeak DriverShows
PROPERTIES LedSettles PageSettles Alternates LowersOnlyItsOwn
