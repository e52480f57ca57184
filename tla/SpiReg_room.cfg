CONSTANTS
    u1 = u1
    NoFile = NoFile
    Users = {u1}
SPECIFICATION Spec
INVARIANT RoomForAll
CHECK_DEADLOCK FALSE
