\* After a write past the table nothing is modelled: the system may stop.
CONSTANTS
    u1 = u1
    u2 = u2
    NoFile = NoFile
    Users = {u1, u2}
SPECIFICATION Spec
INVARIANTS TypeOK HandlesKeepChip NoOrphanNode
CHECK_DEADLOCK FALSE
