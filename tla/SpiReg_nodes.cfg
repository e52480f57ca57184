CONSTANTS
    u1 = u1
    NoFile = NoFile
    Users = {u1}
SPECIFICATION Spec
PROPERTY OwnNodesOnly
CHECK_DEADLOCK FALSE
