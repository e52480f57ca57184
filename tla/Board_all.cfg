\* The drivers that want device number 12:0, those that get a dynamic number, and
\* those that want gpio 12 and 21.
CONSTANTS
    Nothing = Nothing
    Nobody = Nobody
    Drivers = {"but", "isr", "simple", "led", "plat", "attr", "probe", "spi", "dac"}
    Boards = {{"but", "isr", "simple"}, {"spi", "plat"}, {"spi", "dac"},
              {"plat", "attr", "probe"}, {"led", "plat", "probe"},
              {"but", "plat", "probe"}}
    Numbers = {0, 1, 2}
    Entries <- BoardEntries
    Numbered <- BoardNumbered
    Dynamic <- BoardDynamic
    Region = "region"
    Inside <- Nodes
    Acq <- BoardAcq
    Fault <- BoardFault
    Undo <- BoardUndo
    Exits <- BoardExits
    Parent <- BoardParent
    Again <- BoardAgain
    ProbeGpio <- OverlayGpios
\* After the oops of attr_drv nothing can be loaded in its place.
CHECK_DEADLOCK FALSE
SPECIFICATION Spec
INVARIANTS TypeOK LeavesNoMore HasItsOwn
PROPERTIES TakesNoMore
