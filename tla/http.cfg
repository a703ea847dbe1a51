SPECIFICATION MCSpec
CONSTANTS
    PageLen = 13
    MaxChunk = 13
    Window = 6
    TagLen = 3
    BlankLen = 2
CHECK_DEADLOCK FALSE
INVARIANTS
    NotCutShort
    EndNoticed
PROPERTIES
    AtOnceOrNever
