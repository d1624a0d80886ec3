SPECIFICATION Spec

CONSTANTS
    Number = 2
    MaxBlocks = 3
    MaxDials = 1

INVARIANTS
    BeginsBeforeEnd

PROPERTIES
    NobodyStuck
    ShownGrows

CHECK_DEADLOCK FALSE
