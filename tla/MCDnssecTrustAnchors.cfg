SPECIFICATION Spec
CONSTANTS
    Depth = 2
    MaxAnchors = 2
    MaxSigners = 2
INVARIANT
    AnchorsHold
CHECK_DEADLOCK FALSE
