SPECIFICATION Spec
CONSTANTS
    Elements <- MCElements
    MaxElements = 2
    Messages <- MCMessages
    Noise <- MCNoise
INVARIANT MessageComesThrough
CHECK_DEADLOCK FALSE
