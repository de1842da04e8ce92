SPECIFICATION Spec
CONSTANTS
    Messages <- MCMessages
    Styles = {"octet"}
    MaxMessage = 3
    MaxPrefix = 2
    Headroom = 3
    RecvSize = 5
    MaxSent = 3
    AnyFirst = TRUE
INVARIANT FramesAreMessages
CHECK_DEADLOCK FALSE
