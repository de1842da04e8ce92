SPECIFICATION FairSpec
CONSTANTS
    Messages <- MCMessages
    Styles = {"octet", "newline"}
    MaxMessage = 3
    MaxPrefix = 2
    Headroom = 3
    RecvSize = 5
    MaxSent = 3
    AnyFirst = FALSE
INVARIANTS TypeOK LossIsCounted HoldsLittle
PROPERTIES KeepsOrder MessagesArrive
CHECK_DEADLOCK FALSE
