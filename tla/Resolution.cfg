SPECIFICATION Spec
CONSTANTS
    Texts <- AllTexts
    Metas <- FourPeers
    Sources <- Definitions
    MaxEvents = 2
INVARIANTS
    ResolutionTypeOK
    StatusIsHonest
    CountersAgree
    HintNeverBypasses
    SteeredBySource
    OneEnvelope
    OriginalsSurvive
CONSTRAINT SecondIsShort
CHECK_DEADLOCK FALSE
