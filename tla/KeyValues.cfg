SPECIFICATION Spec
CONSTANTS
    Null = Null
    MaxNoise = 5
    Letters <- MCLetters
    Digits <- MCDigits
    FieldOf <- MCFieldOf
    Numeric = {"port"}
    Lists <- MCLists
    Events <- MCEvents
    Noise <- MCNoise
    Delims <- MCDelims
    HeaderKey <- MCHeaderKey
    UnpairedKey <- MCUnpairedKey
    LogidKey <- MCLogidKey
    SevKey <- MCSevKey
    SrcKey <- MCSrcKey
    RawKey <- MCRawKey
INVARIANTS KeyValuesTypeOK ReadAsWritten NothingOfTheText TheRightOneWins
CHECK_DEADLOCK FALSE
