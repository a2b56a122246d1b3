CONSTANTS
    Instants <- MCInstants
    OtherTexts <- MCOtherTexts
    Days <- MCDays
    DateOf <- MCDateOf
    Offset <- MCOffset
    SummerTime <- MCSummerTime
SPECIFICATION Spec
CHECK_DEADLOCK FALSE
INVARIANTS
    TypeOK
    RoundTrip
    FoundAgain
    NoPieceSkipped
    FormatsAgree
