CONSTANTS
    p1 = p1
    p2 = p2
    Clients <- OneProgram
    Recs <- MCRecs
    Times <- MCTimes
    Instants <- MCInstants
    TimeToString <- MCTimeToString
    StringToTime <- MCStringToTime
    NoRow = NoRow
    Shipped <- NothingShipped
    MaxBlanks = 1
SPECIFICATION Spec
INVARIANTS
    BriefsAreAll
