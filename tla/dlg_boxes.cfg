CONSTANTS
    p1 = p1
    p2 = p2
    Clients <- OneProgram
    Recs <- DetailedRecs
    Times <- MCTimes
    Instants <- MCInstants
    TimeToString <- MCTimeToString
    StringToTime <- MCStringToTime
    NoRow = NoRow
    Shipped <- DetailedShipped
    MaxBlanks = 1
SPECIFICATION Spec
INVARIANTS
    BoxesShowCurrent
