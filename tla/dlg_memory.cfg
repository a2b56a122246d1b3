CONSTANTS
    p1 = p1
    p2 = p2
    Clients <- TwoPrograms
    Recs <- MCRecs
    Times <- MCTimes
    Instants <- MCInstants
    TimeToString <- MCTimeToString
    StringToTime <- MCStringToTime
    NoRow = NoRow
    Shipped <- NothingShipped
    MaxBlanks = 1
SPECIFICATION Spec
SYMMETRY Symmetry
INVARIANTS
    TypeOK
    MemoryIsStored
    NothingTwice
    ShownIsSelected
    CurrentIsLive
    BriefsAscend
