CONSTANTS
    c1 = c1
    c2 = c2
    Clients <- TwoClients
    Ids <- MCIds
    Times <- MCTimes
    Recs <- MCRecs
    Instants <- MCInstants
    TimeToString <- MCTimeToString
    StringToTime <- MCStringToTime
    NoRow = NoRow
    NoTime = NoTime
    MaxIndex = 3
    Faults = {}
    Ops = {"write","del"}
SPECIFICATION Spec
SYMMETRY Symmetry
PROPERTIES
    FailsForAReason
