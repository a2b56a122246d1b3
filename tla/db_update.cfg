CONSTANTS
    c1 = c1
    c2 = c2
    Clients <- OneClient
    Ids <- MCIds
    Times <- MCTimes
    Recs <- TwoVersions
    Instants <- MCInstants
    TimeToString <- MCTimeToString
    StringToTime <- MCStringToTime
    NoRow = NoRow
    NoTime = NoTime
    MaxIndex = 2
    Faults = {}
    Ops = {"write"}
SPECIFICATION Spec
INVARIANTS
    ExistingRecordIsUpdated
