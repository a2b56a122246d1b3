CONSTANTS
    c1 = c1
    c2 = c2
    Clients <- TwoClients
    Ids <- MCIds
    Times <- MCTimes
    Recs <- TwoVersions
    Instants <- MCInstants
    TimeToString <- MCTimeToString
    StringToTime <- MCStringToTime
    NoRow = NoRow
    NoTime = NoTime
    MaxIndex = 2
    Faults = {"open", "select", "exec", "commit", "rollback", "crash"}
    Ops = {"write", "read", "del"}
SPECIFICATION FairSpec
PROPERTIES
    CallsReturn
