CONSTANTS
    c1 = c1
    c2 = c2
    Clients <- TwoClients
    Ids <- MCIds
    Times <- MCTimes
    Recs <- MCRecs
    Instants <- WinterInstants
    TimeToString <- WinterTimeToString
    StringToTime <- WinterStringToTime
    NoRow = NoRow
    NoTime = NoTime
    MaxIndex = 2
    Faults = {"open", "select", "exec", "commit", "rollback", "crash"}
    Ops = {"write", "read", "del", "list"}
SPECIFICATION Spec
SYMMETRY Symmetry
INVARIANTS
    TypeOK
    
    LocksReleased
    

    
