CONSTANTS
    p1 = p1
    t1 = t1
    t2 = t2
    lunch = lunch
    Clients <- OneProgram
    Recs <- MCRecs
    Times <- MCTimes
    Instants <- MCInstants
    TimeToString <- MCTimeToString
    StringToTime <- MCStringToTime
    MaxBlanks = 1
    NoRow = NoRow
    Shipped <- NothingShipped
    Files <- MCFiles
    Texts <- MCTexts
    Empty = Empty
    Titles <- MCTitles
    Untitled = Untitled
    Untyped = Untyped
    Clock <- MCClock
    PerDay = 2
SPECIFICATION AppSpec
INVARIANTS
    Configured
PROPERTIES
    MainDialog
    AddedIsEntered
    HandlersEnd
