CONSTANTS
    t1 = t1
    t2 = t2
    Blank = Blank
    Names <- MCNames
    Texts <- MCTexts
    Files <- MCFiles
    Memory <- MCMemory
    MemoryInTag <- MCMemoryInTag
SPECIFICATION ConfSpec
CHECK_DEADLOCK FALSE
INVARIANTS
    TypeOK
    ChildrenLinked
PROPERTIES
    WholeOrRefused
    ParserAdvances
    InitializeEnds
