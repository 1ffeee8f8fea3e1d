SPECIFICATION FairSpec
CONSTANTS
    PageSize = 4
    NrDataPages = 4
    B0Pages = 1
    NotifyMark = 2
    HdrSize = 2
    EvSizes = {2, 3}
    CompHdr = 4
    CompSizes = {1}
    MaxLost = 3
    MaxSessions = 1
    MayDie = TRUE

    
INVARIANTS TypeOK BufferIsQueue EventsConserved NotAsleepOnData
