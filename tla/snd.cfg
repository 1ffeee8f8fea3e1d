SPECIFICATION FairSpec
CONSTANTS
    Clients = {c1, c2}
    Targets = {t1}
    MaxTraces = 1
    MetaPackets = 1
    MaxEvents = 2
    MaxPackets = 2
    NetCap = 1
    PacketErrors = FALSE
    Signals = TRUE
    WorkSignals = FALSE
    MayKill = FALSE
    InitErrors = TRUE
PROPERTIES
    StopTakesEffect UnloadEnds 
    DrainedInSession
INVARIANTS
    StartedInSession 
