SPECIFICATION Spec
CONSTANTS
    Clients = {c1}
    Targets = {t1}
    MaxTraces = 2
    MetaPackets = 1
    MaxEvents = 1
    MaxPackets = 2
    NetCap = 1
    PacketErrors = TRUE
    Signals = TRUE
    WorkSignals = TRUE
    MayKill = FALSE
    InitErrors = TRUE
INVARIANTS
    ServerTypeOK   WorkNotForgotten
