SPECIFICATION DeliverySpec
CONSTANTS
    Server = srv
    Senders = {srv}
    Clients = {srv}
    Actions = {"start", "init", "break"}
    InboxCap = 1
    OutboxCap = 1
    MaxWaiters = 1
    ControlMayDie = FALSE
    MayCrash = FALSE
    Targets = {t1}
    MaxTraces = 1
    MetaPackets = 1
    MaxEvents = 1
    MaxPackets = 1
    NetCap = 2
    PacketErrors = FALSE
    Signals = FALSE
    WorkSignals = FALSE
    MayKill = TRUE
    InitErrors = FALSE
INVARIANTS
    SessionsAgree TracesAgree
CHECK_DEADLOCK FALSE
