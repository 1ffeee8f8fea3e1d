SPECIFICATION FairSpec
CONSTANTS
    Senders = {s1,s2}
    Actions = {"start", "stop", "init", "break", "begin", "end"}
    InboxCap = 2
    OutboxCap = 1
    MaxWaiters = 2
    ControlMayDie = TRUE
    MayCrash = TRUE
INVARIANTS
      WaitersMatchState 
PROPERTIES
    WaitEnds StopEnds
