CONSTANTS
    m1 = m1
    m2 = m2
    s1 = s1
    eh = eh
    eh2 = eh2
    al = al
    hk = hk
    fh1 = fh1
    fh2 = fh2
    NULL = NULL
    Core = Core
    Names = {m1, s1}
    Special = {s1}
    InitTargets = {}
    ProcessAll = TRUE
    Ptrs = {p1, p2}
    Providers = {hk}
    Kind <- KindHooks
    Funcs <- FuncsHooks
    MaxKills = 1
SPECIFICATION FairSpec
PROPERTIES LoadCompletes RmmodCompletes
