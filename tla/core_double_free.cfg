CONSTANTS
    m1 = m1
    m2 = m2
    s1 = s1
    eh = eh
    eh2 = eh2
    al = al
    hk = hk
    fh1 = fh1
    fh2 = fh2
    NULL = NULL
    Core = Core
    Names = {m1}
    Special = {}
    InitTargets = {m1}
    ProcessAll = FALSE
    Ptrs = {p1, p2}
    Providers = {eh, eh2, al, fh1, fh2}
    Kind <- KindRich
    Funcs <- FuncsRich
    MaxKills = 0
SPECIFICATION Spec
PROPERTY NoDoubleFree
