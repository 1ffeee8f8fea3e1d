SPECIFICATION Spec
CONSTANTS
    Procs = {p1, p2}
    MayFail = {"page_buffer", "b0", "b1", "debugfs_dir", "files"}
    Tids = {t1}
    NSlots = 1
    MaxOps = 2
    NoCallEvents = FALSE
INVARIANTS
    SingleOpen  MemMasksSound
