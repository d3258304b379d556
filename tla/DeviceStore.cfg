SPECIFICATION Spec
CONSTANTS
    d1 = d1
    d2 = d2
    u1 = u1
    u2 = u2
    g1 = g1
    g2 = g2
    Devices = {d1, d2}
    Busy = {d1}
    Urls = {u1, u2}
    Metas = {g1, g2}
    Lists <- MCLists
    Legacies <- MCLegacies
    Edits <- MCEdits
    Bare = Bare
    Blank = Blank
    Broken = Broken
    None = None
CHECK_DEADLOCK FALSE
INVARIANTS
    LossIsReported
PROPERTIES
    ImplementsAtomicStore
    MetaKept
