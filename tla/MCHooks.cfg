SPECIFICATION LevelSpec
CONSTANTS
    Attempts = {a1, a2}
    Targets = {t1, t2}
    Threads = {d1, d2, d3}
    None = None
    p1 = p1
    p2 = p2
    h1 = h1
    h2 = h2
    base = base
    workbench = workbench
    Clients = {p1, p2, h1, h2}
    Owners = {base, workbench}
    OwnerOf <- MCOwnerOf
    Patches <- MCPatches
    Entries <- MCEntries
    Last = 5
INVARIANTS
    TrampolinesLive
    RetiredAlone
    OneEditor
    ReleasedMeansClean
PROPERTY
    UninstallEnds
