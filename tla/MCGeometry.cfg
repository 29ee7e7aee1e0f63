SPECIFICATION GeometrySpec
CONSTANTS
    MaxCapacity = 2
    MaxSerial = 2
    Groups = {"async", "sync"}
    Async = "async"
    Caches = {1, 2}
    group <- MCGroup
    Sizes <- MCSizes
    Operands = 2
    MaxOrphans = 1
    Patches = 2
    Threads = {t1, t2}
    Handles = {1, 2}
    Resources = {r1, r2}
    MaxGeneration = 3
    MaxOwner = 2
SYMMETRY Symmetry
INVARIANTS
    NativeMemoryLive
    StageMemoryLive
    LiveWeaponKeepsTextures
