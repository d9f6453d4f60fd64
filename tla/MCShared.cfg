SPECIFICATION MCSpec
CONSTANTS
    Parts = {"obfs", "statistic", "allocator"}
    Conns = {c1, c2}
    Buffers = {b1, b2}
    ChunkSize = 2
    Lens = {0, 1, 3}
    MaxBytes = 6
    Trackers = {t1, t2}
    PushSizes = {0, 1, 2}
    MaxPushed = 2
    MaxTicks = 2
    MaxResets = 1
    MaxClass = 3
    GetSizes <- MCGetSizes
    Caps = {0, 1, 2, 3, 4, 5, 6, 7, 8, 9}
    Users = {u1, u2}
    Bufs = {r1, r2, r3}
SYMMETRY Symmetry
INVARIANTS
    RecordsInOrder
    CountersAccount
    PooledCapacity
PROPERTIES
    MostAppropriate
CHECK_DEADLOCK FALSE
