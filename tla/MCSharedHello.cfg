SPECIFICATION MCSpec
CONSTANTS
    Parts = {"obfs"}
    Conns = {c1, c2}
    Buffers = {b1, b2}
    ChunkSize = 2
    Lens = {0, 1, 3}
    MaxBytes = 2
    Trackers = {t1}
    PushSizes = {0, 1, 2}
    MaxPushed = 2
    MaxTicks = 2
    MaxResets = 1
    MaxClass = 3
    GetSizes <- MCGetSizes
    Caps = {0, 1, 2, 3, 4, 5, 6, 7, 8, 9}
    Users = {u1}
    Bufs = {r1}
INVARIANTS
    HelloIsOwn
CHECK_DEADLOCK FALSE
