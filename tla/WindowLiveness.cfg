\* Two chunks competing for one slot, and two callers of Close.
CONSTANTS
    w1 = w1  w2 = w2  c1 = c1  c2 = c2  bodyA = bodyA  bodyB = bodyB
    NoErr = NoErr  Nil = Nil
    ChunkSize = 1  TotalSize = 2  Slots = 1
    Writers = {w1, w2}
    Closers = {c1, c2}
    Bodies = {bodyA}
    CRC32 <- MCChecksumsA
SPECIFICATION FairSpec
INVARIANTS
    RingReleasedOnce
PROPERTIES
    CallsReturn
