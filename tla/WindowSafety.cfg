\* Three chunks, the last one short, in a ring of two slots.
CONSTANTS
    w1 = w1  w2 = w2  c1 = c1  c2 = c2  bodyA = bodyA  bodyB = bodyB
    NoErr = NoErr  Nil = Nil
    ChunkSize = 2  TotalSize = 5  Slots = 2
    Writers = {w1, w2}
    Closers = {c1}
    Bodies = {bodyA, bodyB}
    CRC32 <- MCChecksums
SPECIFICATION Spec
SYMMETRY MCSymmetry
INVARIANTS
    TypeOK NoRace DeliveredInOrder ReportsExact NoLostWakeup
PROPERTIES
    ImplementsStream
