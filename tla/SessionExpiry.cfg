\* The TTL may elapse in either attempt; Abort, Complete and the collector remove.
CONSTANTS
    t1 = t1  t2 = t2  s1 = s1  u1 = u1  p1 = p1
    fileA = fileA  fileB = fileB  Nil = Nil  GC = GC
    Threads = {t1, t2}
    Users = {u1}
    Paths = {p1}
    Chunks <- MCOneChunk
    Indices <- MCIndicesAbove
    Slots = 1
    Ids = {s1}
    Files = {fileA}
    Hashes = {fileA}
    Content <- MCContentA
    MaxAttempts = 2
    Serves <- MCExpiry
    Expirable = {s1}
SPECIFICATION FairSpec

    
PROPERTIES
    ReleasedOrRevived
