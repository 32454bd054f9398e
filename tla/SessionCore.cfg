\* Two clients with two files of one chunk, one session, a retry, an abort, an index
\* below the range.  Once a mutex is lost the manager may stop for good.
CONSTANTS
    t1 = t1  t2 = t2  s1 = s1  u1 = u1  p1 = p1
    fileA = fileA  fileB = fileB  Nil = Nil  GC = GC
    Threads = {t1, t2}
    Users = {u1}
    Paths = {p1}
    Chunks <- MCOneChunk
    Indices <- MCIndicesBelow
    Slots = 1
    Ids = {s1}
    Files = {fileA, fileB}
    Hashes = {fileA}
    Content <- MCContent
    MaxAttempts = 2
    Serves <- MCUpload
    Expirable = {}
CHECK_DEADLOCK FALSE
SPECIFICATION FairSpec
INVARIANTS
    TypeOK OneAttempt StragglersAbsorbed
PROPERTIES
    EndedStaysEnded OnlyMismatchOverturns RequestReturns
