\* Two clients with two files of two chunks, a retry.
CONSTANTS
    t1 = t1  t2 = t2  s1 = s1  u1 = u1  p1 = p1
    fileA = fileA  fileB = fileB  Nil = Nil  GC = GC
    Threads = {t1, t2}
    Users = {u1}
    Paths = {p1}
    Chunks <- MCTwoChunks
    Indices <- MCTwoChunks
    Slots = 1
    Ids = {s1}
    Files = {fileA, fileB}
    Hashes = {fileA, fileB}
    Content <- MCContentLong
    MaxAttempts = 2
    Serves <- MCChunksOnly
    Expirable = {}
SPECIFICATION ClientSpec
INVARIANTS
    OneFileUploaded
