------------------------ MODULE MCMultipartSession ------------------------
(***************************************************************************)
(* Instances of MultipartSession for TLC.                                  *)
(***************************************************************************)
EXTENDS MultipartSession, TLC

CONSTANTS t1, t2, s1, u1, p1, fileA, fileB

MCOneChunk == 0..0

MCTwoChunks == 0..1

\* What X-Chunk-Index says: below the range and in it; in it and above it.
MCIndicesBelow == -1..0

MCIndicesAbove == 0..1

\* Two files of one chunk; two files of two chunks that have nothing in common.
MCContent == fileA :> (0 :> 10) @@ fileB :> (0 :> 20)

MCContentA == fileA :> (0 :> 10)

MCContentLong == fileA :> (0 :> 10 @@ 1 :> 11) @@ fileB :> (0 :> 20 @@ 1 :> 21)

\* Who is asked what.
MCUpload == t1 :> {"init", "chunk", "status"} @@ t2 :> {"chunk", "complete", "abort"}

MCExpiry == t1 :> {"init", "chunk"} @@ t2 :> {"complete", "abort"}

MCComplete == t1 :> {"init", "chunk"} @@ t2 :> {"complete"}

MCChunksOnly == t1 :> {"init", "chunk"} @@ t2 :> {"init", "chunk"}
===========================================================================
