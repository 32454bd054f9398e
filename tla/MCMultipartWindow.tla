------------------------- MODULE MCMultipartWindow -------------------------
(***************************************************************************)
(* Instances of MultipartWindow for TLC.                                   *)
(***************************************************************************)
EXTENDS MultipartWindow, TLC

CONSTANTS w1, w2, c1, c2, bodyA, bodyB

\* Two payloads with different checksums.
MCChecksums == bodyA :> 11 @@ bodyB :> 22

\* One payload is enough where only progress is at stake.
MCChecksumsA == bodyA :> 11

\* Requests are interchangeable (safety runs only).
MCSymmetry == Permutations({w1, w2})
=============================================================================
