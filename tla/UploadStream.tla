---------------------------- MODULE UploadStream ----------------------------
(***************************************************************************)
(* What a receiving window promises, without ring, slots or threads: each  *)
(* chunk is accepted at most once, at most Window chunks ahead of the      *)
(* reader, and the reader gets the bytes of the file in order, each from   *)
(* the accepted payload of its chunk.  MultipartWindow implements it, and  *)
(* MultipartSession is written against it.                                 *)
(***************************************************************************)
EXTENDS Integers, Sequences

CONSTANTS Size, Piece, Window, Payloads, NoPayload

VARIABLES accepted, delivered, open

Pieces == 0..((Size - 1) \div Piece)

\* The byte of the file at position p, as <<<<piece, payload>>, offset>>.
ByteAt(p) == <<<<p \div Piece, accepted[p \div Piece]>>, p % Piece>>

Init ==
    /\ accepted = [c \in Pieces |-> NoPayload]
    /\ delivered = <<>>
    /\ open = TRUE

Accept(c, b) ==
    /\ open
    /\ accepted[c] = NoPayload
    /\ c < Len(delivered) \div Piece + Window
    /\ accepted' = [accepted EXCEPT ![c] = b]
    /\ UNCHANGED <<delivered, open>>

\* A read returns some bytes of one chunk; one that is under way when the
\* stream is closed may still return them.
Deliver(n) ==
    LET p == Len(delivered) IN
    /\ p + n <= Size
    /\ (p + n - 1) \div Piece = p \div Piece
    /\ accepted[p \div Piece] # NoPayload
    /\ delivered' = delivered \o [i \in 1..n |-> ByteAt(p + i - 1)]
    /\ UNCHANGED <<accepted, open>>

Close ==
    /\ open
    /\ open' = FALSE
    /\ UNCHANGED <<accepted, delivered>>

Next ==
    \/ \E c \in Pieces, b \in Payloads : Accept(c, b)
    \/ \E n \in 1..Piece : Deliver(n)
    \/ Close

Spec == Init /\ [][Next]_<<accepted, delivered, open>>
=============================================================================
