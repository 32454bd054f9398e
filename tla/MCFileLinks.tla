---------------------------- MODULE MCFileLinks -----------------------------
(***************************************************************************)
(* The instance of FileLinks for TLC: two callers.                         *)
(***************************************************************************)
EXTENDS FileLinks

CONSTANTS c1, c2

MCCallers == {c1, c2}
=============================================================================
