-------------------------- MODULE MCTransferGroups --------------------------
(***************************************************************************)
(* Instances of TransferGroups for TLC: a directory with one file.         *)
(***************************************************************************)
EXTENDS TransferGroups, TLC

CONSTANTS dir, file

MCParent == dir :> Root @@ file :> dir

MCAbove == dir :> {dir} @@ file :> {dir, file}

\* The directory is moved by a task and once more inline.
MCTwoMoves == {<<"move", dir, FALSE>>, <<"move", dir, TRUE>>}

\* The directory is moved by a task.
MCOneMove == {<<"move", dir, FALSE>>}
=============================================================================
