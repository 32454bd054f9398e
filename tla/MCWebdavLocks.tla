--------------------------- MODULE MCWebdavLocks ---------------------------
(***************************************************************************)
(* Instances of WebdavLocks for TLC.                                       *)
(***************************************************************************)
EXTENDS WebdavLocks, TLC

CONSTANTS h1, h2, dir, file

\* A directory and a file in it.
MCAbove == dir :> {dir} @@ file :> {dir, file}

\* Two writes, a copy, a move.
MCTargets == {<<dir, Nil>>, <<file, Nil>>, <<Nil, file>>, <<dir, file>>}

MCDurations == {-1, 1}

MCSymmetry == Permutations({h1, h2})
=============================================================================
