----------------------------- MODULE MCNoteLock -----------------------------
(***************************************************************************)
(* NoteLock for TLC: two notes and the files they may share.               *)
(***************************************************************************)
EXTENDS NoteLockProperties, TLC

\* The files at first are alike, and a file's copy has one name to take.
Symmetric == Permutations(First)

\* Two edits among two passes, or one among three.
FewStarts == edits + passes <= 4
=============================================================================
