------------------------------ MODULE MCFileLock ------------------------------
(* Finite instances of FileLock for TLC. *)
EXTENDS FileLock, TLC

\* Processes are interchangeable.
ProcessSymmetry == Permutations(Process)
=============================================================================
