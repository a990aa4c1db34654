------------------------- MODULE MCChunkTranslation -------------------------
(***************************************************************************)
(* A chapter of two chunks and the executions of one run.                  *)
(***************************************************************************)
EXTENDS ChunkTranslation, TLC

ChunkSymmetry == Permutations(Chunks)
=============================================================================
