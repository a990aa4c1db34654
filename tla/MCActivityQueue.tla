--------------------------- MODULE MCActivityQueue ---------------------------
(* Finite instances of ActivityQueue for TLC. *)
EXTENDS ActivityQueue, TLC

\* Activities are interchangeable; so are executors of one kind.
ActivitySymmetry == Permutations(Activity)
AllSymmetry == Permutations(Activity) \cup Permutations(Worker)
=============================================================================
