---------------------------- MODULE MCScheduledJob ----------------------------
(* Finite instances of ScheduledJob for TLC. *)
EXTENDS ScheduledJob, TLC

\* Instances of the application are interchangeable.
InstanceSymmetry == Permutations(Instance)
=============================================================================
