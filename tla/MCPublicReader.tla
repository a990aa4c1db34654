---------------------------- MODULE MCPublicReader ----------------------------
(***************************************************************************)
(* A reader process and an admin process, and two owners.                  *)
(***************************************************************************)
EXTENDS PublicReader, TLC

CONSTANTS reader, admin, o1, o2
=============================================================================
