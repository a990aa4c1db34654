--------------------------- MODULE MCGeminiQuota ---------------------------
(***************************************************************************)
(* Two coroutines share the project's budget and one credential whose own  *)
(* limits are smaller.                                                     *)
(***************************************************************************)
EXTENDS GeminiQuota

CONSTANTS c1

MCRpm   == [k \in Controllers |-> 2]
MCTpm   == [k \in Controllers |-> 3]
MCRpd   == [k \in Controllers |-> IF k = Project THEN 3 ELSE 2]
MCSlots == [k \in Controllers |-> IF k = Project THEN 2 ELSE 1]
=============================================================================
