---------------------------- MODULE ExclusiveUse ----------------------------
(***************************************************************************)
(* What a lock promises to those that use what it protects: one of them at *)
(* a time, each of which stops before another starts.                      *)
(***************************************************************************)
CONSTANTS Resources, Users
VARIABLE using   \* the users of each resource

Init == using = [p \in Resources |-> {}]

Acquire(p, u) == using[p] = {} /\ using' = [using EXCEPT ![p] = {u}]
Release(p, u) == using[p] = {u} /\ using' = [using EXCEPT ![p] = {}]

Next == \E p \in Resources, u \in Users : Acquire(p, u) \/ Release(p, u)

Spec == Init /\ [][Next]_using
=============================================================================
