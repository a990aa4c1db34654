--------------------------- MODULE ActivityRecord ---------------------------
(***************************************************************************)
(* One row of activity_records and what each operation of the queue does   *)
(* to it (activity/database.py; activity/queue.py has the same operations  *)
(* for the file-backed queue).                                             *)
(*                                                                         *)
(* A row keeps its status, the lease that owns it and whether the lease's  *)
(* deadline is still ahead (fresh).  Deadlines are abstracted to that one  *)
(* bit: LEASE_SECONDS passing is a step of the environment that clears it. *)
(* Leases are numbered in the order they are issued, which stands for      *)
(* uuid4: every claim gets one never used before.  The three paused        *)
(* statuses are one, since no operation tells them apart.  Metadata,       *)
(* error text, retry counters and timestamps decide nothing here.          *)
(***************************************************************************)
EXTENDS Naturals

NoLease == 0

Terminal == {"completed", "failed", "cancelled"}
Paused   == {"paused"}
Settled  == Terminal \cup Paused
Status   == {"pending", "running"} \cup Settled

\* "unborn" ids have not been used yet; a deleted id is never used again.
Row == [status : Status \cup {"unborn", "deleted"}, lease : Nat, fresh : BOOLEAN]

Exists(r) == r.status \in Status

UnbornRow  == [status |-> "unborn",  lease |-> NoLease, fresh |-> FALSE]
NewRow     == [status |-> "pending", lease |-> NoLease, fresh |-> FALSE]
DeletedRow == [status |-> "deleted", lease |-> NoLease, fresh |-> FALSE]

\* Faulty variants of the next definition: recovery takes running rows whose
\* deadline is still ahead; recovery takes paused rows too.
ExpiredWhileFresh(r) == r.status = "running"
ExpiredOrPaused(r) == r.status \in {"running"} \cup Paused /\ ~r.fresh

\* What _recover_expired looks for: a running row whose deadline has passed.
Expired(r) == r.status = "running" /\ ~r.fresh

\* Faulty variant: the row gets the name of the stage as its status.
RecoveredAsStage(r) == [status |-> "queued", lease |-> NoLease, fresh |-> FALSE]

\* The values _recover_expired writes, whatever the row holds by then.
Recovered(r) == [status |-> "pending", lease |-> NoLease, fresh |-> FALSE]

\* UPDATE ... RETURNING of a claim.
Claimed(r, l) == [status |-> "running", lease |-> l, fresh |-> TRUE]

\* Faulty variant: the lease is not compared.
AcceptsAnyLease(r, l) == Exists(r)

\* update_activity_status accepts a caller without a lease (the owner) or one
\* whose lease is the row's.
Accepts(r, l) == Exists(r) /\ (l # NoLease => r.lease = l)

\* Faulty variant: pausing leaves the lease on the row.
PauseKeepsLease(r, s) ==
  [status |-> s,
   lease  |-> IF s \in Terminal THEN NoLease ELSE r.lease,
   fresh  |-> IF s \in Terminal THEN FALSE ELSE r.fresh]

\* The row update_activity_status leaves.  Only a worker sets "running", with
\* the row's own lease, so the branch that invents a lease is never taken.
WithStatus(r, s) ==
  [status |-> s,
   lease  |-> IF s \in Settled THEN NoLease ELSE r.lease,
   fresh  |-> IF s \in Settled THEN FALSE
              ELSE (s = "running" /\ r.status # "running") \/ r.fresh]

Retryable(r) == r.status \in {"failed", "cancelled"}

\* retry_activity clears everything an earlier run left on the row.
Retried(r) == [status |-> "pending", lease |-> NoLease, fresh |-> FALSE]

\* The WHERE clause of renew_activity_lease.
Renewable(r, l) == r.status = "running" /\ r.lease = l

Renewed(r) == [status |-> r.status, lease |-> r.lease, fresh |-> TRUE]

\* LEASE_SECONDS pass without a renewal.
TimedOut(r) == [status |-> r.status, lease |-> r.lease, fresh |-> FALSE]
=============================================================================
