---------------------------- MODULE ActivityQueue ----------------------------
(***************************************************************************)
(* The durable activity queue and the executors that work on it:           *)
(* activity/database.py and activity/queue.py (the queue),                 *)
(* activity/worker.py (claim, heartbeat, run, outcome), activity/runner.py *)
(* and runtime/cli.py (the loops), api/routers/activity.py (the owner).    *)
(*                                                                         *)
(* A transaction is split where another session can commit between two of  *)
(* its statements: _recover_expired reads running rows without locking     *)
(* them and writes them back by primary key, and prune_activity_log        *)
(* selects its victims before it deletes them.  The file-backed queue runs *)
(* the same operations under one inter-process lock; DatabaseBackend       *)
(* chooses between the two.                                                *)
(***************************************************************************)
EXTENDS ActivityRecord, FiniteSets

CONSTANTS Activity,        \* activity ids, all that will ever be created
          Worker,          \* executors: worker processes, runners, API requests
          Runner,          \* those that are an in-process BackgroundActivityRunner
          NoActivity,      \* the job of an executor that has none
          DatabaseBackend, \* FALSE for the file-backed queue
          KeepTerminal,    \* keep_completed and keep_failed of the prune task
          MaxFaults,       \* bound: crashes, lost or late heartbeats, shutdowns
          MaxOwnerOps      \* bound: status changes, retries, deletions by the owner

ASSUME QueueAssumption ==
  /\ Runner \subseteq Worker
  /\ NoActivity \notin Activity
  /\ DatabaseBackend \in BOOLEAN
  /\ KeepTerminal \in Nat
  /\ MaxFaults \in Nat
  /\ MaxOwnerOps \in Nat

VARIABLES row,       \* the table
          issued,    \* how many leases have been issued
          pc,        \* what each executor is doing
          job,       \* the activity it claimed
          lease,     \* the lease it was given, kept in its memory
          beat,      \* is its heartbeat thread alive?
          seen,      \* rows its recovery SELECT found expired
          doomed,    \* rows the prune SELECT chose
          faults, ownerOps,
          lastClaim, \* history: the last lease issued for each activity
          lapsed     \* history: leases that ran out or that the owner revoked

table == <<row, issued>>
execution == <<pc, job, lease, beat, seen>>
history == <<lastClaim, lapsed>>
vars == <<row, issued, pc, job, lease, beat, seen, doomed, faults, ownerOps,
          lastClaim, lapsed>>

PC == {"idle", "recovering", "claimed", "running", "exited", "stopped"}

TypeOK ==
  /\ row \in [Activity -> Row]
  /\ issued \in Nat
  /\ pc \in [Worker -> PC]
  /\ job \in [Worker -> Activity \cup {NoActivity}]
  /\ lease \in [Worker -> Nat]
  /\ beat \in [Worker -> BOOLEAN]
  /\ seen \in [Worker -> SUBSET Activity]
  /\ doomed \in SUBSET Activity
  /\ faults \in Nat
  /\ ownerOps \in Nat
  /\ lastClaim \in [Activity -> Nat]
  /\ lapsed \in SUBSET Nat

Init ==
  /\ row = [a \in Activity |-> UnbornRow]
  /\ issued = 0
  /\ pc = [w \in Worker |-> "idle"]
  /\ job = [w \in Worker |-> NoActivity]
  /\ lease = [w \in Worker |-> NoLease]
  /\ beat = [w \in Worker |-> FALSE]
  /\ seen = [w \in Worker |-> {}]
  /\ doomed = {}
  /\ faults = 0
  /\ ownerOps = 0
  /\ lastClaim = [a \in Activity |-> 0]
  /\ lapsed = {}

Executing(w) == pc[w] \in {"claimed", "running"}

-----------------------------------------------------------------------------
(* Enqueueing without an idempotency key.                                  *)

Create(a) ==
  /\ row[a].status = "unborn"
  /\ row' = [row EXCEPT ![a] = NewRow]
  /\ UNCHANGED <<issued, execution, doomed, faults, ownerOps, history>>

-----------------------------------------------------------------------------
(* Claiming.                                                               *)

ExpiredRows == {a \in Activity : Expired(row[a])}

\* The unlocked SELECT of _recover_expired, first statement of every claim.
BeginClaim(w) ==
  /\ pc[w] = "idle"
  /\ pc' = [pc EXCEPT ![w] = "recovering"]
  /\ seen' = [seen EXCEPT ![w] = ExpiredRows]
  /\ UNCHANGED <<table, job, lease, beat, doomed, faults, ownerOps, history>>

\* Under the file lock nothing changes between the read and the write.
Recovering(w) == IF DatabaseBackend THEN seen[w] ELSE ExpiredRows

\* Faulty variant: a claim looks at pending rows only and recovers nothing.
WithoutRecovery(w) == row

AfterRecovery(w) ==
  [a \in Activity |-> IF a \in Recovering(w) THEN Recovered(row[a]) ELSE row[a]]

\* A row the session read is gone: the flush matches no row and raises.
FlushFails(w) == \E a \in Recovering(w) : ~Exists(row[a])

\* Where an executor lands when an Exception leaves run_next: a runner logs it
\* and polls again, a worker process exits.
RaisePc(w) == IF w \in Runner THEN "idle" ELSE "exited"

\* Flush of the recovered rows, the claiming UPDATE and COMMIT.  Activity a is
\* the requested one, or the oldest pending row no other session has locked.
ClaimRow(w, a) ==
  /\ pc[w] = "recovering"
  /\ ~FlushFails(w)
  /\ AfterRecovery(w)[a].status = "pending"
  /\ issued' = issued + 1
  /\ row' = [AfterRecovery(w) EXCEPT ![a] = Claimed(@, issued + 1)]
  /\ pc' = [pc EXCEPT ![w] = "claimed"]
  /\ job' = [job EXCEPT ![w] = a]
  /\ lease' = [lease EXCEPT ![w] = issued + 1]
  /\ beat' = [beat EXCEPT ![w] = TRUE]
  /\ seen' = [seen EXCEPT ![w] = {}]
  /\ lastClaim' = [lastClaim EXCEPT ![a] = issued + 1]
  /\ UNCHANGED <<doomed, faults, ownerOps, lapsed>>

\* The UPDATE matches no row: nothing is pending, the pending rows are locked
\* by other sessions, or the requested one is not pending.  What was recovered
\* is committed all the same.
ClaimNothing(w) ==
  /\ pc[w] = "recovering"
  /\ ~FlushFails(w)
  /\ row' = AfterRecovery(w)
  /\ pc' = [pc EXCEPT ![w] = "idle"]
  /\ seen' = [seen EXCEPT ![w] = {}]
  /\ UNCHANGED <<issued, job, lease, beat, doomed, faults, ownerOps, history>>

\* The whole transaction rolls back.
ClaimAborts(w) ==
  /\ pc[w] = "recovering"
  /\ FlushFails(w)
  /\ pc' = [pc EXCEPT ![w] = RaisePc(w)]
  /\ seen' = [seen EXCEPT ![w] = {}]
  /\ UNCHANGED <<table, job, lease, beat, doomed, faults, ownerOps, history>>

-----------------------------------------------------------------------------
(* Running a claimed activity.                                             *)

\* The executor forgets its job; leaving _run_claimed_with_heartbeat stops
\* the heartbeat thread.
Leave(w, next) ==
  /\ pc' = [pc EXCEPT ![w] = next]
  /\ job' = [job EXCEPT ![w] = NoActivity]
  /\ lease' = [lease EXCEPT ![w] = NoLease]
  /\ beat' = [beat EXCEPT ![w] = FALSE]
  /\ seen' = [seen EXCEPT ![w] = {}]

\* update_activity_status by the executor, with its lease.
Report(w, s) ==
  row' = IF Accepts(row[job[w]], lease[w])
         THEN [row EXCEPT ![job[w]] = WithStatus(@, s)]
         ELSE row

\* The first update of _run_claimed_activity.  Its result is ignored: an
\* executor whose lease is already gone goes on to run the activity.
StartRun(w) ==
  /\ pc[w] = "claimed"
  /\ Report(w, "running")
  /\ pc' = [pc EXCEPT ![w] = "running"]
  /\ UNCHANGED <<issued, job, lease, beat, seen, doomed, faults, ownerOps, history>>

\* The activity ends: completed, paused by the provider scheduler, or failed.
\* A rejected update raises.
Finish(w, s) ==
  /\ pc[w] = "running"
  /\ Report(w, s)
  /\ Leave(w, IF Accepts(row[job[w]], lease[w]) THEN "idle" ELSE RaisePc(w))
  /\ UNCHANGED <<issued, doomed, faults, ownerOps, history>>

\* A crawl polls for cancellation and raises CancelledError; a missing row
\* counts as cancelled.  When the CANCELLED update is rejected the error is
\* raised again, and it ends the loop of a runner as well as a process.
NoticeCancel(w) ==
  /\ pc[w] = "running"
  /\ row[job[w]].status \in {"cancelled", "deleted"}
  /\ Report(w, "cancelled")
  /\ Leave(w, IF Accepts(row[job[w]], lease[w]) THEN "idle"
              ELSE IF w \in Runner THEN "stopped" ELSE "exited")
  /\ UNCHANGED <<issued, doomed, faults, ownerOps, history>>

\* runner.stop() cancels the task of the loop, and the CancelledError takes
\* the same path as a cancellation by the owner.
Shutdown(w) ==
  /\ w \in Runner
  /\ pc[w] = "running"
  /\ faults < MaxFaults
  /\ faults' = faults + 1
  /\ Report(w, "cancelled")
  /\ Leave(w, "exited")
  /\ UNCHANGED <<issued, doomed, ownerOps, history>>

-----------------------------------------------------------------------------
(* Heartbeats and time.                                                    *)

\* One beat of _lease_heartbeat; a rejected one ends the thread.
Heartbeat(w) ==
  /\ beat[w]
  /\ IF Renewable(row[job[w]], lease[w])
     THEN /\ row' = [row EXCEPT ![job[w]] = Renewed(@)]
          /\ lapsed' = lapsed \ {lease[w]}
          /\ UNCHANGED beat
     ELSE /\ beat' = [beat EXCEPT ![w] = FALSE]
          /\ UNCHANGED <<row, lapsed>>
  /\ UNCHANGED <<issued, pc, job, lease, seen, doomed, faults, ownerOps, lastClaim>>

\* An exception in one beat ends the thread; the run is not told.
HeartbeatDies(w) ==
  /\ beat[w]
  /\ faults < MaxFaults
  /\ faults' = faults + 1
  /\ beat' = [beat EXCEPT ![w] = FALSE]
  /\ UNCHANGED <<table, pc, job, lease, seen, doomed, ownerOps, history>>

Beating(a) == \E w \in Worker : beat[w] /\ job[w] = a /\ lease[w] = row[a].lease

\* LEASE_SECONDS pass without a renewal.  While the holder's heartbeat lives
\* this means that ten beats or more came late, which counts as a fault.
LeaseTimeout(a) ==
  /\ row[a].status = "running"
  /\ row[a].fresh
  /\ IF Beating(a)
     THEN faults < MaxFaults /\ faults' = faults + 1
     ELSE UNCHANGED faults
  /\ row' = [row EXCEPT ![a] = TimedOut(@)]
  /\ lapsed' = lapsed \cup {row[a].lease}
  /\ UNCHANGED <<issued, execution, doomed, ownerOps, lastClaim>>

\* The process dies; an open transaction rolls back.
Crash(w) ==
  /\ pc[w] \in {"recovering", "claimed", "running"}
  /\ faults < MaxFaults
  /\ faults' = faults + 1
  /\ Leave(w, "exited")
  /\ UNCHANGED <<table, doomed, ownerOps, history>>

\* The supervisor starts the process again.
Restart(w) ==
  /\ pc[w] = "exited"
  /\ pc' = [pc EXCEPT ![w] = "idle"]
  /\ UNCHANGED <<table, job, lease, beat, seen, doomed, faults, ownerOps, history>>

-----------------------------------------------------------------------------
(* The owner's endpoints.                                                  *)

OwnerActs ==
  /\ ownerOps < MaxOwnerOps
  /\ ownerOps' = ownerOps + 1

\* PATCH: any status but running, whatever the row's status is.  A running
\* row set back to pending keeps the lease of its executor.
OwnerSets(a, s) ==
  /\ OwnerActs
  /\ Accepts(row[a], NoLease)
  /\ s # "running"
  /\ row' = [row EXCEPT ![a] = WithStatus(@, s)]
  /\ lapsed' = lapsed \cup {row[a].lease}
  /\ UNCHANGED <<issued, execution, doomed, faults, lastClaim>>

OwnerRetries(a) ==
  /\ OwnerActs
  /\ Retryable(row[a])
  /\ row' = [row EXCEPT ![a] = Retried(@)]
  /\ UNCHANGED <<issued, execution, doomed, faults, history>>

OwnerDeletes(a) ==
  /\ OwnerActs
  /\ Exists(row[a])
  /\ row' = [row EXCEPT ![a] = DeletedRow]
  /\ lapsed' = lapsed \cup {row[a].lease}
  /\ UNCHANGED <<issued, execution, doomed, faults, lastClaim>>

\* The admin console starts a runner whose loop has ended.
OwnerStartsRunner(w) ==
  /\ OwnerActs
  /\ pc[w] = "stopped"
  /\ pc' = [pc EXCEPT ![w] = "idle"]
  /\ UNCHANGED <<table, job, lease, beat, seen, doomed, faults, history>>

-----------------------------------------------------------------------------
(* Retention.                                                              *)

Completed == {a \in Activity : row[a].status = "completed"}
\* Faulty variant: everything that has not completed counts as failed.
NotCompleted == {a \in Activity : Exists(row[a]) /\ row[a].status # "completed"}
FailedOrCancelled == {a \in Activity : row[a].status \in {"failed", "cancelled"}}

\* The oldest rows beyond the newest KeepTerminal; finishing times are not
\* kept, so any subset of that size may be the oldest.
Overflow(S) ==
  {D \in SUBSET S :
     Cardinality(D) = IF Cardinality(S) > KeepTerminal
                      THEN Cardinality(S) - KeepTerminal ELSE 0}

\* The rows one pass chooses.
Victims == {C \cup F : C \in Overflow(Completed), F \in Overflow(FailedOrCancelled)}

\* The database backend selects the rows in one statement ...
PruneSelects ==
  /\ DatabaseBackend
  /\ doomed = {}
  /\ doomed' \in Victims \ {{}}
  /\ UNCHANGED <<table, execution, faults, ownerOps, history>>

\* ... and deletes them by id in the next, whatever their status is by then.
PruneDeletes ==
  /\ doomed # {}
  /\ row' = [a \in Activity |-> IF a \in doomed THEN DeletedRow ELSE row[a]]
  /\ doomed' = {}
  /\ UNCHANGED <<issued, execution, faults, ownerOps, history>>

\* The file-backed queue chooses and deletes under its lock.
PruneUnderLock ==
  /\ ~DatabaseBackend
  /\ \E D \in Victims \ {{}} :
       row' = [a \in Activity |-> IF a \in D THEN DeletedRow ELSE row[a]]
  /\ UNCHANGED <<issued, execution, doomed, faults, ownerOps, history>>

-----------------------------------------------------------------------------

Outcome == {"completed", "failed", "paused"}

WorkerStep(w) ==
  \/ BeginClaim(w)
  \/ \E a \in Activity : ClaimRow(w, a)
  \/ ClaimNothing(w)
  \/ ClaimAborts(w)
  \/ StartRun(w)
  \/ \E s \in Outcome : Finish(w, s)
  \/ NoticeCancel(w)
  \/ Shutdown(w)
  \/ Heartbeat(w)
  \/ HeartbeatDies(w)
  \/ Crash(w)
  \/ Restart(w)
  \/ OwnerStartsRunner(w)

ActivityStep(a) ==
  \/ Create(a)
  \/ LeaseTimeout(a)
  \/ \E s \in Status : OwnerSets(a, s)
  \/ OwnerRetries(a)
  \/ OwnerDeletes(a)

Next ==
  \/ \E w \in Worker : WorkerStep(w)
  \/ \E a \in Activity : ActivityStep(a)
  \/ PruneSelects
  \/ PruneDeletes
  \/ PruneUnderLock

Spec == Init /\ [][Next]_vars

(***************************************************************************)
(* Executors keep polling and finish what they run (provider and network   *)
(* calls have deadlines), processes are restarted, and an unrenewed lease  *)
(* runs out.  A pending row is not passed over for ever: claims take the   *)
(* oldest, and a row another session has locked is skipped only while the  *)
(* lock lasts.  The owner, faults and heartbeats owe nothing.              *)
(***************************************************************************)
Fairness ==
  /\ \A w \in Worker :
       /\ WF_vars(BeginClaim(w))
       /\ WF_vars(ClaimNothing(w) \/ ClaimAborts(w))
       /\ WF_vars(StartRun(w))
       /\ WF_vars(\E s \in Outcome : Finish(w, s))
       /\ WF_vars(Restart(w))
  /\ \A a \in Activity :
       /\ WF_vars(LeaseTimeout(a) /\ ~Beating(a))
       /\ SF_vars(\E w \in Worker : ClaimRow(w, a))

FairSpec == Spec /\ Fairness

-----------------------------------------------------------------------------
(* Properties.                                                             *)

\* A running row always has a lease, so that some deadline can free it; a
\* paused or finished row has none, so that no executor can still act on it;
\* and no two rows or two executors ever have the same lease.
LeaseDiscipline ==
  /\ \A a \in Activity :
       /\ row[a].status = "running" => row[a].lease # NoLease
       /\ row[a].status \in Settled => row[a].lease = NoLease
  /\ \A a, b \in Activity :
       a # b /\ row[a].lease = row[b].lease => row[a].lease = NoLease
  /\ \A v, w \in Worker :
       v # w /\ lease[v] = lease[w] => lease[v] = NoLease

\* An executor whose activity has been claimed again since its own claim
\* never changes the row any more: it cannot renew the newer lease, nor
\* report an outcome over the newer run, however late it is.
OnlyLatestClaimantActs ==
  [][\A w \in Worker :
       Executing(w) /\ lease[w] # lastClaim[job[w]] =>
         ~ \/ Heartbeat(w) /\ row' # row
           \/ StartRun(w) /\ row' # row
           \/ NoticeCancel(w) /\ row' # row
           \/ \E s \in Outcome : Finish(w, s) /\ row' # row]_vars

\* A late first update or a late heartbeat never brings a cancelled, paused or
\* finished activity back to running: only a new claim does.
SettledResumesOnlyByClaim ==
  [][\A a \in Activity :
       row[a].status \in Settled /\ row'[a].status = "running" =>
         \E w \in Worker : ClaimRow(w, a)]_vars

\* A paused or finished activity becomes pending again only because the owner
\* asked for it.
SettledByOwnerOnly ==
  [][\A a \in Activity :
       row[a].status \in Settled /\ row'[a].status \notin Settled \cup {"deleted"} =>
         OwnerSets(a, "pending") \/ OwnerRetries(a)]_vars

\* Two executors run the same activity only if the lease of the earlier one
\* ran out without being renewed or the owner took the activity from it.
SupersededOnlyAfterLapse ==
  \A v, w \in Worker :
    Executing(v) /\ Executing(w) /\ job[v] = job[w] /\ lease[v] < lease[w] =>
      lease[v] \in lapsed

\* The retention task deletes finished rows and no others.
PruneKeepsActive ==
  [][PruneDeletes \/ PruneUnderLock =>
       \A a \in Activity : row'[a] # row[a] => row[a].status \in Terminal]_vars

\* What the activities look like without rows and leases: the one holder of an
\* activity is the executor whose lease is on its row.
status == [a \in Activity |-> row[a].status]
holder == [a \in Activity |->
             {w \in Worker : Executing(w) /\ job[w] = a /\ lease[w] = row[a].lease}]
inTime == {a \in Activity : row[a].status = "running" /\ row[a].fresh}

Lifecycle == INSTANCE ActivityLifecycle WITH
  Activities <- Activity, Executors <- Worker, Locked <- ~DatabaseBackend,
  found <- seen, chosen <- doomed, asked <- ownerOps

\* The queue keeps what it promises about an activity: one executor at a time
\* may act on it; others get it when its lease has run out, or had when they
\* looked, or the owner gave it back; what has ended stays so until the owner
\* asks, retention deletes it or such a look was late; what is deleted is gone.
KeepsLifecycle == Lifecycle!Spec

\* The loop of a background runner ends only when it is stopped.
RunnerKeepsPolling == \A w \in Runner : pc[w] # "stopped"

\* Every enqueued activity is brought to an end, or to a pause, whatever
\* crashes and whichever leases are lost on the way.
EventuallySettled ==
  \A a \in Activity :
    row[a].status \in {"pending", "running"}
      ~> row[a].status \in Settled \cup {"deleted"}
=============================================================================
