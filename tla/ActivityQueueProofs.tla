------------------------- MODULE ActivityQueueProofs -------------------------
(***************************************************************************)
(* Theorems about ActivityQueue, for every set of activities and executors *)
(* and every value of the bounds.  The inductive invariant relates three   *)
(* copies of a lease: the one on the row, the one in the memory of the     *)
(* executor that got it, and the last one issued for the activity.         *)
(***************************************************************************)
EXTENDS ActivityQueue, TLAPS

\* What an executor remembers between its claim and its outcome.
ExecutionInv ==
  \A w \in Worker :
    /\ Executing(w) =>
         /\ job[w] \in Activity
         /\ lease[w] # NoLease
         /\ lease[w] <= lastClaim[job[w]]
    /\ ~Executing(w) => lease[w] = NoLease /\ ~beat[w]

\* The lease on a row is the last one issued for it (c), and only a pending or
\* a running row has one.
RowOK(r, c) ==
  /\ r \in Row
  /\ r.lease \in {NoLease, c}
  /\ r.status = "running" => r.lease # NoLease
  /\ r.status \notin {"pending", "running"} => r.lease = NoLease

RowInv == \A a \in Activity : RowOK(row[a], lastClaim[a])

\* Leases are issued in order and each to one executor, for one activity.
IssueInv ==
  /\ \A a \in Activity : lastClaim[a] <= issued
  /\ \A w \in Worker : lease[w] <= issued
  /\ \A a, b \in Activity :
       a # b /\ lastClaim[a] = lastClaim[b] => lastClaim[a] = NoLease
  /\ \A v, w \in Worker :
       v # w /\ lease[v] = lease[w] => lease[v] = NoLease

IInv == TypeOK /\ ExecutionInv /\ RowInv /\ IssueInv

-----------------------------------------------------------------------------
(* The operations on one row.                                              *)

\* Rows without a lease are in order whatever was claimed before.
LEMMA FreeRows ==
  ASSUME NEW r, NEW c \in Nat
  PROVE  /\ RowOK(UnbornRow, c) /\ RowOK(NewRow, c) /\ RowOK(DeletedRow, c)
         /\ RowOK(Recovered(r), c) /\ RowOK(Retried(r), c)
  BY DEF RowOK, Row, UnbornRow, NewRow, DeletedRow, Recovered, Retried,
         Status, Settled, Terminal, Paused, NoLease

\* A claim puts the lease it issues on the row.
LEMMA ClaimedRow ==
  ASSUME NEW r, NEW c \in Nat, c # NoLease
  PROVE  RowOK(Claimed(r, c), c)
  BY DEF RowOK, Row, Claimed, Status, NoLease

\* Renewing a lease and running out of it leave the lease where it is.
LEMMA TimedRows ==
  ASSUME NEW r, NEW c \in Nat, RowOK(r, c)
  PROVE  RowOK(Renewed(r), c) /\ RowOK(TimedOut(r), c)
  BY DEF RowOK, Row, Renewed, TimedOut

\* A status update keeps the lease or clears it, and clears it for every
\* status but pending and running.
LEMMA StatusUpdate ==
  ASSUME NEW r, NEW c \in Nat, RowOK(r, c), NEW s \in Status,
         s = "running" => r.lease # NoLease
  PROVE  RowOK(WithStatus(r, s), c)
  BY DEF RowOK, Row, WithStatus, Status, Settled, Terminal, Paused, NoLease

\* What a Report leaves in the table, accepted or not.
LEMMA ReportedTable ==
  ASSUME IInv, NEW w \in Worker, Executing(w), NEW s \in Status, Report(w, s)
  PROVE  /\ row' \in [Activity -> Row]
         /\ \A a \in Activity : RowOK(row'[a], lastClaim[a])
<1> DEFINE j == job[w]
<1>1. /\ j \in Activity
      /\ lease[w] # NoLease
      /\ row \in [Activity -> Row]
      /\ lastClaim[j] \in Nat
      /\ RowOK(row[j], lastClaim[j])
  BY DEF IInv, TypeOK, ExecutionInv, RowInv
<1>2. CASE Accepts(row[j], lease[w])
  <2>1. RowOK(WithStatus(row[j], s), lastClaim[j])
    BY <1>1, <1>2, StatusUpdate DEF Accepts
  <2>2. row' = [row EXCEPT ![j] = WithStatus(row[j], s)]
    BY <1>2 DEF Report
  <2> QED BY <1>1, <2>1, <2>2 DEF IInv, RowInv, RowOK
<1>3. CASE ~Accepts(row[j], lease[w])
  BY <1>3 DEF Report, IInv, TypeOK, RowInv
<1> QED BY <1>2, <1>3

\* After an executor has left, it remembers nothing.
LEMMA LeftExecution ==
  ASSUME IInv, NEW w \in Worker, NEW next \in PC \ {"claimed", "running"},
         Leave(w, next), UNCHANGED <<issued, lastClaim>>
  PROVE  /\ ExecutionInv' /\ IssueInv'
         /\ pc' \in [Worker -> PC]
         /\ job' \in [Worker -> Activity \cup {NoActivity}]
         /\ lease' \in [Worker -> Nat]
         /\ beat' \in [Worker -> BOOLEAN]
         /\ seen' \in [Worker -> SUBSET Activity]
<1>1. /\ pc' \in [Worker -> PC]
      /\ job' \in [Worker -> Activity \cup {NoActivity}]
      /\ lease' \in [Worker -> Nat]
      /\ beat' \in [Worker -> BOOLEAN]
      /\ seen' \in [Worker -> SUBSET Activity]
  BY DEF Leave, IInv, TypeOK, NoLease
<1>2. ExecutionInv'
  BY DEF Leave, IInv, TypeOK, ExecutionInv, Executing, PC
<1>3. IssueInv'
  BY DEF Leave, IInv, TypeOK, IssueInv, NoLease
<1> QED BY <1>1, <1>2, <1>3

-----------------------------------------------------------------------------
(* The inductive invariant.                                                *)

LEMMA InitIInv == Init => IInv
<1> SUFFICES ASSUME Init PROVE IInv
  OBVIOUS
<1>1. TypeOK
  BY DEF Init, TypeOK, Row, UnbornRow, PC, NoLease
<1>2. ExecutionInv /\ IssueInv
  BY DEF Init, ExecutionInv, Executing, IssueInv, NoLease
<1>3. RowInv
  BY FreeRows DEF Init, RowInv
<1> QED BY <1>1, <1>2, <1>3 DEF IInv

\* The rows are in order after the flush of a recovery.
LEMMA RecoveredTable ==
  ASSUME IInv, NEW w \in Worker
  PROVE  /\ AfterRecovery(w) \in [Activity -> Row]
         /\ \A a \in Activity : RowOK(AfterRecovery(w)[a], lastClaim[a])
<1>1. \A a \in Activity : RowOK(AfterRecovery(w)[a], lastClaim[a])
  BY FreeRows DEF AfterRecovery, IInv, TypeOK, RowInv
<1> QED BY <1>1 DEF AfterRecovery, RowOK

\* Only the table changed, and its rows are still in order.
LEMMA TableStep ==
  ASSUME IInv,
         row' \in [Activity -> Row],
         \A a \in Activity : RowOK(row'[a], lastClaim[a]),
         UNCHANGED <<issued, execution, lastClaim>>,
         doomed' \subseteq Activity, faults' \in Nat, ownerOps' \in Nat,
         lapsed' \subseteq Nat
  PROVE  IInv'
  BY DEF IInv, TypeOK, ExecutionInv, Executing, RowInv, IssueInv, execution

\* One row changed, and it is still in order.
LEMMA RowStep ==
  ASSUME IInv, NEW a \in Activity, NEW r, RowOK(r, lastClaim[a]),
         row' = [row EXCEPT ![a] = r]
  PROVE  /\ row' \in [Activity -> Row]
         /\ \A b \in Activity : RowOK(row'[b], lastClaim[b])
  BY DEF IInv, TypeOK, RowInv, RowOK

\* Every step of an executor preserves the invariant.
LEMMA WorkerStepIInv ==
  ASSUME IInv, NEW w \in Worker, WorkerStep(w)
  PROVE  IInv'
<1> USE DEF IInv
<1>1. CASE BeginClaim(w)
  <2>1. TypeOK'
    BY <1>1 DEF BeginClaim, TypeOK, PC, ExpiredRows, table, history
  <2>2. ExecutionInv' /\ RowInv' /\ IssueInv'
    BY <1>1 DEF BeginClaim, TypeOK, ExecutionInv, Executing, RowInv, IssueInv,
                table, history
  <2> QED BY <2>1, <2>2
<1>2. ASSUME NEW a \in Activity, ClaimRow(w, a) PROVE IInv'
  <2> DEFINE l == issued + 1
  <2> USE <1>2 DEF ClaimRow
  <2>1. /\ l \in Nat /\ l # NoLease
        /\ \A b \in Activity : lastClaim[b] \in Nat /\ lastClaim[b] < l
        /\ \A v \in Worker : lease[v] \in Nat /\ lease[v] < l
    BY DEF TypeOK, IssueInv, NoLease
  <2>2. \A b \in Activity : RowOK(row'[b], lastClaim'[b])
    BY <2>1, ClaimedRow, RecoveredTable DEF TypeOK
  <2>3. TypeOK'
    BY <2>1, <2>2, RecoveredTable DEF TypeOK, RowOK, PC
  <2>4. ExecutionInv'
    BY <2>1 DEF TypeOK, ExecutionInv, Executing
  <2>5. IssueInv'
    BY <2>1 DEF TypeOK, IssueInv
  <2> QED BY <2>2, <2>3, <2>4, <2>5 DEF RowInv
<1>3. CASE ClaimNothing(w)
  <2>1. RowInv' /\ row' \in [Activity -> Row]
    BY <1>3, RecoveredTable DEF ClaimNothing, RowInv, history
  <2>2. TypeOK'
    BY <1>3, <2>1 DEF ClaimNothing, TypeOK, PC, history
  <2>3. ExecutionInv' /\ IssueInv'
    BY <1>3 DEF ClaimNothing, TypeOK, ExecutionInv, Executing, IssueInv, history
  <2> QED BY <2>1, <2>2, <2>3
<1>4. CASE ClaimAborts(w)
  <2>1. TypeOK'
    BY <1>4 DEF ClaimAborts, RaisePc, TypeOK, PC, table, history
  <2>2. ExecutionInv' /\ RowInv' /\ IssueInv'
    BY <1>4 DEF ClaimAborts, RaisePc, TypeOK, ExecutionInv, Executing, RowInv,
                IssueInv, table, history
  <2> QED BY <2>1, <2>2
<1>5. CASE StartRun(w)
  <2>1. /\ row' \in [Activity -> Row]
        /\ \A a \in Activity : RowOK(row'[a], lastClaim[a])
    BY <1>5, ReportedTable DEF StartRun, Executing, Status
  <2>2. TypeOK'
    BY <1>5, <2>1 DEF StartRun, TypeOK, PC, history
  <2>3. ExecutionInv' /\ RowInv' /\ IssueInv'
    BY <1>5, <2>1 DEF StartRun, TypeOK, ExecutionInv, Executing, RowInv,
                      IssueInv, history
  <2> QED BY <2>2, <2>3
<1>6. ASSUME NEW s \in Status, NEW next \in PC \ {"claimed", "running"},
             Executing(w), Report(w, s), Leave(w, next), faults' \in Nat,
             UNCHANGED <<issued, doomed, ownerOps, history>>
      PROVE  IInv'
  <2>1. /\ row' \in [Activity -> Row]
        /\ \A a \in Activity : RowOK(row'[a], lastClaim[a])
    BY <1>6, ReportedTable
  <2> QED BY <1>6, <2>1, LeftExecution DEF TypeOK, RowInv, history
<1>7. ASSUME NEW s \in Outcome, Finish(w, s) PROVE IInv'
  BY <1>6, <1>7 DEF Finish, TypeOK, Outcome, Status, Settled, Terminal, Paused,
                    Executing, PC, RaisePc
<1>8. CASE NoticeCancel(w)
  BY <1>6, <1>8 DEF NoticeCancel, TypeOK, Status, Settled, Terminal, Executing,
                    PC
<1>9. CASE Shutdown(w)
  BY <1>6, <1>9 DEF Shutdown, TypeOK, Status, Settled, Terminal, Executing, PC
<1>10. CASE Heartbeat(w)
  <2>1. job[w] \in Activity
    BY <1>10 DEF Heartbeat, ExecutionInv
  <2>2. CASE Renewable(row[job[w]], lease[w])
    <3>1. RowOK(Renewed(row[job[w]]), lastClaim[job[w]])
      BY <2>1, TimedRows DEF TypeOK, RowInv
    <3>2. row' = [row EXCEPT ![job[w]] = Renewed(row[job[w]])]
      BY <1>10, <2>2 DEF Heartbeat
    <3>3. /\ row' \in [Activity -> Row]
          /\ \A a \in Activity : RowOK(row'[a], lastClaim[a])
      BY <2>1, <3>1, <3>2, RowStep
    <3> QED BY <1>10, <2>2, <3>3, TableStep DEF Heartbeat, TypeOK, execution
  <2>3. CASE ~Renewable(row[job[w]], lease[w])
    BY <1>10, <2>3 DEF Heartbeat, TypeOK, ExecutionInv, Executing, RowInv, IssueInv
  <2> QED BY <2>2, <2>3
<1>11. CASE HeartbeatDies(w)
  BY <1>11 DEF HeartbeatDies, TypeOK, ExecutionInv, Executing, RowInv, IssueInv,
               table, history
<1>12. CASE Crash(w)
  BY <1>12, LeftExecution DEF Crash, TypeOK, PC, RowInv, table, history
<1>13. CASE Restart(w)
  BY <1>13 DEF Restart, TypeOK, ExecutionInv, Executing, PC, RowInv, IssueInv,
               table, history
<1>14. CASE OwnerStartsRunner(w)
  BY <1>14 DEF OwnerStartsRunner, OwnerActs, TypeOK, ExecutionInv, Executing, PC,
               RowInv, IssueInv, table, history
<1> QED BY <1>1, <1>2, <1>3, <1>4, <1>5, <1>7, <1>8, <1>9, <1>10, <1>11, <1>12,
           <1>13, <1>14 DEF WorkerStep

\* Every step on the table by the owner, a deadline or an enqueue preserves
\* the invariant.
LEMMA ActivityStepIInv ==
  ASSUME IInv, NEW a \in Activity, ActivityStep(a)
  PROVE  IInv'
<1> DEFINE c == lastClaim[a]
<1>1. /\ c \in Nat
      /\ RowOK(row[a], c)
      /\ row[a].lease \in Nat
      /\ doomed \subseteq Activity /\ faults \in Nat /\ ownerOps \in Nat
      /\ lapsed \subseteq Nat
  BY DEF IInv, TypeOK, RowInv, Row
<1>2. CASE Create(a)
  BY <1>1, <1>2, FreeRows, RowStep, TableStep DEF Create, history
<1>3. CASE LeaseTimeout(a)
  <2>1. row' = [row EXCEPT ![a] = TimedOut(row[a])]
    BY <1>3 DEF LeaseTimeout
  <2>2. faults' \in Nat
    BY <1>1, <1>3 DEF LeaseTimeout
  <2> QED BY <1>1, <1>3, <2>1, <2>2, TimedRows, RowStep, TableStep DEF LeaseTimeout
<1>4. ASSUME NEW s \in Status, OwnerSets(a, s) PROVE IInv'
  <2>1. row' = [row EXCEPT ![a] = WithStatus(row[a], s)] /\ s # "running"
    BY <1>4 DEF OwnerSets
  <2>2. RowOK(WithStatus(row[a], s), c)
    BY <1>1, <2>1, StatusUpdate
  <2>3. /\ row' \in [Activity -> Row]
        /\ \A b \in Activity : RowOK(row'[b], lastClaim[b])
    BY <2>1, <2>2, RowStep
  <2>4. lapsed' = lapsed \cup {row[a].lease} /\ ownerOps' = ownerOps + 1
    BY <1>4 DEF OwnerSets, OwnerActs
  <2>5. lapsed' \subseteq Nat
    BY <1>1, <2>4
  <2>6. ownerOps' \in Nat
    BY <1>1, <2>4
  <2> QED BY <1>1, <1>4, <2>3, <2>5, <2>6, TableStep DEF OwnerSets
<1>5. CASE OwnerRetries(a)
  <2>1. row' = [row EXCEPT ![a] = Retried(row[a])]
    BY <1>5 DEF OwnerRetries
  <2>2. RowOK(Retried(row[a]), c)
    BY <1>1, FreeRows
  <2>3. /\ row' \in [Activity -> Row]
        /\ \A b \in Activity : RowOK(row'[b], lastClaim[b])
    BY <2>1, <2>2, RowStep
  <2> QED BY <1>1, <1>5, <2>3, TableStep DEF OwnerRetries, OwnerActs, history
<1>6. CASE OwnerDeletes(a)
  <2>1. row' = [row EXCEPT ![a] = DeletedRow]
    BY <1>6 DEF OwnerDeletes
  <2>2. RowOK(DeletedRow, c)
    BY <1>1, FreeRows
  <2>3. /\ row' \in [Activity -> Row]
        /\ \A b \in Activity : RowOK(row'[b], lastClaim[b])
    BY <2>1, <2>2, RowStep
  <2>4. lapsed' = lapsed \cup {row[a].lease} /\ ownerOps' = ownerOps + 1
    BY <1>6 DEF OwnerDeletes, OwnerActs
  <2>5. lapsed' \subseteq Nat
    BY <1>1, <2>4
  <2>6. ownerOps' \in Nat
    BY <1>1, <2>4
  <2> QED BY <1>1, <1>6, <2>3, <2>5, <2>6, TableStep DEF OwnerDeletes
<1> QED BY <1>2, <1>3, <1>4, <1>5, <1>6 DEF ActivityStep

\* Deleting any set of rows preserves the invariant.
LEMMA DeletionIInv ==
  ASSUME IInv, NEW D,
         row' = [a \in Activity |-> IF a \in D THEN DeletedRow ELSE row[a]],
         doomed' \subseteq Activity,
         UNCHANGED <<issued, execution, faults, ownerOps, history>>
  PROVE  IInv'
<1>1. \A a \in Activity : lastClaim[a] \in Nat /\ RowOK(row[a], lastClaim[a])
  BY DEF IInv, TypeOK, RowInv
<1>2. \A a \in Activity : RowOK(row'[a], lastClaim[a])
  BY <1>1, FreeRows
<1>3. row' \in [Activity -> Row]
  BY <1>2 DEF RowOK
<1> QED BY <1>2, <1>3, TableStep DEF IInv, TypeOK, history

LEMMA NextIInv == IInv /\ [Next]_vars => IInv'
<1> SUFFICES ASSUME IInv, [Next]_vars PROVE IInv'
  OBVIOUS
<1>1. ASSUME NEW w \in Worker, WorkerStep(w) PROVE IInv'
  BY <1>1, WorkerStepIInv
<1>2. ASSUME NEW a \in Activity, ActivityStep(a) PROVE IInv'
  BY <1>2, ActivityStepIInv
<1>3. CASE PruneSelects
  <2>1. PICK C \in Overflow(Completed), F \in Overflow(FailedOrCancelled) :
          doomed' = C \cup F
    BY <1>3 DEF PruneSelects, Victims
  <2>2. C \subseteq Activity /\ F \subseteq Activity
    BY DEF Overflow, Completed, FailedOrCancelled
  <2>3. doomed' \subseteq Activity
    BY <2>1, <2>2
  <2> QED BY <1>3, <2>3, TableStep DEF PruneSelects, IInv, TypeOK, RowInv, table, history
<1>4. CASE PruneDeletes
  BY <1>4, DeletionIInv DEF PruneDeletes
<1>5. CASE PruneUnderLock
  BY <1>5, DeletionIInv DEF PruneUnderLock, IInv, TypeOK
<1>6. CASE UNCHANGED vars
  BY <1>6, TableStep DEF vars, IInv, TypeOK, RowInv, execution
<1> QED BY <1>1, <1>2, <1>3, <1>4, <1>5, <1>6 DEF Next

THEOREM Inductive == Spec => []IInv
BY InitIInv, NextIInv, PTL DEF Spec

-----------------------------------------------------------------------------
(* What follows from it.                                                   *)

\* Every variable keeps its type, for every number of activities, executors,
\* faults and owner operations.
THEOREM TypeCorrect == Spec => []TypeOK
<1>1. IInv => TypeOK
  BY DEF IInv
<1> QED BY <1>1, Inductive, PTL

\* A running row has a lease, a settled one has none, and no lease is held
\* twice.
THEOREM LeasesAreDisciplined == Spec => []LeaseDiscipline
<1>1. IInv => LeaseDiscipline
  BY DEF IInv, TypeOK, RowInv, RowOK, IssueInv, LeaseDiscipline, Settled,
         Terminal, Paused, NoLease
<1> QED BY <1>1, Inductive, PTL

\* An executor that has been superseded cannot touch the row: the row's lease
\* is the last one issued for it or none, and the executor holds another.
THEOREM SupersededIsPowerless == Spec => OnlyLatestClaimantActs
<1> DEFINE Powerless ==
      \A w \in Worker :
        Executing(w) /\ lease[w] # lastClaim[job[w]] =>
          ~ \/ Heartbeat(w) /\ row' # row
            \/ StartRun(w) /\ row' # row
            \/ NoticeCancel(w) /\ row' # row
            \/ \E s \in Outcome : Finish(w, s) /\ row' # row
<1>1. IInv => Powerless
  <2> SUFFICES ASSUME IInv, NEW w \in Worker, Executing(w),
                      lease[w] # lastClaim[job[w]]
               PROVE  /\ Heartbeat(w) => row' = row
                      /\ \A s \in Status : Report(w, s) => row' = row
    BY DEF StartRun, NoticeCancel, Finish, Outcome, Status, Settled, Terminal, Paused
  <2>1. job[w] \in Activity /\ lease[w] # NoLease
    BY DEF IInv, ExecutionInv
  <2>2. row[job[w]].lease # lease[w]
    BY <2>1 DEF IInv, RowInv, RowOK
  <2> QED BY <2>1, <2>2 DEF Heartbeat, Renewable, Report, Accepts
<1> QED BY <1>1, Inductive, PTL DEF OnlyLatestClaimantActs

-----------------------------------------------------------------------------
(* Settled activities.                                                     *)

\* No executor can report on a settled row, nor on one that does not exist:
\* these rows have no lease and every executor has one.
LEMMA SettledIsOutOfReach ==
  ASSUME IInv, NEW w \in Worker, Executing(w), NEW a \in Activity,
         row[a].status \notin {"pending", "running"}
  PROVE  /\ \A s \in Status : Report(w, s) => row'[a] = row[a]
         /\ Heartbeat(w) => row'[a] = row[a]
<1>1. lease[w] # NoLease /\ job[w] \in Activity /\ row \in [Activity -> Row]
  BY DEF IInv, TypeOK, ExecutionInv
<1>2. row[a].lease = NoLease
  BY DEF IInv, RowInv, RowOK
<1>3. CASE job[w] = a
  BY <1>1, <1>2, <1>3 DEF Report, Accepts, Heartbeat, Renewable
<1>4. CASE job[w] # a
  BY <1>1, <1>4 DEF Report, Heartbeat
<1> QED BY <1>3, <1>4

\* The steps that can take a settled activity out of its status: a claim or a
\* recovery of another executor, the owner, and retention.
LEMMA SettledChanges ==
  ASSUME IInv, Next, NEW a \in Activity, row[a].status \in Settled,
         row'[a] # row[a]
  PROVE  \/ \E w \in Worker : ClaimNothing(w) /\ row'[a] = Recovered(row[a])
         \/ \E w \in Worker : \E b \in Activity : ClaimRow(w, b)
         \/ \E s \in Status : OwnerSets(a, s)
         \/ OwnerRetries(a)
         \/ row'[a] = DeletedRow
<1>1. /\ row \in [Activity -> Row]
      /\ row[a].status \in Status
      /\ row[a].status \notin {"pending", "running", "unborn", "deleted"}
  BY DEF IInv, TypeOK, Settled, Status, Terminal, Paused
<1>2. ASSUME NEW w \in Worker, WorkerStep(w)
      PROVE  \/ ClaimNothing(w) /\ row'[a] = Recovered(row[a])
             \/ \E b \in Activity : ClaimRow(w, b)
  <2>1. CASE ClaimNothing(w)
    BY <2>1 DEF ClaimNothing, AfterRecovery
  <2>2. CASE StartRun(w)
    BY <1>1, <2>2, SettledIsOutOfReach DEF StartRun, Executing, Status
  <2>3. ASSUME NEW s \in Outcome, Finish(w, s) PROVE row'[a] = row[a]
    BY <1>1, <2>3, SettledIsOutOfReach
       DEF Finish, Executing, Outcome, Status, Settled, Terminal, Paused
  <2>4. CASE NoticeCancel(w)
    BY <1>1, <2>4, SettledIsOutOfReach
       DEF NoticeCancel, Executing, Status, Settled, Terminal
  <2>5. CASE Shutdown(w)
    BY <1>1, <2>5, SettledIsOutOfReach
       DEF Shutdown, Executing, Status, Settled, Terminal
  <2>6. CASE Heartbeat(w)
    <3>1. Executing(w)
      BY <2>6 DEF Heartbeat, IInv, ExecutionInv
    <3> QED BY <1>1, <2>6, <3>1, SettledIsOutOfReach
  <2> QED BY <1>2, <2>1, <2>2, <2>3, <2>4, <2>5, <2>6
          DEF WorkerStep, BeginClaim, ClaimAborts, HeartbeatDies, Crash, Restart,
              OwnerStartsRunner, table
<1>3. ASSUME NEW b \in Activity, ActivityStep(b)
      PROVE  \/ \E s \in Status : OwnerSets(a, s)
             \/ OwnerRetries(a)
             \/ row'[a] = DeletedRow
  BY <1>1, <1>3 DEF ActivityStep, Create, LeaseTimeout, OwnerSets, OwnerRetries,
                    OwnerDeletes
<1>4. CASE PruneSelects \/ PruneDeletes \/ PruneUnderLock
  BY <1>4 DEF PruneSelects, PruneDeletes, PruneUnderLock, table
<1> QED BY <1>2, <1>3, <1>4 DEF Next

\* A late first update or a late heartbeat never brings a settled activity back
\* to running.
THEOREM OnlyAClaimResumes == Spec => SettledResumesOnlyByClaim
<1> DEFINE Resumed(a) == row[a].status \in Settled /\ row'[a].status = "running"
<1>1. IInv /\ [Next]_vars =>
        \A a \in Activity : Resumed(a) => \E w \in Worker : ClaimRow(w, a)
  <2> SUFFICES ASSUME IInv, [Next]_vars, NEW a \in Activity, Resumed(a)
               PROVE  \E w \in Worker : ClaimRow(w, a)
    OBVIOUS
  <2>1. row'[a] # row[a] /\ Next
    BY DEF Settled, Terminal, Paused, vars
  <2>2. row \in [Activity -> Row]
    BY DEF IInv, TypeOK
  <2>3. ASSUME NEW w \in Worker, NEW b \in Activity, ClaimRow(w, b) PROVE a = b
    BY <2>2, <2>3 DEF ClaimRow, AfterRecovery, Recovered, Settled, Terminal, Paused
  <2>4. ASSUME NEW s \in Status, OwnerSets(a, s) PROVE FALSE
    <3>1. row'[a] = WithStatus(row[a], s) /\ s # "running"
      BY <2>2, <2>4 DEF OwnerSets
    <3> QED BY <3>1 DEF WithStatus
  <2>5. ~OwnerRetries(a) /\ row'[a] # DeletedRow /\ row'[a] # Recovered(row[a])
    BY <2>2 DEF OwnerRetries, Retried, DeletedRow, Recovered
  <2> QED BY <2>1, <2>3, <2>4, <2>5, SettledChanges
<1> QED BY <1>1, Inductive, PTL DEF SettledResumesOnlyByClaim, Spec

-----------------------------------------------------------------------------
(* The file-backed queue, where a claim recovers and claims under one lock. *)

\* An executor whose lease has not lapsed still owns its row.
Owns(w) == /\ row[job[w]].status = "running"
           /\ row[job[w]].fresh
           /\ row[job[w]].lease = lease[w]

HolderInv == \A w \in Worker : Executing(w) /\ lease[w] \notin lapsed => Owns(w)

\* Steps that touch no executor and only rows that have no holder, or whose
\* lease they revoke, preserve HolderInv.
LEMMA OthersKeepHolders ==
  ASSUME IInv, HolderInv, UNCHANGED execution, lapsed \subseteq lapsed',
         \A a \in Activity :
           \/ row'[a] = row[a]
           \/ row[a].status # "running"
           \/ row[a].lease \in lapsed'
  PROVE  HolderInv'
<1> SUFFICES ASSUME NEW w \in Worker, Executing(w)', lease'[w] \notin lapsed'
             PROVE  Owns(w)'
  BY DEF HolderInv
<1>1. Executing(w) /\ lease[w] \notin lapsed' /\ lease[w] \notin lapsed
  BY DEF Executing, execution
<1>2. Owns(w) /\ job[w] \in Activity
  BY <1>1 DEF HolderInv, IInv, ExecutionInv
<1>3. row'[job[w]] = row[job[w]]
  BY <1>1, <1>2 DEF Owns
<1> QED BY <1>2, <1>3 DEF Owns, execution

\* A report changes no row that another executor holds.
LEMMA ReportSparesOthers ==
  ASSUME IInv, HolderInv, NEW v \in Worker, Executing(v), NEW s \in Status,
         Report(v, s), NEW w \in Worker, w # v, Executing(w),
         lease[w] \notin lapsed
  PROVE  row'[job[w]] = row[job[w]]
<1>1. /\ job[v] \in Activity /\ job[w] \in Activity
      /\ lease[v] # lease[w] /\ lease[v] # NoLease
      /\ row \in [Activity -> Row]
  BY DEF IInv, TypeOK, ExecutionInv, IssueInv
<1>2. row[job[w]].lease = lease[w]
  BY DEF HolderInv, Owns
<1> QED BY <1>1, <1>2 DEF Report, Accepts

\* A recovery under the lock leaves every row that has a holder alone.
LEMMA RecoverySparesHolders ==
  ASSUME ~DatabaseBackend, IInv, HolderInv, NEW v \in Worker,
         NEW w \in Worker, Executing(w), lease[w] \notin lapsed
  PROVE  /\ AfterRecovery(v)[job[w]] = row[job[w]]
         /\ row[job[w]].status = "running"
  BY DEF AfterRecovery, Recovering, ExpiredRows, Expired, HolderInv, Owns, IInv,
         ExecutionInv

LEMMA WorkerStepHolders ==
  ASSUME ~DatabaseBackend, IInv, HolderInv, NEW v \in Worker, WorkerStep(v)
  PROVE  HolderInv'
<1> SUFFICES ASSUME NEW w \in Worker, Executing(w)', lease'[w] \notin lapsed'
             PROVE  Owns(w)'
  BY DEF HolderInv
<1>1. /\ row \in [Activity -> Row] /\ pc \in [Worker -> PC]
      /\ job \in [Worker -> Activity \cup {NoActivity}]
      /\ lease \in [Worker -> Nat]
      /\ lastClaim \in [Activity -> Nat]
  BY DEF IInv, TypeOK
<1>2. ASSUME Executing(w), UNCHANGED <<job[w], lease[w]>>,
             lease[w] \notin lapsed, row'[job[w]] = row[job[w]]
      PROVE  Owns(w)'
  BY <1>2 DEF HolderInv, Owns
<1>3. CASE BeginClaim(v)
  BY <1>1, <1>2, <1>3 DEF BeginClaim, Executing, table, history
<1>4. ASSUME NEW a \in Activity, ClaimRow(v, a) PROVE Owns(w)'
  <2>1. CASE w = v
    <3>1. AfterRecovery(v) \in [Activity -> Row]
      BY RecoveredTable
    <3> QED BY <1>1, <1>4, <2>1, <3>1 DEF ClaimRow, Claimed, Owns
  <2>2. CASE w # v
    <3>1. Executing(w) /\ lease[w] \notin lapsed /\ UNCHANGED <<job[w], lease[w]>>
      BY <1>1, <1>4, <2>2 DEF ClaimRow, Executing
    <3>2. AfterRecovery(v)[job[w]] = row[job[w]] /\ row[job[w]].status = "running"
      BY <3>1, RecoverySparesHolders
    <3>3. a # job[w] /\ job[w] \in Activity
      BY <1>4, <3>1, <3>2 DEF ClaimRow, IInv, ExecutionInv
    <3>4. row'[job[w]] = row[job[w]]
      BY <1>4, <3>2, <3>3 DEF ClaimRow, AfterRecovery
    <3> QED BY <1>2, <3>1, <3>4
  <2> QED BY <2>1, <2>2
<1>5. CASE ClaimNothing(v)
  <2>1. Executing(w) /\ lease[w] \notin lapsed /\ UNCHANGED <<job[w], lease[w]>>
    BY <1>1, <1>5 DEF ClaimNothing, Executing, history
  <2> QED BY <1>2, <1>5, <2>1, RecoverySparesHolders DEF ClaimNothing
<1>6. CASE ClaimAborts(v)
  BY <1>1, <1>2, <1>6 DEF ClaimAborts, RaisePc, Executing, table, history
<1>7. CASE StartRun(v)
  <2>1. Executing(w) /\ lease[w] \notin lapsed /\ UNCHANGED <<job[w], lease[w]>>
    BY <1>1, <1>7 DEF StartRun, Executing, history
  <2>2. CASE w = v
    <3>1. Owns(w) /\ job[w] \in Activity
      BY <2>1 DEF HolderInv, IInv, ExecutionInv
    <3>2. /\ row[job[w]] \in Row
          /\ row'[job[w]] \in {row[job[w]], WithStatus(row[job[w]], "running")}
      BY <1>1, <1>7, <2>2, <3>1 DEF StartRun, Report
    <3> DEFINE r == row[job[w]]
    <3>3. WithStatus(r, "running").status = "running"
          /\ WithStatus(r, "running").lease = r.lease
      BY DEF WithStatus, Settled, Terminal, Paused
    <3>4. r.fresh => WithStatus(r, "running").fresh
      BY DEF WithStatus, Settled, Terminal, Paused
    <3> HIDE DEF r
    <3>5. UNCHANGED <<job[w], lease[w]>>
      BY <2>1
    <3> QED BY <3>1, <3>2, <3>3, <3>4, <3>5 DEF Owns, r
  <2>3. CASE w # v
    <3>1. row'[job[w]] = row[job[w]]
      BY <1>7, <2>1, <2>3, ReportSparesOthers DEF StartRun, Executing, Status
    <3> QED BY <1>2, <2>1, <3>1
  <2> QED BY <2>2, <2>3
<1>8. ASSUME NEW s \in Status, NEW next \in PC \ {"claimed", "running"},
             Executing(v), Report(v, s), Leave(v, next), UNCHANGED lapsed
      PROVE  Owns(w)'
  <2>1. w # v
    BY <1>1, <1>8 DEF Leave, Executing
  <2>2. Executing(w) /\ lease[w] \notin lapsed /\ UNCHANGED <<job[w], lease[w]>>
    BY <1>1, <1>8, <2>1 DEF Leave, Executing
  <2>3. row'[job[w]] = row[job[w]]
    BY <1>8, <2>1, <2>2, ReportSparesOthers
  <2> QED BY <1>2, <2>2, <2>3
<1>9. ASSUME NEW s \in Outcome, Finish(v, s) PROVE Owns(w)'
  BY <1>8, <1>9 DEF Finish, Outcome, Status, Settled, Terminal, Paused, Executing,
                    PC, RaisePc, history
<1>10. CASE NoticeCancel(v)
  BY <1>8, <1>10 DEF NoticeCancel, Status, Settled, Terminal, Executing, PC, history
<1>11. CASE Shutdown(v)
  BY <1>8, <1>11 DEF Shutdown, Status, Settled, Terminal, Executing, PC, history
<1>12. CASE Heartbeat(v)
  <2>1. Executing(v) /\ job[v] \in Activity /\ lease[v] # NoLease
    BY <1>12 DEF Heartbeat, IInv, ExecutionInv
  <2>2. Executing(w) /\ UNCHANGED <<job[w], lease[w]>> /\ job[w] \in Activity
    BY <1>12 DEF Heartbeat, Executing, IInv, ExecutionInv
  <2>3. CASE w = v /\ Renewable(row[job[v]], lease[v])
    BY <1>1, <1>12, <2>1, <2>2, <2>3 DEF Heartbeat, Renewable, Renewed, Owns
  <2>4. CASE w # v /\ Renewable(row[job[v]], lease[v])
    <3>1. lease[w] # lease[v]
      BY <2>1, <2>4 DEF IInv, IssueInv
    <3>2. lease[w] \notin lapsed
      BY <1>12, <2>2, <2>4, <3>1 DEF Heartbeat
    <3>3. job[w] # job[v]
      BY <2>2, <2>4, <3>1, <3>2 DEF HolderInv, Owns, Renewable
    <3>4. row'[job[w]] = row[job[w]]
      BY <1>1, <1>12, <2>1, <2>2, <2>4, <3>3 DEF Heartbeat
    <3> QED BY <1>2, <2>2, <3>2, <3>4
  <2>5. CASE ~Renewable(row[job[v]], lease[v])
    BY <1>2, <1>12, <2>2, <2>5 DEF Heartbeat
  <2> QED BY <2>3, <2>4, <2>5
<1>13. CASE HeartbeatDies(v)
  BY <1>2, <1>13 DEF HeartbeatDies, Executing, table, history
<1>14. CASE Crash(v)
  <2>1. w # v
    BY <1>1, <1>14 DEF Crash, Leave, Executing
  <2> QED BY <1>1, <1>2, <1>14, <2>1 DEF Crash, Leave, Executing, table, history
<1>15. CASE Restart(v)
  BY <1>1, <1>2, <1>15 DEF Restart, Executing, table, history
<1>16. CASE OwnerStartsRunner(v)
  BY <1>1, <1>2, <1>16 DEF OwnerStartsRunner, Executing, table, history
<1> QED BY <1>3, <1>4, <1>5, <1>6, <1>7, <1>9, <1>10, <1>11, <1>12, <1>13, <1>14,
           <1>15, <1>16 DEF WorkerStep

LEMMA NextHolders ==
  ASSUME ~DatabaseBackend
  PROVE  IInv /\ HolderInv /\ doomed = {} /\ [Next]_vars
           => HolderInv' /\ doomed' = {}
<1> SUFFICES ASSUME IInv, HolderInv, doomed = {}, [Next]_vars
             PROVE  HolderInv' /\ doomed' = {}
  OBVIOUS
<1>1. row \in [Activity -> Row]
  BY DEF IInv, TypeOK
<1>2. ASSUME NEW v \in Worker, WorkerStep(v) PROVE HolderInv' /\ doomed' = {}
  <2>1. UNCHANGED doomed
    BY <1>2 DEF WorkerStep, BeginClaim, ClaimRow, ClaimNothing, ClaimAborts,
                StartRun, Finish, NoticeCancel, Shutdown, Heartbeat,
                HeartbeatDies, Crash, Restart, OwnerStartsRunner
  <2> QED BY <1>2, <2>1, WorkerStepHolders
<1>3. ASSUME NEW a \in Activity, ActivityStep(a)
      PROVE  HolderInv' /\ doomed' = {}
  <2>1. UNCHANGED <<execution, doomed>> /\ lapsed \subseteq lapsed'
    BY <1>3 DEF ActivityStep, Create, LeaseTimeout, OwnerSets, OwnerRetries,
                OwnerDeletes, history
  <2>2. \A b \in Activity : row'[b] = row[b] \/ b = a
    BY <1>1, <1>3 DEF ActivityStep, Create, LeaseTimeout, OwnerSets, OwnerRetries,
                      OwnerDeletes
  <2>3. row[a].status # "running" \/ row[a].lease \in lapsed'
    BY <1>3 DEF ActivityStep, Create, LeaseTimeout, OwnerSets, OwnerRetries,
                OwnerDeletes, Retryable
  <2> QED BY <2>1, <2>2, <2>3, OthersKeepHolders
<1>4. CASE PruneSelects \/ PruneDeletes
  BY <1>4 DEF PruneSelects, PruneDeletes
<1>5. CASE PruneUnderLock
  <2>1. PICK C \in Overflow(Completed), F \in Overflow(FailedOrCancelled) :
          row' = [a \in Activity |-> IF a \in C \cup F THEN DeletedRow ELSE row[a]]
    BY <1>5 DEF PruneUnderLock, Victims
  <2>2. \A a \in C \cup F : row[a].status # "running"
    BY DEF Overflow, Completed, FailedOrCancelled
  <2>3. \A a \in Activity : row'[a] = row[a] \/ row[a].status # "running"
    BY <2>1, <2>2
  <2> QED BY <1>5, <2>3, OthersKeepHolders DEF PruneUnderLock, history
<1>6. CASE UNCHANGED vars
  BY <1>6, OthersKeepHolders DEF vars, execution
<1> QED BY <1>2, <1>3, <1>4, <1>5, <1>6 DEF Next

\* Under the file lock an activity is never run by a second executor while the
\* first one's lease is good.
THEOREM FileQueueExcludes == Spec => [](~DatabaseBackend => SupersededOnlyAfterLapse)
<1> DEFINE FileInv == ~DatabaseBackend => HolderInv /\ doomed = {}
<1>1. Init => FileInv
  BY DEF Init, HolderInv, Executing
<1>2. IInv /\ FileInv /\ [Next]_vars => FileInv'
  BY NextHolders
<1>3. IInv /\ FileInv => (~DatabaseBackend => SupersededOnlyAfterLapse)
  <2> SUFFICES ASSUME IInv, HolderInv, NEW v \in Worker, NEW w \in Worker,
                      Executing(v), Executing(w), job[v] = job[w],
                      lease[v] < lease[w], lease[v] \notin lapsed
               PROVE  FALSE
    BY DEF SupersededOnlyAfterLapse
  <2>1. /\ job[v] \in Activity /\ lease[v] # NoLease
        /\ lease[w] <= lastClaim[job[v]]
        /\ lease[v] \in Nat /\ lease[w] \in Nat /\ lastClaim[job[v]] \in Nat
    BY DEF IInv, TypeOK, ExecutionInv
  <2>2. row[job[v]].lease = lease[v]
    BY DEF HolderInv, Owns
  <2>3. lease[v] = lastClaim[job[v]]
    BY <2>1, <2>2 DEF IInv, RowInv, RowOK
  <2> QED BY <2>1, <2>3
<1> QED BY <1>1, <1>2, <1>3, Inductive, PTL DEF Spec

\* Under the file lock a paused or finished activity is taken up again only
\* because the owner asked for it.
THEOREM FileQueueKeepsSettled == Spec /\ []~DatabaseBackend => SettledByOwnerOnly
<1> DEFINE Reopened(a) == row[a].status \in Settled
                            /\ row'[a].status \notin Settled \cup {"deleted"}
           Asked(a) == OwnerSets(a, "pending") \/ OwnerRetries(a)
<1>1. IInv /\ [Next]_vars =>
        (~DatabaseBackend => \A a \in Activity : Reopened(a) => Asked(a))
  <2> SUFFICES ASSUME ~DatabaseBackend, IInv, [Next]_vars, NEW a \in Activity,
                      Reopened(a)
               PROVE  Asked(a)
    OBVIOUS
  <2>1. row'[a] # row[a] /\ Next
    BY DEF vars
  <2>2. row \in [Activity -> Row] /\ row[a].status \notin {"running", "pending"}
    BY DEF IInv, TypeOK, Settled, Terminal, Paused
  <2>3. \A w \in Worker : AfterRecovery(w)[a] = row[a]
    BY <2>2 DEF AfterRecovery, Recovering, ExpiredRows, Expired
  <2>4. ASSUME NEW w \in Worker, NEW b \in Activity, ClaimRow(w, b) PROVE FALSE
    <3>1. a # b
      BY <2>2, <2>3, <2>4 DEF ClaimRow
    <3> QED BY <2>1, <2>3, <2>4, <3>1 DEF ClaimRow, AfterRecovery
  <2>5. ASSUME NEW w \in Worker, ClaimNothing(w) PROVE FALSE
    BY <2>1, <2>3, <2>5 DEF ClaimNothing
  <2>6. ASSUME NEW s \in Status, OwnerSets(a, s) PROVE s = "pending"
    <3>1. row'[a] = WithStatus(row[a], s) /\ s # "running"
      BY <2>2, <2>6 DEF OwnerSets
    <3>2. row'[a].status = s
      BY <3>1 DEF WithStatus
    <3> QED BY <3>1, <3>2 DEF Status
  <2>7. row'[a] # DeletedRow
    BY DEF DeletedRow
  <2> QED BY <2>1, <2>4, <2>5, <2>6, <2>7, SettledChanges
<1> QED BY <1>1, Inductive, PTL DEF SettledByOwnerOnly, Spec
-----------------------------------------------------------------------------
(* The queue refines ActivityLifecycle, with either backend.               *)

\* An activity has at most one holder, which has its lease, and only while the
\* activity is pending or running.
LEMMA OneHolder ==
  ASSUME IInv, NEW a \in Activity, NEW w \in holder[a]
  PROVE  /\ w \in Worker /\ Executing(w) /\ job[w] = a
         /\ lease[w] = row[a].lease /\ row[a].lease # NoLease
         /\ row[a].status \in {"pending", "running"}
         /\ holder[a] = {w}
<1>1. w \in Worker /\ Executing(w) /\ job[w] = a /\ lease[w] = row[a].lease
  BY DEF holder
<1>2. row[a].lease # NoLease
  BY <1>1 DEF IInv, ExecutionInv
<1>3. row[a].status \in {"pending", "running"}
  BY <1>2 DEF IInv, RowInv, RowOK
<1>4. \A v \in holder[a] : v = w
  BY <1>1, <1>2 DEF holder, IInv, IssueInv
<1> QED BY <1>1, <1>2, <1>3, <1>4

\* A report is accepted exactly from the holder.
LEMMA HolderIsAccepted ==
  ASSUME IInv, NEW w \in Worker, Executing(w)
  PROVE  /\ job[w] \in Activity
         /\ Accepts(row[job[w]], lease[w]) <=> w \in holder[job[w]]
         /\ w \in holder[job[w]] => holder[job[w]] = {w}
<1>1. job[w] \in Activity /\ lease[w] # NoLease
  BY DEF IInv, ExecutionInv
<1>2. Accepts(row[job[w]], lease[w]) => w \in holder[job[w]]
  BY <1>1 DEF Accepts, holder
<1>3. w \in holder[job[w]] =>
        Accepts(row[job[w]], lease[w]) /\ holder[job[w]] = {w}
  BY <1>1, OneHolder DEF Accepts, Exists, Status
<1> QED BY <1>1, <1>2, <1>3

\* Nothing changes in a step that leaves the rows and what executors hold.
LEMMA SameLifecycle ==
  ASSUME UNCHANGED <<row, job, lease, seen, doomed, ownerOps>>,
         \A w \in Worker : Executing(w)' <=> Executing(w)
  PROVE  UNCHANGED Lifecycle!vars
<1>1. status' = status /\ inTime' = inTime
  BY DEF status, inTime
<1>2. holder' = holder
  BY DEF holder
<1> QED BY <1>1, <1>2 DEF Lifecycle!vars

\* How the abstract state changes when one row does.
LEMMA OneRow ==
  ASSUME row \in [Activity -> Row], NEW a \in Activity, NEW r,
         row' = [row EXCEPT ![a] = r]
  PROVE  /\ status' = [status EXCEPT ![a] = r.status]
         /\ r.status = "running" /\ r.fresh => inTime' = inTime \cup {a}
         /\ ~(r.status = "running" /\ r.fresh) => inTime' = inTime \ {a}
<1>1. row'[a] = r /\ \A b \in Activity : b # a => row'[b] = row[b]
  OBVIOUS
<1>2. status' = [status EXCEPT ![a] = r.status]
  BY <1>1 DEF status
<1>3. r.status = "running" /\ r.fresh => inTime' = inTime \cup {a}
  BY <1>1 DEF inTime
<1>4. ~(r.status = "running" /\ r.fresh) => inTime' = inTime \ {a}
  BY <1>1 DEF inTime
<1> QED BY <1>2, <1>3, <1>4

\* ... and no executor does anything.
LEMMA OneRowAlone ==
  ASSUME IInv, NEW a \in Activity, NEW r, row' = [row EXCEPT ![a] = r],
         UNCHANGED <<pc, job, lease>>
  PROVE  /\ r.lease = row[a].lease => holder' = holder
         /\ r.lease = NoLease => holder' = [holder EXCEPT ![a] = {}]
<1>1. row \in [Activity -> Row]
  BY DEF IInv, TypeOK
<1>2. row'[a] = r /\ \A b \in Activity : b # a => row'[b] = row[b]
  BY <1>1
<1>3. \A w \in Worker : Executing(w)' <=> Executing(w)
  BY DEF Executing
<1>4. \A w \in Worker : Executing(w) => lease[w] # NoLease
  BY DEF IInv, ExecutionInv
<1>5. r.lease = row[a].lease => holder' = holder
  BY <1>2, <1>3 DEF holder
<1>6. ASSUME r.lease = NoLease PROVE holder' = [holder EXCEPT ![a] = {}]
  <2>1. holder'[a] = {}
    BY <1>2, <1>3, <1>4, <1>6 DEF holder
  <2>2. \A b \in Activity : b # a => holder'[b] = holder[b]
    BY <1>2, <1>3 DEF holder
  <2> QED BY <2>1, <2>2 DEF holder
<1> QED BY <1>5, <1>6

\* What the owner does to an activity is what owners may do.
LEMMA OwnerRefines ==
  ASSUME IInv, NEW a \in Activity, NEW r, Exists(row[a]), row' = [row EXCEPT ![a] = r],
         \/ r.status \in Lifecycle!Ended \cup {"deleted"} /\ r.lease = NoLease
         \/ r.status = "pending" /\ r.lease = row[a].lease,
         UNCHANGED <<pc, job, lease, seen, doomed>>, ownerOps' = ownerOps + 1
  PROVE  Lifecycle!Next
<1>1. row \in [Activity -> Row]
  BY DEF IInv, TypeOK
<1>2. /\ status' = [status EXCEPT ![a] = r.status]
      /\ inTime' = inTime \ {a}
  BY <1>1, OneRow DEF Lifecycle!Ended, Lifecycle!Finished
<1>3. \/ r.status \in Lifecycle!Ended \cup {"deleted"} /\ holder' = [holder EXCEPT ![a] = {}]
      \/ r.status = "pending" /\ holder' = [holder EXCEPT ![a] = holder[a]]
  <2>1. CASE r.lease = NoLease /\ r.status # "pending"
    BY <2>1, OneRowAlone
  <2>2. CASE r.status = "pending" /\ r.lease = row[a].lease
    <3>1. holder' = holder
      BY <2>2, OneRowAlone
    <3>2. holder = [holder EXCEPT ![a] = holder[a]]
      BY DEF holder
    <3> QED BY <2>2, <3>1, <3>2
  <2> QED BY <2>1, <2>2 DEF Lifecycle!Ended, Lifecycle!Finished
<1>4. status[a] \notin {"unborn", "deleted"}
  BY DEF status, Exists, Status, Settled, Terminal, Paused
<1>5. Lifecycle!OwnerSets(a, r.status) /\ r.status \in Lifecycle!Statuses
  BY <1>2, <1>3, <1>4
     DEF Lifecycle!OwnerSets, Lifecycle!Existing, Lifecycle!Becomes, Lifecycle!Statuses
<1> QED BY <1>5 DEF Lifecycle!Next

LEMMA ActivityStepRefines ==
  ASSUME IInv, NEW a \in Activity, ActivityStep(a)
  PROVE  Lifecycle!Next
<1>1. row \in [Activity -> Row] /\ RowOK(row[a], lastClaim[a])
  BY DEF IInv, TypeOK, RowInv
<1>2. CASE Create(a)
  <2>1. row[a].lease = NoLease /\ NewRow.lease = NoLease /\ NewRow.status = "pending"
    BY <1>1, <1>2 DEF Create, RowOK, NewRow
  <2>2. /\ row' = [row EXCEPT ![a] = NewRow]
        /\ UNCHANGED <<pc, job, lease, seen, doomed, ownerOps>>
    BY <1>2 DEF Create, execution
  <2>3. holder' = [holder EXCEPT ![a] = {}]
    BY <2>1, <2>2, OneRowAlone
  <2>4. status' = [status EXCEPT ![a] = "pending"] /\ inTime' = inTime \ {a}
    <3>1. ~(NewRow.status = "running" /\ NewRow.fresh)
      BY <2>1
    <3>2. status' = [status EXCEPT ![a] = NewRow.status]
      BY <1>1, <2>2, OneRow
    <3>3. inTime' = inTime \ {a}
      BY <1>1, <2>2, <3>1, OneRow
    <3> QED BY <2>1, <3>2, <3>3
  <2>5. status[a] = "unborn" /\ a \notin inTime
    BY <1>2 DEF Create, status, inTime
  <2>6. inTime' = inTime
    BY <2>4, <2>5
  <2> QED BY <2>2, <2>3, <2>4, <2>5, <2>6
          DEF Lifecycle!Next, Lifecycle!Enqueue, Lifecycle!Becomes
<1>3. CASE LeaseTimeout(a)
  <2> PICK r : r = TimedOut(row[a])
    OBVIOUS
  <2>1. /\ row' = [row EXCEPT ![a] = r]
        /\ UNCHANGED <<pc, job, lease, seen, doomed, ownerOps>>
        /\ row[a].status = "running"
    BY <1>3 DEF LeaseTimeout, execution
  <2>2. r.status = "running" /\ ~r.fresh /\ r.lease = row[a].lease
    BY <2>1 DEF TimedOut
  <2>3. holder' = holder
    BY <2>1, <2>2, OneRowAlone
  <2>4. status' = [status EXCEPT ![a] = "running"] /\ inTime' = inTime \ {a}
    <3>1. ~(r.status = "running" /\ r.fresh)
      BY <2>2
    <3>2. status' = [status EXCEPT ![a] = r.status]
      BY <1>1, <2>1, OneRow
    <3>3. inTime' = inTime \ {a}
      BY <1>1, <2>1, <3>1, OneRow
    <3> QED BY <2>2, <3>2, <3>3
  <2>5. status[a] = "running" /\ status' = status
    BY <2>1, <2>4 DEF status
  <2> QED BY <2>1, <2>3, <2>4, <2>5 DEF Lifecycle!Next, Lifecycle!TimeRunsOut
<1>4. ASSUME NEW s \in Status, OwnerSets(a, s) PROVE Lifecycle!Next
  <2>1. /\ row' = [row EXCEPT ![a] = WithStatus(row[a], s)]
        /\ UNCHANGED <<pc, job, lease, seen, doomed>> /\ ownerOps' = ownerOps + 1
        /\ Exists(row[a]) /\ s # "running"
    BY <1>4 DEF OwnerSets, OwnerActs, Accepts, execution
  <2>2. /\ WithStatus(row[a], s).status = s
        /\ s \in Settled => WithStatus(row[a], s).lease = NoLease
        /\ s = "pending" => WithStatus(row[a], s).lease = row[a].lease
    BY DEF WithStatus, Settled, Terminal, Paused
  <2>3. s \in Settled => s \in Lifecycle!Ended
    BY DEF Settled, Terminal, Paused, Lifecycle!Ended, Lifecycle!Finished
  <2>4. s = "pending" \/ s \in Settled
    BY <2>1 DEF Status
  <2> QED BY <2>1, <2>2, <2>3, <2>4, OwnerRefines
<1>5. CASE OwnerRetries(a)
  <2>1. /\ row' = [row EXCEPT ![a] = Retried(row[a])]
        /\ UNCHANGED <<pc, job, lease, seen, doomed>> /\ ownerOps' = ownerOps + 1
        /\ row[a].status \in {"failed", "cancelled"}
    BY <1>5 DEF OwnerRetries, OwnerActs, Retryable, execution
  <2>2. Exists(row[a]) /\ row[a].lease = NoLease
    BY <1>1, <2>1 DEF Exists, Status, Settled, Terminal, RowOK
  <2>3. Retried(row[a]).status = "pending" /\ Retried(row[a]).lease = NoLease
    BY DEF Retried
  <2> QED BY <2>1, <2>2, <2>3, OwnerRefines
<1>6. CASE OwnerDeletes(a)
  <2>1. /\ row' = [row EXCEPT ![a] = DeletedRow] /\ Exists(row[a])
        /\ UNCHANGED <<pc, job, lease, seen, doomed>> /\ ownerOps' = ownerOps + 1
    BY <1>6 DEF OwnerDeletes, OwnerActs, execution
  <2>2. DeletedRow.status = "deleted" /\ DeletedRow.lease = NoLease
    BY DEF DeletedRow
  <2> QED BY <2>1, <2>2, OwnerRefines
<1> QED BY <1>2, <1>3, <1>4, <1>5, <1>6 DEF ActivityStep

\* An executor leaves: the activity it holds, if any, has no holder any more,
\* and the others keep theirs.
LEMMA LeavingReleases ==
  ASSUME IInv, NEW w \in Worker, Executing(w), NEW next \in PC \ {"claimed", "running"},
         Leave(w, next), NEW v \in Worker
  PROVE  IF v = w THEN ~Executing(v)'
         ELSE (Executing(v)' <=> Executing(v)) /\ UNCHANGED <<job[v], lease[v]>>
BY DEF IInv, TypeOK, Leave, Executing

\* A crash forgets the lease and leaves the row.
LEMMA CrashRefines ==
  ASSUME IInv, NEW w \in Worker, Executing(w), NEW next \in PC \ {"claimed", "running"},
         Leave(w, next), UNCHANGED <<row, doomed, ownerOps>>
  PROVE  Lifecycle!Next
<1> DEFINE j == job[w]
<1>1. j \in Activity /\ (w \in holder[j] => holder[j] = {w})
  BY HolderIsAccepted
<1>2. /\ status' = status /\ inTime' = inTime
      /\ Lifecycle!Forgets(w)
  BY DEF status, inTime, Leave, Lifecycle!Forgets
<1>3. \A b \in Activity : holder'[b] = holder[b] \ {w}
  BY LeavingReleases DEF holder
<1>4. \A b \in Activity : b # j => w \notin holder[b]
  BY DEF holder
<1>5. CASE w \in holder[j]
  <2>1. holder'[j] = {}
    BY <1>1, <1>3, <1>5
  <2>2. \A b \in Activity : b # j => holder'[b] = holder[b]
    BY <1>3, <1>4
  <2>3. holder' = [holder EXCEPT ![j] = {}]
    BY <2>1, <2>2 DEF holder
  <2> QED BY <1>1, <1>2, <1>5, <2>3 DEF Lifecycle!Next, Lifecycle!Vanish
<1>6. CASE w \notin holder[j]
  <2>1. \A b \in Activity : holder'[b] = holder[b]
    BY <1>3, <1>4, <1>6
  <2>2. holder' = holder
    BY <2>1 DEF holder
  <2> QED BY <1>2, <2>2 DEF Lifecycle!Next, Lifecycle!Forget
<1> QED BY <1>5, <1>6

\* An outcome is the holder's report; anyone else's changes nothing.
LEMMA OutcomeRefines ==
  ASSUME IInv, NEW w \in Worker, Executing(w), NEW next \in PC \ {"claimed", "running"},
         NEW s \in Settled, Report(w, s), Leave(w, next), UNCHANGED <<doomed, ownerOps>>
  PROVE  Lifecycle!Next
<1> DEFINE j == job[w]
<1>1. /\ j \in Activity /\ row \in [Activity -> Row]
      /\ Accepts(row[j], lease[w]) <=> w \in holder[j]
      /\ w \in holder[j] => holder[j] = {w}
  BY HolderIsAccepted DEF IInv, TypeOK
<1>2. CASE w \notin holder[j]
  <2>1. row' = row
    BY <1>1, <1>2 DEF Report
  <2> QED BY <2>1, CrashRefines
<1>3. CASE w \in holder[j]
  <2> PICK r : r = WithStatus(row[j], s)
    OBVIOUS
  <2>1. row' = [row EXCEPT ![j] = r]
    BY <1>1, <1>3 DEF Report
  <2>2. r.status = s /\ r.lease = NoLease
    BY DEF WithStatus
  <2>3. s # "running" /\ s \in Lifecycle!Ended
    BY DEF Settled, Terminal, Paused, Lifecycle!Ended, Lifecycle!Finished
  <2>4. status' = [status EXCEPT ![j] = s] /\ inTime' = inTime \ {j}
    BY <1>1, <2>1, <2>2, <2>3, OneRow
  <2>5. holder' = [holder EXCEPT ![j] = {}]
    <3>1. row'[j] = r /\ \A b \in Activity : b # j => row'[b] = row[b]
      BY <1>1, <2>1
    <3>2. \A v \in Worker : Executing(v) => lease[v] # NoLease
      BY DEF IInv, ExecutionInv
    <3>3. \A v \in Worker : ~(Executing(v)' /\ job'[v] = j /\ lease'[v] = row'[j].lease)
      BY <2>2, <3>1, <3>2, LeavingReleases
    <3>4. holder'[j] = {}
      BY <1>1, <3>3 DEF holder
    <3>5. \A b \in Activity : b # j => holder'[b] = holder[b]
      BY <3>1, LeavingReleases DEF holder
    <3> QED BY <3>4, <3>5 DEF holder
  <2>6. holder[j] = {w} /\ Lifecycle!Forgets(w)
    BY <1>1, <1>3 DEF Leave, Lifecycle!Forgets
  <2>7. Lifecycle!Report(w, j, s)
    BY <2>3, <2>4, <2>5, <2>6 DEF Lifecycle!Report, Lifecycle!Becomes
  <2> QED BY <1>1, <2>3, <2>7 DEF Lifecycle!Next
<1> QED BY <1>2, <1>3

\* What a recovery writes back is what ActivityLifecycle takes for lost.
LEMMA RecoveringIsLost ==
  ASSUME NEW w \in Worker
  PROVE  Lifecycle!Lost(w) = Recovering(w)
<1>1. Lifecycle!Overdue = ExpiredRows
  BY DEF Lifecycle!Overdue, ExpiredRows, Expired, status, inTime
<1> QED BY <1>1 DEF Lifecycle!Lost, Recovering

\* What a recovery does to the rows it writes back is what taking back does to
\* the activities, whatever has become of them since the recovery read them.
LEMMA RecoveryTakesBack ==
  ASSUME IInv, NEW w \in Worker, NEW b \in Activity
  PROVE  /\ AfterRecovery(w)[b].status = Lifecycle!Requeued(Recovering(w))[b]
         /\ b \in inTime \ Recovering(w) <=>
              AfterRecovery(w)[b].status = "running" /\ AfterRecovery(w)[b].fresh
         /\ Lifecycle!Released(Recovering(w))[b] =
              {v \in Worker : Executing(v) /\ job[v] = b /\ lease[v] = AfterRecovery(w)[b].lease}
<1>1. AfterRecovery(w)[b] = IF b \in Recovering(w) THEN Recovered(row[b]) ELSE row[b]
  BY DEF AfterRecovery
<1>2. Recovered(row[b]).status = "pending" /\ Recovered(row[b]).lease = NoLease
  BY DEF Recovered
<1>3. AfterRecovery(w)[b].status = Lifecycle!Requeued(Recovering(w))[b]
  BY <1>1, <1>2 DEF Lifecycle!Requeued, status
<1>4. b \in inTime \ Recovering(w) <=>
        AfterRecovery(w)[b].status = "running" /\ AfterRecovery(w)[b].fresh
  BY <1>1, <1>2 DEF inTime
<1>5. \A v \in Worker : Executing(v) => lease[v] # NoLease
  BY DEF IInv, ExecutionInv
<1>6. Lifecycle!Released(Recovering(w))[b] =
        {v \in Worker : Executing(v) /\ job[v] = b /\ lease[v] = AfterRecovery(w)[b].lease}
  BY <1>1, <1>2, <1>5 DEF Lifecycle!Released, holder
<1> QED BY <1>3, <1>4, <1>6

\* A recovery that is flushed finds all its rows still there.
LEMMA RecoveredExist ==
  ASSUME IInv, NEW w \in Worker, ~FlushFails(w)
  PROVE  \A b \in Recovering(w) : Lifecycle!Existing(b)
<1>1. \A b \in Recovering(w) : b \in Activity /\ Exists(row[b])
  BY DEF FlushFails, Recovering, ExpiredRows, IInv, TypeOK
<1>2. \A b \in Activity : Exists(row[b]) => Lifecycle!Existing(b)
  BY DEF Exists, Lifecycle!Existing, status, Status, Settled, Terminal, Paused
<1> QED BY <1>1, <1>2

\* A claim that finds nothing takes back what it recovers.
LEMMA RecoveryRefines ==
  ASSUME IInv, NEW w \in Worker, ClaimNothing(w)
  PROVE  Lifecycle!Next
<1> DEFINE T == Recovering(w)
<1>1. /\ row' = AfterRecovery(w) /\ UNCHANGED <<job, lease, doomed, ownerOps>>
      /\ \A v \in Worker : Executing(v)' <=> Executing(v)
      /\ ~FlushFails(w) /\ Lifecycle!Forgets(w)
  BY DEF ClaimNothing, Executing, IInv, TypeOK, Lifecycle!Forgets
<1>2. T = Lifecycle!Lost(w) /\ \A b \in T : Lifecycle!Existing(b)
  BY <1>1, RecoveringIsLost, RecoveredExist
<1>3. status' = Lifecycle!Requeued(T)
  <2>1. \A b \in Activity : status'[b] = Lifecycle!Requeued(T)[b]
    BY <1>1, RecoveryTakesBack DEF status
  <2> QED BY <2>1 DEF status, Lifecycle!Requeued
<1>4. holder' = Lifecycle!Released(T)
  <2>1. \A b \in Activity : holder'[b] = Lifecycle!Released(T)[b]
    BY <1>1, RecoveryTakesBack DEF holder
  <2> QED BY <2>1 DEF holder, Lifecycle!Released
<1>5. inTime' = inTime \ T
  <2>1. \A b \in Activity : b \in inTime' <=> b \in inTime \ T
    BY <1>1, RecoveryTakesBack DEF inTime
  <2> QED BY <2>1 DEF inTime
<1> HIDE DEF T
<1>6. Lifecycle!TakeBack(w)
  BY <1>1, <1>2, <1>3, <1>4, <1>5 DEF Lifecycle!TakeBack
<1> QED BY <1>6 DEF Lifecycle!Next

\* A claim takes back what it recovers and gives the executor the activity: no
\* one else has the lease that it issues.
LEMMA ClaimRefines ==
  ASSUME IInv, NEW w \in Worker, NEW a \in Activity, ClaimRow(w, a)
  PROVE  Lifecycle!Next
<1> DEFINE T == Recovering(w)
<1>1. /\ AfterRecovery(w) \in [Activity -> Row]
      /\ issued \in Nat
      /\ pc \in [Worker -> PC]
      /\ job \in [Worker -> Activity \cup {NoActivity}]
      /\ lease \in [Worker -> Nat]
      /\ \A v \in Worker : lease[v] <= issued
  BY RecoveredTable DEF IInv, TypeOK, IssueInv
<1> PICK c : c = Claimed(AfterRecovery(w)[a], issued + 1)
  OBVIOUS
<1>2. c.status = "running" /\ c.lease = issued + 1 /\ c.fresh = TRUE
  BY DEF Claimed
<1>3. /\ row'[a] = c
      /\ \A b \in Activity : b # a => row'[b] = AfterRecovery(w)[b]
  BY <1>1 DEF ClaimRow
<1>4. /\ Executing(w)' /\ job'[w] = a /\ lease'[w] = issued + 1 /\ ~Executing(w)
      /\ \A v \in Worker : v # w =>
           /\ Executing(v)' <=> Executing(v)
           /\ job'[v] = job[v] /\ lease'[v] = lease[v] /\ lease[v] # issued + 1
  BY <1>1 DEF ClaimRow, Executing
<1>5. \A b \in Activity : w \notin holder[b]
  BY <1>4 DEF holder
<1>6. T = Lifecycle!Lost(w) /\ \A b \in T : Lifecycle!Existing(b)
  BY RecoveringIsLost, RecoveredExist DEF ClaimRow
<1>7. Lifecycle!Requeued(T)[a] = "pending"
  BY RecoveryTakesBack DEF ClaimRow
<1>8. status' = [Lifecycle!Requeued(T) EXCEPT ![a] = "running"]
  <2>1. status'[a] = "running"
    BY <1>2, <1>3 DEF status
  <2>2. \A b \in Activity : b # a => status'[b] = Lifecycle!Requeued(T)[b]
    BY <1>3, RecoveryTakesBack DEF status
  <2> QED BY <2>1, <2>2 DEF status, Lifecycle!Requeued
<1>9. holder' = [Lifecycle!Released(T) EXCEPT ![a] = {w}]
  <2>1. holder'[a] = {w}
    BY <1>2, <1>3, <1>4 DEF holder
  <2>2. ASSUME NEW b \in Activity, b # a
        PROVE  holder'[b] = Lifecycle!Released(T)[b]
    <3>1. Lifecycle!Released(T)[b] =
            {v \in Worker : Executing(v) /\ job[v] = b /\ lease[v] = AfterRecovery(w)[b].lease}
      BY RecoveryTakesBack
    <3>2. row'[b] = AfterRecovery(w)[b]
      BY <1>3, <2>2
    <3> QED BY <1>4, <2>2, <3>1, <3>2 DEF holder
  <2> QED BY <2>1, <2>2 DEF holder, Lifecycle!Released
<1>10. inTime' = (inTime \ T) \cup {a}
  <2>1. a \in inTime'
    BY <1>2, <1>3 DEF inTime
  <2>2. \A b \in Activity : b # a => (b \in inTime' <=> b \in inTime \ T)
    BY <1>3, RecoveryTakesBack DEF inTime
  <2> QED BY <2>1, <2>2 DEF inTime
<1>11. Lifecycle!Forgets(w) /\ UNCHANGED <<doomed, ownerOps>>
  BY DEF ClaimRow, Lifecycle!Forgets
<1> HIDE DEF T
<1>12. Lifecycle!Take(w, a)
  BY <1>5, <1>6, <1>7, <1>8, <1>9, <1>10, <1>11 DEF Lifecycle!Take
<1> QED BY <1>12 DEF Lifecycle!Next

\* The first update of a run makes an activity that was set back to pending
\* run again; one that is running it leaves as it is.
LEMMA StartRefines ==
  ASSUME IInv, NEW w \in Worker, StartRun(w)
  PROVE  [Lifecycle!Next]_Lifecycle!vars
<1> DEFINE j == job[w]
<1>1. /\ UNCHANGED <<job, lease, seen, doomed, ownerOps>>
      /\ Executing(w) /\ \A v \in Worker : Executing(v)' <=> Executing(v)
  BY DEF StartRun, Executing, IInv, TypeOK
<1>2. /\ j \in Activity /\ row \in [Activity -> Row]
      /\ Accepts(row[j], lease[w]) <=> w \in holder[j]
  BY <1>1, HolderIsAccepted DEF IInv, TypeOK
<1>3. CASE w \notin holder[j]
  <2>1. row' = row
    BY <1>2, <1>3 DEF StartRun, Report
  <2> QED BY <1>1, <2>1, SameLifecycle
<1>4. CASE w \in holder[j]
  <2>1. holder[j] = {w} /\ row[j].status \in {"pending", "running"}
    BY <1>2, <1>4, OneHolder
  <2> PICK r : r = WithStatus(row[j], "running")
    OBVIOUS
  <2>2. row'[j] = r /\ row' = [row EXCEPT ![j] = r]
    BY <1>2, <1>4 DEF StartRun, Report
  <2>3. /\ r.status = "running" /\ r.lease = row[j].lease
        /\ r.fresh = ("running" # row[j].status \/ row[j].fresh)
    BY DEF WithStatus, Settled, Terminal, Paused
  <2>4. \A b \in Activity : b # j => row'[b] = row[b]
    BY <1>2, <2>2
  <2>5. holder' = holder
    BY <1>1, <2>2, <2>3, <2>4 DEF holder
  <2>6. CASE row[j].status = "running"
    <3>1. status' = status
      BY <2>2, <2>3, <2>4, <2>6 DEF status
    <3>2. inTime' = inTime
      BY <2>2, <2>3, <2>4, <2>6 DEF inTime
    <3> QED BY <1>1, <2>5, <3>1, <3>2 DEF Lifecycle!vars
  <2>7. CASE row[j].status = "pending"
    <3>1. r.status = "running" /\ r.fresh
      BY <2>3, <2>7
    <3>2. status' = [status EXCEPT ![j] = "running"]
      BY <1>2, <2>2, <3>1, OneRow
    <3>3. inTime' = inTime \cup {j}
      BY <1>2, <2>2, <3>1, OneRow
    <3>4. holder' = [holder EXCEPT ![j] = {w}]
      BY <2>1, <2>5 DEF holder
    <3>5. status[j] = "pending"
      BY <1>2, <2>7 DEF status
    <3>6. Lifecycle!Start(w, j)
      BY <1>1, <2>1, <3>2, <3>3, <3>4, <3>5 DEF Lifecycle!Start, Lifecycle!Becomes
    <3> QED BY <1>2, <3>6 DEF Lifecycle!Next
  <2> QED BY <2>1, <2>6, <2>7
<1> QED BY <1>3, <1>4

LEMMA HeartbeatRefines ==
  ASSUME IInv, NEW w \in Worker, Heartbeat(w)
  PROVE  [Lifecycle!Next]_Lifecycle!vars
<1> DEFINE j == job[w]
<1>1. /\ UNCHANGED <<pc, job, lease, seen, doomed, ownerOps>> /\ Executing(w)
      /\ j \in Activity /\ row \in [Activity -> Row]
      /\ \A v \in Worker : Executing(v)' <=> Executing(v)
  BY DEF Heartbeat, Executing, IInv, TypeOK, ExecutionInv
<1>2. CASE ~Renewable(row[j], lease[w])
  <2>1. row' = row
    BY <1>2 DEF Heartbeat
  <2> QED BY <1>1, <2>1, SameLifecycle
<1>3. CASE Renewable(row[j], lease[w])
  <2>1. w \in holder[j] /\ row[j].status = "running"
    BY <1>1, <1>3 DEF Renewable, holder
  <2>2. holder[j] = {w}
    BY <1>1, <2>1, OneHolder
  <2> PICK r : r = Renewed(row[j])
    OBVIOUS
  <2>3. row' = [row EXCEPT ![j] = r]
    BY <1>1, <1>3 DEF Heartbeat
  <2>4. r.status = "running" /\ r.fresh = TRUE /\ r.lease = row[j].lease
    BY <2>1 DEF Renewed
  <2>5. holder' = holder
    BY <1>1, <2>3, <2>4, OneRowAlone
  <2>6. r.status = "running" /\ r.fresh
    BY <2>4
  <2>7. status' = [status EXCEPT ![j] = "running"]
    BY <1>1, <2>3, <2>6, OneRow
  <2>8. inTime' = inTime \cup {j}
    BY <1>1, <2>3, <2>6, OneRow
  <2>9. status[j] = "running" /\ status' = status
    BY <1>1, <2>1, <2>7 DEF status
  <2> QED BY <1>1, <2>2, <2>5, <2>8, <2>9 DEF Lifecycle!Next, Lifecycle!Renew
<1> QED BY <1>2, <1>3

LEMMA WorkerStepRefines ==
  ASSUME IInv, NEW w \in Worker, WorkerStep(w)
  PROVE  [Lifecycle!Next]_Lifecycle!vars
<1>1. pc \in [Worker -> PC]
  BY DEF IInv, TypeOK
<1>2. ASSUME UNCHANGED <<row, job, lease, ownerOps>>, ~Executing(w),
             NEW next \in PC \ {"claimed", "running"}, pc' = [pc EXCEPT ![w] = next]
      PROVE  UNCHANGED <<status, holder, inTime>> /\ \A v \in Worker : Executing(v)' <=> Executing(v)
  <2>1. \A v \in Worker : Executing(v)' <=> Executing(v)
    BY <1>1, <1>2 DEF Executing
  <2> QED BY <1>2, <2>1 DEF status, holder, inTime
<1>3. CASE BeginClaim(w)
  <2>1. UNCHANGED <<status, holder, inTime, doomed, ownerOps>>
    BY <1>2, <1>3 DEF BeginClaim, Executing, PC, table
  <2>2. Lifecycle!Overdue = ExpiredRows
    BY DEF Lifecycle!Overdue, ExpiredRows, Expired, status, inTime
  <2>3. Lifecycle!Look(w)
    BY <1>3, <2>1, <2>2 DEF BeginClaim, Lifecycle!Look
  <2> QED BY <2>3 DEF Lifecycle!Next
<1>4. CASE ClaimAborts(w)
  <2>1. UNCHANGED <<status, holder, inTime, doomed, ownerOps>>
    BY <1>2, <1>4 DEF ClaimAborts, RaisePc, Executing, PC, table
  <2>2. Lifecycle!Forget(w)
    BY <1>4, <2>1 DEF ClaimAborts, Lifecycle!Forget, Lifecycle!Forgets
  <2> QED BY <2>2 DEF Lifecycle!Next
<1>5. CASE Restart(w)
  <2>1. UNCHANGED <<row, job, lease, seen, doomed, ownerOps>>
    BY <1>5 DEF Restart, table
  <2>2. \A v \in Worker : Executing(v)' <=> Executing(v)
    BY <1>2, <1>5, <2>1 DEF Restart, Executing, PC
  <2> QED BY <2>1, <2>2, SameLifecycle
<1>6. ASSUME NEW a \in Activity, ClaimRow(w, a) PROVE Lifecycle!Next
  BY <1>6, ClaimRefines
<1>7. CASE ClaimNothing(w)
  BY <1>7, RecoveryRefines
<1>8. CASE StartRun(w)
  BY <1>8, StartRefines
<1>9. ASSUME NEW s \in Outcome, Finish(w, s) PROVE Lifecycle!Next
  <2>1. PICK next \in PC \ {"claimed", "running"} : Leave(w, next)
    BY <1>9 DEF Finish, PC, RaisePc
  <2>2. s \in Settled /\ Executing(w) /\ Report(w, s)
        /\ UNCHANGED <<doomed, ownerOps>>
    BY <1>9 DEF Finish, Outcome, Settled, Terminal, Paused, Executing
  <2> QED BY <2>1, <2>2, OutcomeRefines
<1>10. CASE NoticeCancel(w)
  <2>1. PICK next \in PC \ {"claimed", "running"} : Leave(w, next)
    BY <1>10 DEF NoticeCancel, PC
  <2>2. "cancelled" \in Settled /\ Executing(w) /\ Report(w, "cancelled")
        /\ UNCHANGED <<doomed, ownerOps>>
    BY <1>10 DEF NoticeCancel, Settled, Terminal, Executing
  <2> QED BY <2>1, <2>2, OutcomeRefines
<1>11. CASE Shutdown(w)
  <2>1. Leave(w, "exited") /\ "exited" \in PC \ {"claimed", "running"}
    BY <1>11 DEF Shutdown, PC
  <2>2. "cancelled" \in Settled /\ Executing(w) /\ Report(w, "cancelled")
        /\ UNCHANGED <<doomed, ownerOps>>
    BY <1>11 DEF Shutdown, Settled, Terminal, Executing
  <2> QED BY <2>1, <2>2, OutcomeRefines
<1>12. CASE Heartbeat(w)
  BY <1>12, HeartbeatRefines
<1>13. CASE HeartbeatDies(w)
  <2>1. UNCHANGED <<row, pc, job, lease, seen, doomed, ownerOps>>
    BY <1>13 DEF HeartbeatDies, table
  <2>2. \A v \in Worker : Executing(v)' <=> Executing(v)
    BY <2>1 DEF Executing
  <2> QED BY <2>1, <2>2, SameLifecycle
<1>14. CASE Crash(w)
  <2>1. /\ Leave(w, "exited") /\ "exited" \in PC \ {"claimed", "running"}
        /\ UNCHANGED <<row, doomed, ownerOps>>
    BY <1>14 DEF Crash, PC, table
  <2>2. CASE Executing(w)
    BY <2>1, <2>2, CrashRefines
  <2>3. CASE ~Executing(w)
    <3>1. \A v \in Worker : v # w =>
            (Executing(v)' <=> Executing(v)) /\ job'[v] = job[v] /\ lease'[v] = lease[v]
      BY <1>1, <2>1 DEF Leave, Executing, IInv, TypeOK
    <3>2. ~Executing(w)'
      BY <1>1, <2>1 DEF Leave, Executing
    <3>3. status' = status /\ inTime' = inTime /\ Lifecycle!Forgets(w)
      BY <2>1 DEF status, inTime, Leave, Lifecycle!Forgets
    <3>4. holder' = holder
      BY <2>1, <2>3, <3>1, <3>2 DEF holder
    <3> QED BY <2>1, <3>3, <3>4 DEF Lifecycle!Next, Lifecycle!Forget
  <2> QED BY <2>2, <2>3
<1>15. CASE OwnerStartsRunner(w)
  <2>1. UNCHANGED <<row, job, lease, seen, doomed>> /\ ownerOps' = ownerOps + 1
    BY <1>15 DEF OwnerStartsRunner, OwnerActs, table
  <2>2. \A v \in Worker : Executing(v)' <=> Executing(v)
    BY <1>1, <1>15 DEF OwnerStartsRunner, Executing
  <2>3. status' = status /\ inTime' = inTime
    BY <2>1 DEF status, inTime
  <2>4. holder' = holder
    BY <2>1, <2>2 DEF holder
  <2> QED BY <2>1, <2>3, <2>4 DEF Lifecycle!Next, Lifecycle!OwnerAsksElse
<1> QED BY <1>3, <1>4, <1>5, <1>6, <1>7, <1>8, <1>9, <1>10, <1>11, <1>12, <1>13,
           <1>14, <1>15 DEF WorkerStep

\* Rows that are deleted at once are activities that are discarded.
LEMMA DeletionDiscards ==
  ASSUME IInv, NEW D \in SUBSET Activity,
         row' = [a \in Activity |-> IF a \in D THEN DeletedRow ELSE row[a]],
         UNCHANGED <<pc, job, lease, seen, ownerOps>>
  PROVE  Lifecycle!Discards(D)
<1>1. \A a \in Activity :
        /\ a \in D => row'[a] = DeletedRow
        /\ a \notin D => row'[a] = row[a]
  OBVIOUS
<1>2. \A w \in Worker :
        /\ Executing(w)' <=> Executing(w)
        /\ Executing(w) => lease[w] # NoLease
  BY DEF Executing, IInv, ExecutionInv
<1>3. DeletedRow.status = "deleted" /\ DeletedRow.lease = NoLease
  BY DEF DeletedRow
<1>4. status' = [a \in Activity |-> IF a \in D THEN "deleted" ELSE status[a]]
  BY <1>1, <1>3 DEF status
<1>5. holder' = Lifecycle!Released(D)
  <2>1. \A a \in D : holder'[a] = {}
    BY <1>1, <1>2, <1>3 DEF holder
  <2>2. \A a \in Activity \ D : holder'[a] = holder[a]
    BY <1>1, <1>2 DEF holder
  <2>3. \A a \in Activity : holder'[a] = IF a \in D THEN {} ELSE holder[a]
    BY <2>1, <2>2
  <2> QED BY <2>3 DEF holder, Lifecycle!Released
<1>6. inTime' = inTime \ D
  <2>1. \A a \in Activity : a \in inTime' <=> a \in inTime \ D
    BY <1>1, <1>3 DEF inTime
  <2> QED BY <2>1 DEF inTime
<1> QED BY <1>4, <1>5, <1>6 DEF Lifecycle!Discards

\* What a retention pass chooses has finished.
LEMMA VictimsFinished ==
  ASSUME NEW D \in Victims
  PROVE  D \in SUBSET Activity /\ \A a \in D : status[a] \in Lifecycle!Finished
<1>1. PICK C \in Overflow(Completed), F \in Overflow(FailedOrCancelled) : D = C \cup F
  BY DEF Victims
<1>2. C \subseteq Completed /\ F \subseteq FailedOrCancelled
  BY DEF Overflow
<1> QED BY <1>1, <1>2 DEF Completed, FailedOrCancelled, status, Lifecycle!Finished

\* Retention discards what has finished, or had finished when it was chosen.
LEMMA RetentionRefines ==
  ASSUME IInv, PruneSelects \/ PruneDeletes \/ PruneUnderLock
  PROVE  Lifecycle!Next
<1>1. CASE PruneSelects
  <2>1. PICK D \in Victims : doomed' = D
    BY <1>1 DEF PruneSelects
  <2>2. UNCHANGED <<row, pc, job, lease, seen, ownerOps>> /\ DatabaseBackend
    BY <1>1 DEF PruneSelects, table, execution
  <2>3. UNCHANGED <<status, holder, inTime>>
    BY <2>2 DEF status, holder, inTime, Executing
  <2>4. D \in SUBSET Activity /\ Lifecycle!Choose(D)
    BY <2>1, <2>2, <2>3, VictimsFinished DEF Lifecycle!Choose
  <2> QED BY <2>4 DEF Lifecycle!Next
<1>2. CASE PruneDeletes
  <2>1. UNCHANGED <<pc, job, lease, seen, ownerOps>> /\ doomed' = {}
    BY <1>2 DEF PruneDeletes, execution
  <2>2. doomed \in SUBSET Activity
    BY DEF IInv, TypeOK
  <2>3. Lifecycle!Discards(doomed)
    BY <1>2, <2>1, <2>2, DeletionDiscards DEF PruneDeletes
  <2> QED BY <2>1, <2>3 DEF Lifecycle!Next, Lifecycle!DiscardChosen
<1>3. CASE PruneUnderLock
  <2>1. PICK D \in Victims :
          row' = [a \in Activity |-> IF a \in D THEN DeletedRow ELSE row[a]]
    BY <1>3 DEF PruneUnderLock
  <2>2. UNCHANGED <<pc, job, lease, seen, doomed, ownerOps>> /\ ~DatabaseBackend
    BY <1>3 DEF PruneUnderLock, execution
  <2>3. D \in SUBSET Activity /\ \A a \in D : status[a] \in Lifecycle!Finished
    BY VictimsFinished
  <2>4. Lifecycle!Discards(D)
    BY <2>1, <2>2, <2>3, DeletionDiscards
  <2>5. Lifecycle!Discard(D)
    BY <2>2, <2>3, <2>4 DEF Lifecycle!Discard
  <2> QED BY <2>3, <2>5 DEF Lifecycle!Next
<1> QED BY <1>1, <1>2, <1>3

LEMMA InitLifecycle == Init => Lifecycle!Init
<1> SUFFICES ASSUME Init PROVE Lifecycle!Init
  OBVIOUS
<1>1. \A a \in Activity : row[a] = UnbornRow /\ UnbornRow.status = "unborn"
  BY DEF Init, UnbornRow
<1>2. \A w \in Worker : ~Executing(w)
  BY DEF Init, Executing
<1>3. /\ status = [a \in Activity |-> "unborn"] /\ inTime = {} /\ ownerOps = 0
      /\ seen = [w \in Worker |-> {}] /\ doomed = {}
  BY <1>1 DEF Init, status, inTime
<1>4. holder = [a \in Activity |-> {}]
  BY <1>2 DEF holder
<1> QED BY <1>3, <1>4 DEF Lifecycle!Init

LEMMA NextRefines ==
  ASSUME IInv, [Next]_vars
  PROVE  [Lifecycle!Next]_Lifecycle!vars
<1>1. CASE PruneSelects \/ PruneDeletes \/ PruneUnderLock
  BY <1>1, RetentionRefines
<1>2. CASE UNCHANGED vars
  <2>1. UNCHANGED <<row, pc, job, lease, seen, doomed, ownerOps>>
    BY <1>2 DEF vars
  <2>2. \A w \in Worker : Executing(w)' <=> Executing(w)
    BY <2>1 DEF Executing
  <2> QED BY <2>1, <2>2, SameLifecycle
<1> QED BY <1>1, <1>2, WorkerStepRefines, ActivityStepRefines DEF Next

\* The queue keeps everything ActivityLifecycle promises of an activity, with
\* either backend: whatever rows, leases, heartbeats, recoveries and retention
\* do is a step of that specification or none.
THEOREM QueueKeepsLifecycle == Spec => KeepsLifecycle
<1>1. Init => Lifecycle!Init
  BY InitLifecycle
<1>2. IInv /\ [Next]_vars => [Lifecycle!Next]_Lifecycle!vars
  BY NextRefines
<1> QED BY <1>1, <1>2, Inductive, PTL DEF Spec, KeepsLifecycle, Lifecycle!Spec
=============================================================================
