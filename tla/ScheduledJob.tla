---------------------------- MODULE ScheduledJob ----------------------------
(***************************************************************************)
(* One cron job run by several application instances: the scheduler loop   *)
(* of services/scheduler_service.py and the lease row it takes for each    *)
(* run (services/scheduled_job_lease_service.py).                          *)
(*                                                                         *)
(* The job is due when a cron time has passed since its last success was   *)
(* logged; several missed times make one due job.  As in ActivityRecord, a *)
(* lease keeps one bit of its deadline.  Acquiring is one transaction on a *)
(* locked row; renewing and releasing read the row without locking it and  *)
(* write it by primary key, so each is two steps.                          *)
(***************************************************************************)
EXTENDS Naturals

CONSTANTS Instance,      \* application instances
          Nobody,        \* the holder when there is no lease row
          Ghost,         \* the holder_id of a process that is gone
          MaxFaults      \* bound: crashes, stops, lapses, failing statements

ASSUME JobAssumption ==
  /\ Nobody \notin Instance
  /\ Ghost \notin Instance
  /\ Nobody # Ghost
  /\ MaxFaults \in Nat

VARIABLES lease,      \* the row of scheduled_job_leases
          due,        \* is a cron time newer than the last logged success?
          pc,         \* what the loop of each instance is doing
          status,     \* did its last run succeed?
          beat,       \* its heartbeat task
          renewing,   \* has the heartbeat read the row and not yet written it?
          body,       \* instances whose job body is executing
          quit,       \* instances whose loop has been cancelled
          faults,
          lapsed      \* history: instances that lost a lease in use, or were stopped

vars == <<lease, due, pc, status, beat, renewing, body, quit, faults, lapsed>>

PC == {"polling", "due", "running", "recording", "leaving", "deleting", "stopped"}
Beat == {"off", "on", "ended", "raised"}
Lease == [holder : Instance \cup {Nobody, Ghost}, fresh : BOOLEAN]
NoLease == [holder |-> Nobody, fresh |-> FALSE]

TypeOK ==
  /\ lease \in Lease
  /\ due \in BOOLEAN
  /\ pc \in [Instance -> PC]
  /\ status \in [Instance -> BOOLEAN]
  /\ beat \in [Instance -> Beat]
  /\ renewing \in [Instance -> BOOLEAN]
  /\ body \in SUBSET Instance
  /\ quit \in SUBSET Instance
  /\ faults \in Nat
  /\ lapsed \in SUBSET Instance

\* A job that has never succeeded is due at once.
Init ==
  /\ lease = NoLease
  /\ due = TRUE
  /\ pc = [i \in Instance |-> "polling"]
  /\ status = [i \in Instance |-> FALSE]
  /\ beat = [i \in Instance |-> "off"]
  /\ renewing = [i \in Instance |-> FALSE]
  /\ body = {}
  /\ quit = {}
  /\ faults = 0
  /\ lapsed = {}

\* From its acquire to its release an instance takes the lease for its own.
InSession(i) == pc[i] \in {"running", "recording", "leaving", "deleting"}

Fault == faults < MaxFaults /\ faults' = faults + 1

-----------------------------------------------------------------------------
(* The loop.                                                               *)

CronTick ==
  /\ ~due
  /\ due' = TRUE
  /\ UNCHANGED <<lease, pc, status, beat, renewing, body, quit, faults, lapsed>>

FindsDue(i) ==
  /\ pc[i] = "polling"
  /\ due
  /\ pc' = [pc EXCEPT ![i] = "due"]
  /\ UNCHANGED <<lease, due, status, beat, renewing, body, quit, faults, lapsed>>

\* Faulty variants of the next definition: an expired lease stays with its
\* holder; a lease in use may be taken.
NeverExpires(i) == lease.holder \in {Nobody, i}
AlwaysTakeable(i) == TRUE

\* No row, an expired one, or one this process holds already.
Takeable(i) == lease.holder = i \/ ~lease.fresh

\* A row another transaction has locked is skipped, and the INSERT that
\* follows violates the primary key.
Contended(i) ==
  /\ lease.holder # Nobody
  /\ \E j \in Instance \ {i} : pc[j] \in {"due", "deleting"} \/ renewing[j]

Acquire(i) ==
  /\ pc[i] = "due"
  /\ Takeable(i)
  /\ lease' = [holder |-> i, fresh |-> TRUE]
  /\ pc' = [pc EXCEPT ![i] = "running"]
  /\ beat' = [beat EXCEPT ![i] = "on"]
  /\ body' = body \cup {i}
  /\ UNCHANGED <<due, status, renewing, quit, faults, lapsed>>

AcquireFails(i) ==
  /\ pc[i] = "due"
  /\ ~Takeable(i) \/ Contended(i)
  /\ pc' = [pc EXCEPT ![i] = "polling"]
  /\ UNCHANGED <<lease, due, status, beat, renewing, body, quit, faults, lapsed>>

\* runner() returns a status or raises, which counts as failed.
RunEnds(i, s) ==
  /\ pc[i] = "running"
  /\ pc' = [pc EXCEPT ![i] = "recording"]
  /\ status' = [status EXCEPT ![i] = s]
  /\ body' = body \ {i}
  /\ UNCHANGED <<lease, due, beat, renewing, quit, faults, lapsed>>

Record(i) ==
  /\ pc[i] = "recording"
  /\ pc' = [pc EXCEPT ![i] = "leaving"]
  /\ due' = (due /\ ~status[i])
  /\ UNCHANGED <<lease, status, beat, renewing, body, quit, faults, lapsed>>

\* The log row cannot be written; the lease is released all the same.
RecordFails(i) ==
  /\ pc[i] = "recording"
  /\ Fault
  /\ pc' = [pc EXCEPT ![i] = "leaving"]
  /\ UNCHANGED <<lease, due, status, beat, renewing, body, quit, lapsed>>

\* Faulty variant: a cancelled loop is left in a state of its own.
NextPcStopping(i) == IF i \in quit THEN "stopping" ELSE "polling"

\* Where the loop goes when the lease is behind it.
NextPc(i) == IF i \in quit THEN "stopped" ELSE "polling"

\* The heartbeat task is cancelled and awaited, then release reads the row.
ReleaseReads(i) ==
  /\ pc[i] = "leaving"
  /\ beat[i] # "raised"
  /\ beat' = [beat EXCEPT ![i] = "off"]
  /\ pc' = [pc EXCEPT ![i] = IF lease.holder = i THEN "deleting" ELSE NextPc(i)]
  /\ UNCHANGED <<lease, due, status, renewing, body, quit, faults, lapsed>>

\* DELETE by primary key, whoever holds the lease by now.
ReleaseDeletes(i) ==
  /\ pc[i] = "deleting"
  /\ lease' = NoLease
  /\ pc' = [pc EXCEPT ![i] = NextPc(i)]
  /\ UNCHANGED <<due, status, beat, renewing, body, quit, faults, lapsed>>

\* Awaiting a heartbeat that has raised raises again, and release is skipped.
ReleaseSkipped(i) ==
  /\ pc[i] = "leaving"
  /\ beat[i] = "raised"
  /\ beat' = [beat EXCEPT ![i] = "off"]
  /\ pc' = [pc EXCEPT ![i] = NextPc(i)]
  /\ UNCHANGED <<lease, due, status, renewing, body, quit, faults, lapsed>>

-----------------------------------------------------------------------------
(* Heartbeats and time.                                                    *)

\* The unlocked read of renew.  A rejected renewal ends the heartbeat; the job
\* body is not told.
RenewReads(i) ==
  /\ beat[i] = "on"
  /\ ~renewing[i]
  /\ IF lease.holder = i /\ lease.fresh
     THEN renewing' = [renewing EXCEPT ![i] = TRUE] /\ UNCHANGED beat
     ELSE beat' = [beat EXCEPT ![i] = "ended"] /\ UNCHANGED renewing
  /\ UNCHANGED <<lease, due, pc, status, body, quit, faults, lapsed>>

\* UPDATE by primary key, in a thread that outlives a cancelled heartbeat.
\* When the row is gone it raises.
RenewWrites(i) ==
  /\ renewing[i]
  /\ renewing' = [renewing EXCEPT ![i] = FALSE]
  /\ IF lease.holder = Nobody
     THEN /\ beat' = [beat EXCEPT ![i] = IF @ = "on" THEN "raised" ELSE @]
          /\ UNCHANGED lease
     ELSE /\ lease' = [holder |-> lease.holder, fresh |-> TRUE]
          /\ UNCHANGED beat
  /\ UNCHANGED <<due, pc, status, body, quit, faults, lapsed>>

HeartbeatRaises(i) ==
  /\ beat[i] = "on"
  /\ Fault
  /\ beat' = [beat EXCEPT ![i] = "raised"]
  /\ UNCHANGED <<lease, due, pc, status, renewing, body, quit, lapsed>>

\* SCHEDULED_JOB_LEASE_SECONDS pass without a renewal.  While the holder renews
\* or is about to release, that takes a late heartbeat and counts as a fault.
Late(i) == InSession(i) /\ beat[i] \in {"on", "off"}

Lapse ==
  /\ lease.fresh
  /\ IF lease.holder \in Instance /\ Late(lease.holder)
     THEN Fault
     ELSE UNCHANGED faults
  /\ lease' = [holder |-> lease.holder, fresh |-> FALSE]
  /\ lapsed' = lapsed \cup {i \in Instance : i = lease.holder /\ InSession(i)}
  /\ UNCHANGED <<due, pc, status, beat, renewing, body, quit>>

-----------------------------------------------------------------------------
(* Shutdown and crashes.                                                   *)

\* stop() cancels the loop between runs.  The statement of an acquire that is
\* under way runs on in its thread, and nobody will release what it takes.
StopEarly(i) ==
  /\ pc[i] \in {"polling", "due"}
  /\ Fault
  /\ pc' = [pc EXCEPT ![i] = "stopped"]
  /\ quit' = quit \cup {i}
  /\ \/ UNCHANGED lease
     \/ /\ pc[i] = "due"
        /\ Takeable(i)
        /\ lease' = [holder |-> i, fresh |-> TRUE]
  /\ UNCHANGED <<due, status, beat, renewing, body, lapsed>>

\* stop() cancels the loop while it awaits the job.  A body that runs in a
\* thread goes on; the lease is released without it.
Stop(i) ==
  /\ pc[i] = "running"
  /\ Fault
  /\ pc' = [pc EXCEPT ![i] = "leaving"]
  /\ quit' = quit \cup {i}
  /\ lapsed' = lapsed \cup {i}
  /\ UNCHANGED <<lease, due, status, beat, renewing, body>>

\* stop() after the run: the log row may still be written, and the release is
\* in a finally clause.
StopLate(i) ==
  /\ pc[i] \in {"recording", "leaving", "deleting"}
  /\ i \notin quit
  /\ Fault
  /\ pc' = [pc EXCEPT ![i] = IF @ = "recording" THEN "leaving" ELSE @]
  /\ quit' = quit \cup {i}
  /\ \/ UNCHANGED due
     \/ pc[i] = "recording" /\ due' = (due /\ ~status[i])
  /\ UNCHANGED <<lease, status, beat, renewing, body, lapsed>>

ThreadEnds(i) ==
  /\ i \in body
  /\ pc[i] # "running"
  /\ body' = body \ {i}
  /\ UNCHANGED <<lease, due, pc, status, beat, renewing, quit, faults, lapsed>>

\* A new process takes the place of the old one, with a holder_id of its own.
Replaced(i) ==
  /\ lease' = [holder |-> IF lease.holder = i THEN Ghost ELSE lease.holder,
               fresh  |-> lease.fresh]
  /\ pc' = [pc EXCEPT ![i] = "polling"]
  /\ beat' = [beat EXCEPT ![i] = "off"]
  /\ renewing' = [renewing EXCEPT ![i] = FALSE]
  /\ body' = body \ {i}
  /\ quit' = quit \ {i}

Crash(i) ==
  /\ pc[i] # "stopped"
  /\ Fault
  /\ Replaced(i)
  /\ UNCHANGED <<due, status, lapsed>>

\* The process exits when its threads have ended.
Restart(i) ==
  /\ pc[i] = "stopped"
  /\ i \notin body
  /\ Replaced(i)
  /\ UNCHANGED <<due, status, faults, lapsed>>

-----------------------------------------------------------------------------

InstanceStep(i) ==
  \/ FindsDue(i)
  \/ Acquire(i)
  \/ AcquireFails(i)
  \/ \E s \in BOOLEAN : RunEnds(i, s)
  \/ Record(i)
  \/ RecordFails(i)
  \/ ReleaseReads(i)
  \/ ReleaseDeletes(i)
  \/ ReleaseSkipped(i)
  \/ RenewReads(i)
  \/ RenewWrites(i)
  \/ HeartbeatRaises(i)
  \/ StopEarly(i)
  \/ Stop(i)
  \/ StopLate(i)
  \/ ThreadEnds(i)
  \/ Crash(i)
  \/ Restart(i)

Next == CronTick \/ Lapse \/ \E i \in Instance : InstanceStep(i)

Spec == Init /\ [][Next]_vars

(***************************************************************************)
(* Every instance keeps polling and its statements and runs end.  A lease  *)
(* that nobody renews runs out.  Two instances do not meet at the row for  *)
(* ever: their polls are minutes apart and a statement takes milliseconds. *)
(***************************************************************************)
Fairness ==
  /\ WF_vars(Lapse /\ UNCHANGED faults)
  /\ \A i \in Instance :
       /\ WF_vars(FindsDue(i))
       /\ SF_vars(Acquire(i))
       /\ WF_vars(AcquireFails(i))
       /\ WF_vars(\E s \in BOOLEAN : RunEnds(i, s))
       /\ WF_vars(Record(i))
       /\ WF_vars(ReleaseReads(i))
       /\ WF_vars(ReleaseDeletes(i))
       /\ WF_vars(ReleaseSkipped(i))
       /\ WF_vars(RenewWrites(i))
       /\ WF_vars(ThreadEnds(i))
       /\ WF_vars(Restart(i))

FairSpec == Spec /\ Fairness

-----------------------------------------------------------------------------
(* Properties.                                                             *)

\* While no lease in use has lapsed and no instance has been stopped in
\* mid-run, at most one instance executes the job, whatever crashes, fails to
\* renew, or leaves its lease behind.
Exclusive == lapsed = {} => \A i, j \in body : i = j

\* Two instances execute the job together only if one of these two lost its
\* lease.
ExclusiveUnlessLost ==
  \A i, j \in body : i # j => i \in lapsed \/ j \in lapsed

\* Each due time is served by one successful run.
OncePerOccurrence ==
  [][\A i \in Instance : Record(i) /\ status[i] => due]_vars

\* A job that is due and not running is run in the end, even when the instance
\* that held the lease is gone or never released it.
DueIsServed == due /\ body = {} ~> body # {} \/ ~due
=============================================================================
