-------------------------- MODULE ScheduledJobProofs --------------------------
(***************************************************************************)
(* Theorems about ScheduledJob, for any number of instances and faults.    *)
(* Exclusive is not inductive: what it rests on is that an instance in the *)
(* middle of a run still finds its own unexpired lease in the row.         *)
(***************************************************************************)
EXTENDS ScheduledJob, TLAPS

\* Nobody has lost a lease: an instance in session holds it, and only runners
\* have a body executing.
SoleHolder ==
  lapsed = {} =>
    /\ \A i \in Instance : InSession(i) => lease.holder = i /\ lease.fresh
    /\ \A i \in body : pc[i] = "running"

IInv == TypeOK /\ SoleHolder

LEMMA InitIInv == Init => IInv
  BY DEF Init, IInv, TypeOK, Lease, NoLease, PC, Beat, SoleHolder, InSession

\* Losing a lease ends the obligation.
LEMMA SomeoneLapsed ==
  ASSUME NEW i \in Instance, i \in lapsed'
  PROVE  SoleHolder'
  BY DEF SoleHolder

\* A process that is replaced takes no lease of another one with it.
LEMMA ReplacedKeepsHolder ==
  ASSUME IInv, NEW i \in Instance, Replaced(i), UNCHANGED lapsed
  PROVE  /\ SoleHolder'
         /\ lease' \in Lease /\ pc' \in [Instance -> PC]
         /\ beat' \in [Instance -> Beat] /\ renewing' \in [Instance -> BOOLEAN]
         /\ body' \subseteq Instance /\ quit' \subseteq Instance
<1>1. /\ lease' \in Lease /\ pc' \in [Instance -> PC]
      /\ beat' \in [Instance -> Beat] /\ renewing' \in [Instance -> BOOLEAN]
      /\ body' \subseteq Instance /\ quit' \subseteq Instance
  BY DEF Replaced, IInv, TypeOK, Lease, PC, Beat
<1>2. SoleHolder'
  BY DEF Replaced, IInv, TypeOK, SoleHolder, InSession
<1> QED BY <1>1, <1>2

LEMMA InstanceStepIInv ==
  ASSUME IInv, NEW i \in Instance, InstanceStep(i)
  PROVE  IInv'
<1> USE DEF IInv
<1>1. CASE FindsDue(i)
  <2>1. TypeOK'
    BY <1>1 DEF FindsDue, TypeOK, PC
  <2>2. SoleHolder'
    BY <1>1 DEF FindsDue, TypeOK, SoleHolder, InSession
  <2> QED BY <2>1, <2>2
<1>2. CASE Acquire(i)
  <2>1. TypeOK'
    BY <1>2 DEF Acquire, TypeOK, PC, Beat, Lease
  <2>2. ASSUME lapsed = {}, NEW j \in Instance, InSession(j)'
        PROVE  j = i
    BY <1>2, <2>2 DEF Acquire, Takeable, TypeOK, SoleHolder, InSession
  <2>3. SoleHolder'
    BY <1>2, <2>2 DEF Acquire, TypeOK, SoleHolder, InSession
  <2> QED BY <2>1, <2>3
<1>3. CASE AcquireFails(i)
  <2>1. TypeOK'
    BY <1>3 DEF AcquireFails, TypeOK, PC
  <2>2. SoleHolder'
    BY <1>3 DEF AcquireFails, TypeOK, SoleHolder, InSession
  <2> QED BY <2>1, <2>2
<1>4. ASSUME NEW s \in BOOLEAN, RunEnds(i, s) PROVE IInv'
  <2>1. TypeOK'
    BY <1>4 DEF RunEnds, TypeOK, PC
  <2>2. SoleHolder'
    BY <1>4 DEF RunEnds, TypeOK, SoleHolder, InSession
  <2> QED BY <2>1, <2>2
<1>5. CASE Record(i) \/ RecordFails(i)
  <2>1. TypeOK'
    <3>1. CASE Record(i)
      <4>1. due' \in BOOLEAN
        BY <3>1, Zenon DEF Record
      <4>2. pc' \in [Instance -> PC]
        BY <3>1 DEF Record, TypeOK, PC
      <4> QED BY <3>1, <4>1, <4>2 DEF Record, TypeOK
    <3>2. CASE RecordFails(i)
      <4>1. faults' \in Nat /\ pc' \in [Instance -> PC]
        BY <3>2 DEF RecordFails, Fault, TypeOK, PC
      <4> QED BY <3>2, <4>1 DEF RecordFails, TypeOK
    <3> QED BY <1>5, <3>1, <3>2
  <2>2. SoleHolder'
    BY <1>5 DEF Record, RecordFails, TypeOK, SoleHolder, InSession
  <2> QED BY <2>1, <2>2
<1>6. CASE ReleaseReads(i) \/ ReleaseSkipped(i)
  <2>1. TypeOK'
    BY <1>6 DEF ReleaseReads, ReleaseSkipped, NextPc, TypeOK, PC, Beat
  <2>2. SoleHolder'
    BY <1>6 DEF ReleaseReads, ReleaseSkipped, NextPc, TypeOK, SoleHolder, InSession
  <2> QED BY <2>1, <2>2
<1>7. CASE ReleaseDeletes(i)
  <2>1. TypeOK'
    BY <1>7 DEF ReleaseDeletes, NextPc, TypeOK, PC, Lease, NoLease
  <2>2. SoleHolder'
    BY <1>7 DEF ReleaseDeletes, NextPc, TypeOK, SoleHolder, InSession
  <2> QED BY <2>1, <2>2
<1>8. CASE RenewReads(i) \/ HeartbeatRaises(i)
  <2>1. TypeOK'
    <3>1. CASE RenewReads(i)
      <4>1. beat' \in [Instance -> Beat] /\ renewing' \in [Instance -> BOOLEAN]
        BY <3>1 DEF RenewReads, TypeOK, Beat
      <4> QED BY <3>1, <4>1 DEF RenewReads, TypeOK
    <3>2. CASE HeartbeatRaises(i)
      <4>1. faults' \in Nat /\ beat' \in [Instance -> Beat]
        BY <3>2 DEF HeartbeatRaises, Fault, TypeOK, Beat
      <4> QED BY <3>2, <4>1 DEF HeartbeatRaises, TypeOK
    <3> QED BY <1>8, <3>1, <3>2
  <2>2. SoleHolder'
    BY <1>8 DEF RenewReads, HeartbeatRaises, SoleHolder, InSession
  <2> QED BY <2>1, <2>2
<1>9. CASE RenewWrites(i)
  <2>1. TypeOK'
    <3>1. lease' = lease \/ lease' = [holder |-> lease.holder, fresh |-> TRUE]
      BY <1>9 DEF RenewWrites
    <3>2. lease' \in Lease
      <4>1. lease.holder \in Instance \cup {Nobody, Ghost}
        BY DEF TypeOK, Lease
      <4>2. [holder |-> lease.holder, fresh |-> TRUE] \in Lease
        BY <4>1, Zenon DEF Lease
      <4> QED BY <3>1, <4>2 DEF TypeOK
    <3>3. beat' \in [Instance -> Beat]
      BY <1>9 DEF RenewWrites, TypeOK, Beat
    <3>4. renewing' \in [Instance -> BOOLEAN]
      BY <1>9 DEF RenewWrites, TypeOK
    <3> QED BY <1>9, <3>2, <3>3, <3>4 DEF RenewWrites, TypeOK
  <2>2. SoleHolder'
    BY <1>9 DEF RenewWrites, SoleHolder, InSession
  <2> QED BY <2>1, <2>2
<1>10. CASE Stop(i)
  <2>1. TypeOK'
    BY <1>10 DEF Stop, Fault, TypeOK, PC
  <2> QED BY <1>10, <2>1, SomeoneLapsed DEF Stop
<1>11. CASE StopEarly(i)
  <2>1. CASE UNCHANGED lease
    <3>1. faults' \in Nat /\ pc' \in [Instance -> PC] /\ quit' \in SUBSET Instance
      BY <1>11 DEF StopEarly, Fault, TypeOK, PC
    <3>2. TypeOK'
      BY <1>11, <2>1, <3>1 DEF StopEarly, TypeOK
    <3>3. SoleHolder'
      BY <1>11, <2>1 DEF StopEarly, TypeOK, SoleHolder, InSession
    <3> QED BY <3>2, <3>3
  <2>2. CASE Takeable(i) /\ lease' = [holder |-> i, fresh |-> TRUE]
    <3>1. faults' \in Nat /\ pc' \in [Instance -> PC] /\ quit' \in SUBSET Instance
      BY <1>11 DEF StopEarly, Fault, TypeOK, PC
    <3>2. TypeOK'
      BY <1>11, <2>2, <3>1 DEF StopEarly, TypeOK, Lease
    <3>3. ASSUME lapsed = {}, NEW j \in Instance, InSession(j)
          PROVE  FALSE
      BY <1>11, <2>2, <3>3 DEF StopEarly, Takeable, TypeOK, SoleHolder, InSession
    <3>4. SoleHolder'
      BY <1>11, <3>3 DEF StopEarly, TypeOK, SoleHolder, InSession
    <3> QED BY <3>2, <3>4
  <2> QED BY <1>11, <2>1, <2>2 DEF StopEarly
<1>12. CASE StopLate(i)
  <2>1. due' \in BOOLEAN
    <3>1. due' = due \/ due' = (due /\ ~status[i])
      BY <1>12 DEF StopLate
    <3> QED BY <3>1, Zenon DEF TypeOK
  <2>2. faults' \in Nat /\ pc' \in [Instance -> PC] /\ quit' \in SUBSET Instance
    BY <1>12 DEF StopLate, Fault, TypeOK, PC
  <2>3. TypeOK'
    BY <1>12, <2>1, <2>2 DEF StopLate, TypeOK
  <2>4. SoleHolder'
    BY <1>12 DEF StopLate, TypeOK, SoleHolder, InSession
  <2> QED BY <2>3, <2>4
<1>13. CASE ThreadEnds(i)
  BY <1>13 DEF ThreadEnds, TypeOK, SoleHolder, InSession
<1>14. CASE Crash(i)
  BY <1>14, ReplacedKeepsHolder DEF Crash, Fault, TypeOK
<1>15. CASE Restart(i)
  BY <1>15, ReplacedKeepsHolder DEF Restart, TypeOK
<1> QED BY <1>1, <1>2, <1>3, <1>4, <1>5, <1>6, <1>7, <1>8, <1>9, <1>10, <1>11,
           <1>12, <1>13, <1>14, <1>15 DEF InstanceStep

LEMMA NextIInv == IInv /\ [Next]_vars => IInv'
<1> SUFFICES ASSUME IInv, [Next]_vars PROVE IInv'
  OBVIOUS
<1> USE DEF IInv
<1>1. CASE CronTick
  BY <1>1 DEF CronTick, TypeOK, SoleHolder, InSession
<1>2. CASE Lapse
  <2>1. TypeOK'
    BY <1>2 DEF Lapse, Fault, TypeOK, Lease
  <2>2. CASE \E i \in Instance : i = lease.holder /\ InSession(i)
    <3>1. PICK i \in Instance : i = lease.holder /\ InSession(i)
      BY <2>2
    <3>2. i \in lapsed'
      BY <1>2, <3>1 DEF Lapse
    <3> QED BY <2>1, <3>2, SomeoneLapsed
  <2>3. CASE ~ \E i \in Instance : i = lease.holder /\ InSession(i)
    <3>1. SoleHolder'
      BY <1>2, <2>3 DEF Lapse, TypeOK, SoleHolder, InSession
    <3> QED BY <2>1, <3>1
  <2> QED BY <2>1, <2>2, <2>3
<1>3. ASSUME NEW i \in Instance, InstanceStep(i) PROVE IInv'
  BY <1>3, InstanceStepIInv
<1>4. CASE UNCHANGED vars
  BY <1>4 DEF vars, TypeOK, SoleHolder, InSession
<1> QED BY <1>1, <1>2, <1>3, <1>4 DEF Next

THEOREM Inductive == Spec => []IInv
BY InitIInv, NextIInv, PTL DEF Spec

\* Every variable keeps its type, for any number of instances and faults.
THEOREM TypeCorrect == Spec => []TypeOK
<1>1. IInv => TypeOK
  BY DEF IInv
<1> QED BY <1>1, Inductive, PTL

\* As long as no instance loses a lease it is using, at most one executes the
\* job, whatever crashes, failed renewals and skipped releases there are.
THEOREM RunsAlone == Spec => []Exclusive
<1>1. IInv => Exclusive
  BY DEF IInv, TypeOK, SoleHolder, InSession, Exclusive
<1> QED BY <1>1, Inductive, PTL

-----------------------------------------------------------------------------
(* The job's lease as ExclusiveUse: in use from acquire to release, or to   *)
(* the end of the process.                                                  *)

Session == {"running", "recording", "leaving", "deleting"}

inUse == [j \in {"job"} |-> {i \in Instance : InSession(i)}]

Use == INSTANCE ExclusiveUse WITH
  Resources <- {"job"}, Users <- Instance, using <- inUse

LEMMA InitUse == Init => Use!Init
BY DEF Init, Use!Init, inUse, InSession

\* Who goes from one state to another enters, leaves, or does neither.
LEMMA MoveUses ==
  ASSUME IInv, lapsed = {}, NEW i \in Instance, NEW x \in PC, pc' = [pc EXCEPT ![i] = x],
         x \in Session => InSession(i) \/ \A j \in Instance : ~InSession(j)
  PROVE  [Use!Next]_inUse
<1>1. \A j \in Instance : pc'[j] = IF j = i THEN x ELSE pc[j]
  BY DEF IInv, TypeOK
<1>2. InSession(i) => inUse["job"] = {i}
  BY DEF IInv, SoleHolder, inUse
<1>3. CASE InSession(i) <=> x \in Session
  <2>1. \A j \in Instance : InSession(j)' <=> InSession(j)
    BY <1>1, <1>3 DEF InSession, Session
  <2> QED BY <2>1 DEF inUse
<1>4. CASE ~InSession(i) /\ x \in Session
  <2>1. inUse["job"] = {} /\ inUse'["job"] = {i}
    BY <1>1, <1>4 DEF inUse, InSession, Session
  <2>2. inUse' = [inUse EXCEPT !["job"] = {i}]
    BY <2>1 DEF inUse
  <2> QED BY <2>1, <2>2 DEF Use!Next, Use!Acquire
<1>5. CASE InSession(i) /\ x \notin Session
  <2>1. inUse'["job"] = {}
    BY <1>1, <1>2, <1>5 DEF inUse, InSession, Session
  <2>2. inUse' = [inUse EXCEPT !["job"] = {}]
    BY <2>1 DEF inUse
  <2> QED BY <1>2, <1>5, <2>2 DEF Use!Next, Use!Release
<1> QED BY <1>3, <1>4, <1>5

\* An instance that acquires finds no lease that another one is using.
LEMMA AcquiredIsFree ==
  ASSUME IInv, lapsed = {}, NEW i \in Instance, Acquire(i)
  PROVE  \A j \in Instance : ~InSession(j)
<1>1. pc[i] = "due" /\ (lease.holder = i \/ ~lease.fresh)
  BY DEF Acquire, Takeable
<1>2. ~InSession(i)
  BY <1>1 DEF InSession
<1> QED BY <1>1, <1>2 DEF IInv, SoleHolder

LEMMA InstanceStepUses ==
  ASSUME IInv, lapsed = {}, NEW i \in Instance, InstanceStep(i)
  PROVE  [Use!Next]_inUse
<1>1. CASE Acquire(i)
  <2>1. pc' = [pc EXCEPT ![i] = "running"] /\ "running" \in PC
    BY <1>1 DEF Acquire, PC
  <2> QED BY <1>1, <2>1, AcquiredIsFree, MoveUses
<1>2. CASE \/ RenewReads(i) \/ RenewWrites(i) \/ HeartbeatRaises(i) \/ ThreadEnds(i)
  <2>1. pc' = pc
    BY <1>2 DEF RenewReads, RenewWrites, HeartbeatRaises, ThreadEnds
  <2> QED BY <2>1 DEF inUse, InSession
<1>3. CASE \/ FindsDue(i) \/ AcquireFails(i) \/ StopEarly(i)
           \/ ReleaseDeletes(i) \/ ReleaseSkipped(i) \/ Crash(i) \/ Restart(i)
  <2>1. PICK x \in PC \ Session : pc' = [pc EXCEPT ![i] = x]
    BY <1>3 DEF FindsDue, AcquireFails, StopEarly, ReleaseDeletes, ReleaseSkipped,
                Crash, Restart, Replaced, NextPc, PC, Session
  <2> QED BY <2>1, MoveUses
<1>4. CASE \/ \E s \in BOOLEAN : RunEnds(i, s)
           \/ Record(i) \/ RecordFails(i) \/ ReleaseReads(i) \/ Stop(i) \/ StopLate(i)
  <2>1. InSession(i)
    BY <1>4 DEF RunEnds, Record, RecordFails, ReleaseReads, Stop, StopLate, InSession
  <2>2. PICK x \in PC : pc' = [pc EXCEPT ![i] = x]
    <3>1. pc[i] \in PC
      BY DEF IInv, TypeOK
    <3> QED BY <1>4, <3>1 DEF RunEnds, Record, RecordFails, ReleaseReads, NextPc,
                              Stop, StopLate, PC
  <2> QED BY <2>1, <2>2, MoveUses
<1> QED BY <1>1, <1>2, <1>3, <1>4 DEF InstanceStep

\* The lease is an ExclusiveUse until one in use has run out or a run was
\* stopped: who acquires it finds nobody between acquire and release, and who
\* leaves was there alone.
THEOREM UsedExclusivelyUntilLost ==
  Spec => Use!Init /\ [][lapsed = {} => [Use!Next]_inUse]_vars
<1>1. IInv /\ [Next]_vars => [lapsed = {} => [Use!Next]_inUse]_vars
  <2> SUFFICES ASSUME IInv, Next, lapsed = {} PROVE [Use!Next]_inUse
    OBVIOUS
  <2>1. CASE CronTick \/ Lapse
    <3>1. pc' = pc
      BY <2>1 DEF CronTick, Lapse
    <3> QED BY <3>1 DEF inUse, InSession
  <2> QED BY <2>1, InstanceStepUses DEF Next
<1> DEFINE Exclusively == lapsed = {} => [Use!Next]_inUse
<1>2. IInv /\ [Next]_vars => [Exclusively]_vars
  BY <1>1
<1> HIDE DEF Exclusively
<1>3. Spec => [][Exclusively]_vars
  BY <1>2, Inductive, PTL DEF Spec
<1>4. Spec => Use!Init
  BY InitUse DEF Spec
<1> QED BY <1>3, <1>4, PTL DEF Exclusively
=============================================================================
