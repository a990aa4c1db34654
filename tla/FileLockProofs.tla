---------------------------- MODULE FileLockProofs ----------------------------
(***************************************************************************)
(* Theorems about FileLock, for any number of processes, attempts and      *)
(* faults, on one host and in containers.                                  *)
(***************************************************************************)
EXTENDS FileLock, TLAPS

Making(p) == pc[p] \in {"writing", "holding"}

\* What the file says while the lock is in use: whose it is, and its PID.
FileTellsMaker ==
  \A p \in Process :
    /\ Making(p) => file.maker = p
    /\ pc[p] = "writing" => file.pid = Unwritten
    /\ pc[p] = "holding" => file.pid = pid[p]

\* While the file a process has read is there, it says what was read.
ReadIsFile ==
  \A p \in Process : read[p].there =>
    file.pid = read[p].pid /\ file.pid # Unwritten

\* A process about to unlink the file it has read unlinks no file in use.
TargetIsAbandoned ==
  \A p \in Process : pc[p] = "reclaiming" /\ read[p].there =>
    \A q \in Process : Making(q) => file.maker # q

Sound == FileTellsMaker /\ ReadIsFile /\ TargetIsAbandoned

\* A file that does not exist names no PID, and in a container every process
\* and every file has PID 1.
Pids ==
  /\ file.maker = NoOne => file.pid = Unwritten
  /\ InContainers => /\ file.pid \in {Unwritten, 1}
                     /\ \A p \in Process :
                          /\ pc[p] # "down" => pid[p] = 1
                          /\ read[p].pid \in {Unwritten, 1}
  /\ \A p \in Process : pc[p] = "testing" => read[p].pid # Unwritten

IInv ==
  /\ TypeOK
  /\ Pids
  /\ ~raced => Sound

LEMMA InitIInv == Init => IInv
<1> SUFFICES ASSUME Init PROVE IInv
  OBVIOUS
<1>1. TypeOK
  <2>1. 0 \in 0 .. MaxTries - 1
    BY LockAssumption
  <2> QED BY <2>1 DEF Init, TypeOK, NoFile, NothingRead, Unwritten, PC
<1>2. Pids /\ Sound
  BY DEF Init, Pids, Sound, FileTellsMaker, ReadIsFile, TargetIsAbandoned, Making,
         NoFile, NothingRead, Unwritten
<1> QED BY <1>1, <1>2 DEF IInv

\* The end of an attempt keeps the types.
LEMMA NextAttemptTypes ==
  ASSUME TypeOK, NEW p \in Process, NextAttempt(p)
  PROVE  /\ pc' \in [Process -> PC]
         /\ tries' \in [Process -> 0 .. MaxTries - 1]
         /\ \E x \in {"trying", "idle"} : pc' = [pc EXCEPT ![p] = x]
<1>1. MaxTries \in Nat \ {0} /\ tries[p] \in 0 .. MaxTries - 1
  BY LockAssumption DEF TypeOK
<1>2. CASE tries[p] + 1 < MaxTries
  <2>1. /\ pc' = [pc EXCEPT ![p] = "trying"]
        /\ tries' = [tries EXCEPT ![p] = tries[p] + 1]
    BY <1>1, <1>2 DEF NextAttempt
  <2>2. tries[p] + 1 \in 0 .. MaxTries - 1
    BY <1>1, <1>2
  <2> QED BY <2>1, <2>2 DEF TypeOK, PC
<1>3. CASE tries[p] + 1 = MaxTries
  <2>1. 0 \in 0 .. MaxTries - 1
    BY <1>1
  <2> QED BY <1>1, <1>3, <2>1 DEF NextAttempt, TypeOK, PC
<1> QED BY <1>2, <1>3 DEF NextAttempt

LEMMA UnlinkTypes ==
  ASSUME TypeOK, NEW p \in Process, Unlink(p)
  PROVE  /\ file' \in [maker : Process \cup {NoOne}, pid : Nat]
         /\ read' \in [Process -> [pid : Nat, there : BOOLEAN]]
<1>1. file' \in [maker : Process \cup {NoOne}, pid : Nat]
  BY DEF Unlink, NoFile, Unwritten
<1>2. ASSUME NEW q \in Process
      PROVE  (IF q = p THEN NothingRead ELSE [read[q] EXCEPT !.there = FALSE])
               \in [pid : Nat, there : BOOLEAN]
  BY DEF TypeOK, NothingRead, Unwritten
<1> QED BY <1>1, <1>2 DEF Unlink

\* A step into a state without the lock disturbs nothing while the file and
\* what others have read of it stay.
LEMMA SameFile ==
  ASSUME IInv, NEW p \in Process,
         NEW x \in {"down", "idle", "trying", "checking"},
         pc' = [pc EXCEPT ![p] = x], UNCHANGED <<file, raced>>,
         read' = read \/ read' = [read EXCEPT ![p] = NothingRead],
         pid' = pid \/ (x = "down" /\ pid' = [pid EXCEPT ![p] = Unwritten]),
         pc[p] # "down"
  PROVE  Pids' /\ (~raced => Sound)'
<1>1. \A q \in Process : pc'[q] = IF q = p THEN x ELSE pc[q]
  BY DEF IInv, TypeOK
<1>2. \A q \in Process : read'[q] = read[q] \/ (q = p /\ read'[q] = NothingRead)
  BY DEF IInv, TypeOK
<1>3. \A q \in Process : pid'[q] = pid[q] \/ (q = p /\ x = "down")
  BY DEF IInv, TypeOK
<1>4. Pids'
  BY <1>1, <1>2, <1>3 DEF IInv, Pids, NothingRead
<1>5. (~raced => Sound)'
  BY <1>1, <1>2, <1>3
     DEF IInv, Sound, FileTellsMaker, ReadIsFile, TargetIsAbandoned, Making, NothingRead
<1> QED BY <1>4, <1>5

\* Once the file at the path is gone no process makes or holds the lock, or
\* relies on what it has read.
LEMMA FileRemoved ==
  ASSUME IInv, NEW p \in Process, NEW x \in {"idle", "trying"}, pc[p] # "down",
         pc' = [pc EXCEPT ![p] = x], Unlink(p), UNCHANGED pid,
         ~raced' => ~raced /\ \A q \in Process \ {p} : ~Making(q)
  PROVE  Pids' /\ (~raced => Sound)'
<1>1. \A q \in Process : pc'[q] = IF q = p THEN x ELSE pc[q]
  BY DEF IInv, TypeOK
<1>2. /\ file' = NoFile
      /\ \A q \in Process :
           /\ ~read'[q].there
           /\ read'[q].pid = IF q = p THEN Unwritten ELSE read[q].pid
  BY DEF Unlink, NothingRead, IInv, TypeOK
<1>3. Pids'
  BY <1>1, <1>2 DEF IInv, Pids, NoFile, Unwritten
<1>4. (~raced => Sound)'
  BY <1>1, <1>2 DEF Sound, FileTellsMaker, ReadIsFile, TargetIsAbandoned, Making
<1> QED BY <1>3, <1>4

LEMMA ProcessStepIInv ==
  ASSUME IInv, NEW p \in Process, ProcessStep(p)
  PROVE  IInv'
<1> USE DEF IInv
<1>1. CASE Start(p)
  <2>1. pid' = [pid EXCEPT ![p] = IF InContainers THEN 1 ELSE lastPid + 1]
    BY <1>1 DEF Start
  <2>2. pid' \in [Process -> Nat] /\ lastPid' \in Nat
    BY <1>1, <2>1 DEF Start, TypeOK
  <2>3. TypeOK'
    BY <1>1, <2>2 DEF Start, TypeOK, PC
  <2>4. Pids'
    BY <1>1, <2>1 DEF Start, TypeOK, Pids
  <2>5. (~raced => Sound)'
    BY <1>1, <2>1 DEF Start, TypeOK, Sound, FileTellsMaker, ReadIsFile,
                      TargetIsAbandoned, Making
  <2> QED BY <2>3, <2>4, <2>5
<1>2. CASE Enter(p)
  <2>1. TypeOK'
    BY <1>2 DEF Enter, TypeOK, PC
  <2> QED BY <1>2, <2>1, SameFile DEF Enter
<1>3. CASE Create(p)
  <2>1. TypeOK'
    <3>1. 0 \in 0 .. MaxTries - 1
      BY LockAssumption
    <3> QED BY <1>3, <3>1 DEF Create, TypeOK, PC, Unwritten
  <2>2. Pids'
    BY <1>3 DEF Create, TypeOK, Pids, Unwritten
  <2>3. ASSUME ~raced, NEW q \in Process
        PROVE  ~Making(q) /\ ~read[q].there
    BY <1>3, <2>3, LockAssumption
       DEF Create, NoFile, Sound, FileTellsMaker, ReadIsFile
  <2>4. (~raced => Sound)'
    BY <1>3, <2>3 DEF Create, TypeOK, Sound, FileTellsMaker, ReadIsFile,
                      TargetIsAbandoned, Making
  <2> QED BY <2>1, <2>2, <2>4
<1>4. CASE FindsFile(p)
  <2>1. TypeOK'
    BY <1>4 DEF FindsFile, TypeOK, PC
  <2> QED BY <1>4, <2>1, SameFile DEF FindsFile
<1>5. CASE ReadsPid(p)
  <2>1. TypeOK'
    <3>1. [pid |-> file.pid, there |-> TRUE] \in [pid : Nat, there : BOOLEAN]
      BY DEF TypeOK
    <3> QED BY <1>5, <3>1 DEF ReadsPid, TypeOK, PC
  <2>2. \A q \in Process : /\ pc'[q] = IF q = p THEN "testing" ELSE pc[q]
                           /\ q # p => read'[q] = read[q]
    BY <1>5 DEF ReadsPid, TypeOK
  <2>3. read'[p] = [pid |-> file.pid, there |-> TRUE] /\ file.pid # Unwritten
    BY <1>5 DEF ReadsPid, TypeOK
  <2>4. Pids'
    BY <1>5, <2>2, <2>3 DEF ReadsPid, Pids
  <2>5. (~raced => Sound)'
    BY <1>5, <2>2, <2>3 DEF ReadsPid, Sound, FileTellsMaker, ReadIsFile,
                            TargetIsAbandoned, Making
  <2> QED BY <2>1, <2>4, <2>5
<1>6. CASE LeavesFile(p)
  <2>1. TypeOK'
    BY <1>6, NextAttemptTypes DEF LeavesFile, TypeOK, NothingRead, Unwritten
  <2> QED BY <1>6, <2>1, NextAttemptTypes, SameFile DEF LeavesFile
<1>7. CASE FindsStale(p)
  <2>1. TypeOK'
    BY <1>7 DEF FindsStale, TypeOK, PC
  <2>2. \A q \in Process : pc'[q] = IF q = p THEN "reclaiming" ELSE pc[q]
    BY <1>7 DEF FindsStale, TypeOK
  <2>3. Pids'
    BY <1>7, <2>2 DEF FindsStale, Pids
  <2>4. ASSUME ~raced, read[p].there, NEW q \in Process, Making(q)
        PROVE  file.maker # q
    <3>1. file.pid = read[p].pid /\ file.pid # Unwritten
      BY <2>4 DEF Sound, ReadIsFile
    <3>2. pc[q] = "holding" /\ file.pid = pid[q]
      BY <2>4, <3>1 DEF Sound, FileTellsMaker, Making
    <3>3. Alive(p, read[p].pid)
      BY <1>7, <3>1, <3>2 DEF FindsStale, Alive, Visible, Pids
    <3> QED BY <1>7, <3>3 DEF FindsStale
  <2>5. (~raced => Sound)'
    BY <1>7, <2>2, <2>4 DEF FindsStale, Sound, FileTellsMaker, ReadIsFile,
                            TargetIsAbandoned, Making
  <2> QED BY <2>1, <2>3, <2>5
<1>8. CASE Reclaim(p)
  <2>1. raced' \in BOOLEAN /\ (~raced' => ~raced /\ (file = NoFile \/ read[p].there))
    BY <1>8, Zenon DEF Reclaim
  <2>2. TypeOK'
    BY <1>8, <2>1, NextAttemptTypes, UnlinkTypes DEF Reclaim, TypeOK
  <2>3. ~raced' => ~raced /\ \A q \in Process : ~Making(q)
    BY <1>8, <2>1, LockAssumption
       DEF Reclaim, NoFile, Sound, FileTellsMaker, TargetIsAbandoned
  <2> QED BY <1>8, <2>2, <2>3, NextAttemptTypes, FileRemoved DEF Reclaim
<1>9. CASE Write(p)
  <2>1. file' = [maker |-> file.maker,
                 pid   |-> IF file.maker = p THEN pid[p] ELSE file.pid]
    BY <1>9 DEF Write
  <2>2. file' \in [maker : Process \cup {NoOne}, pid : Nat]
    BY <2>1 DEF TypeOK
  <2>3. TypeOK'
    BY <1>9, <2>2 DEF Write, TypeOK, PC
  <2>4. Pids'
    BY <1>9, <2>1, LockAssumption DEF Write, TypeOK, Pids
  <2>5. ASSUME ~raced
        PROVE  /\ file' = [maker |-> p, pid |-> pid[p]]
               /\ \A q \in Process : ~read[q].there
               /\ \A q \in Process : Making(q) => q = p
    BY <1>9, <2>1, <2>5 DEF Write, Sound, FileTellsMaker, ReadIsFile, Making
  <2>6. (~raced => Sound)'
    BY <1>9, <2>5 DEF Write, TypeOK, Sound, FileTellsMaker, ReadIsFile,
                      TargetIsAbandoned, Making
  <2> QED BY <2>3, <2>4, <2>6
<1>10. CASE WriteFails(p)
  <2>1. TypeOK'
    BY <1>10 DEF WriteFails, Fault, TypeOK, PC
  <2> QED BY <1>10, <2>1, SameFile DEF WriteFails
<1>11. CASE Release(p)
  <2>1. TypeOK'
    BY <1>11, UnlinkTypes DEF Release, TypeOK, PC
  <2>2. ~raced' => ~raced /\ \A q \in Process \ {p} : ~Making(q)
    BY <1>11 DEF Release, Sound, FileTellsMaker, Making
  <2> QED BY <1>11, <2>1, <2>2, FileRemoved DEF Release
<1>12. CASE Crash(p)
  <2>1. TypeOK'
    <3>1. 0 \in 0 .. MaxTries - 1
      BY LockAssumption
    <3> QED BY <1>12, <3>1 DEF Crash, Fault, TypeOK, NothingRead, Unwritten, PC
  <2> QED BY <1>12, <2>1, SameFile DEF Crash
<1> QED BY <1>1, <1>2, <1>3, <1>4, <1>5, <1>6, <1>7, <1>8, <1>9, <1>10, <1>11, <1>12
        DEF ProcessStep

LEMMA NextIInv == IInv /\ [Next]_vars => IInv'
<1> SUFFICES ASSUME IInv, [Next]_vars PROVE IInv'
  OBVIOUS
<1>1. CASE Next
  BY <1>1, ProcessStepIInv DEF Next
<1>2. CASE UNCHANGED vars
  BY <1>2 DEF vars, IInv, TypeOK, Pids, Sound, FileTellsMaker, ReadIsFile,
                  TargetIsAbandoned, Making
<1> QED BY <1>1, <1>2

THEOREM Inductive == Spec => []IInv
BY InitIInv, NextIInv, PTL DEF Spec

\* Every variable keeps its type, and no acquire makes more than MaxTries
\* attempts.
THEOREM TypeCorrect == Spec => []TypeOK
<1>1. IInv => TypeOK
  BY DEF IInv
<1> QED BY <1>1, Inductive, PTL

\* The lock excludes until a process has unlinked another file than the one it
\* had read and found stale.
THEOREM ExcludesUnlessRaced == Spec => []ExclusiveUnlessRaced
<1>1. IInv => ExclusiveUnlessRaced
  BY DEF IInv, Sound, FileTellsMaker, Making, Exclusive, ExclusiveUnlessRaced
<1> QED BY <1>1, Inductive, PTL

-----------------------------------------------------------------------------
(* The lock as ExclusiveUse: in use from the creation of the file to its    *)
(* removal, or to the end of its maker.                                     *)

inUse == [l \in {"lock"} |-> {p \in Process : Making(p)}]

Use == INSTANCE ExclusiveUse WITH
  Resources <- {"lock"}, Users <- Process, using <- inUse

LEMMA InitUse == Init => Use!Init
BY DEF Init, Use!Init, inUse, Making

\* Who goes from one state to another enters, leaves, or does neither.
LEMMA MoveUses ==
  ASSUME IInv, ~raced, NEW p \in Process, NEW x \in PC, pc' = [pc EXCEPT ![p] = x],
         x \in {"writing", "holding"} => Making(p) \/ \A q \in Process : ~Making(q)
  PROVE  [Use!Next]_inUse
<1>1. \A q \in Process : pc'[q] = IF q = p THEN x ELSE pc[q]
  BY DEF IInv, TypeOK
<1>2. Making(p) => inUse["lock"] = {p}
  BY DEF IInv, Sound, FileTellsMaker, inUse, Making
<1>3. CASE Making(p) <=> x \in {"writing", "holding"}
  <2>1. \A q \in Process : Making(q)' <=> Making(q)
    BY <1>1, <1>3 DEF Making
  <2> QED BY <2>1 DEF inUse
<1>4. CASE ~Making(p) /\ x \in {"writing", "holding"}
  <2>1. inUse["lock"] = {} /\ inUse'["lock"] = {p}
    BY <1>1, <1>4 DEF inUse, Making
  <2>2. inUse' = [inUse EXCEPT !["lock"] = {p}]
    BY <2>1 DEF inUse
  <2> QED BY <2>1, <2>2 DEF Use!Next, Use!Acquire
<1>5. CASE Making(p) /\ x \notin {"writing", "holding"}
  <2>1. inUse'["lock"] = {}
    BY <1>1, <1>2, <1>5 DEF inUse, Making
  <2>2. inUse' = [inUse EXCEPT !["lock"] = {}]
    BY <2>1 DEF inUse
  <2> QED BY <1>2, <1>5, <2>2 DEF Use!Next, Use!Release
<1> QED BY <1>3, <1>4, <1>5

LEMMA NextUses ==
  ASSUME IInv, ~raced, [Next]_vars
  PROVE  [Use!Next]_inUse
<1>1. CASE UNCHANGED vars
  BY <1>1 DEF vars, inUse, Making
<1>2. ASSUME NEW p \in Process, ProcessStep(p) PROVE [Use!Next]_inUse
  <2>1. CASE Create(p)
    <3>1. \A q \in Process : ~Making(q)
      BY <2>1, LockAssumption DEF Create, NoFile, IInv, Sound, FileTellsMaker
    <3>2. pc' = [pc EXCEPT ![p] = "writing"] /\ "writing" \in PC
      BY <2>1 DEF Create, PC
    <3> QED BY <3>1, <3>2, MoveUses
  <2>2. CASE Write(p)
    <3>1. /\ Making(p)
          /\ pc' = [pc EXCEPT ![p] = "holding"] /\ "holding" \in PC
      BY <2>2 DEF Write, Making, PC
    <3> QED BY <3>1, MoveUses
  <2>3. CASE ~Create(p) /\ ~Write(p)
    <3>1. PICK x \in PC \ {"writing", "holding"} : pc' = [pc EXCEPT ![p] = x]
      <4>1. LeavesFile(p) \/ Reclaim(p) =>
              \E x \in {"trying", "idle"} : pc' = [pc EXCEPT ![p] = x]
        BY NextAttemptTypes DEF LeavesFile, Reclaim, IInv
      <4> QED BY <1>2, <2>3, <4>1 DEF ProcessStep, Start, Enter, FindsFile,
                                      ReadsPid, FindsStale, WriteFails, Release, Crash, PC
    <3> QED BY <3>1, MoveUses
  <2> QED BY <2>1, <2>2, <2>3
<1> QED BY <1>1, <1>2 DEF Next

\* The lock is an ExclusiveUse until a process has unlinked a file it had not
\* read: who acquires it finds it free, and who releases it had it alone.
THEOREM UsedExclusivelyUnlessRaced ==
  Spec => Use!Init /\ [][~raced => [Use!Next]_inUse]_vars
<1>1. IInv /\ [Next]_vars => [~raced => [Use!Next]_inUse]_vars
  BY NextUses
<1> QED BY <1>1, InitUse, Inductive, PTL DEF Spec

-----------------------------------------------------------------------------
(* In containers every process has PID 1, and takes PID 1 for itself.      *)

Unreclaimed == ~raced /\ \A p \in Process : pc[p] # "reclaiming"

\* A process that tests the PID it has read finds itself.
LEMMA NothingIsStale ==
  ASSUME InContainers, IInv, NEW p \in Process, pc[p] = "testing"
  PROVE  Alive(p, read[p].pid)
<1>1. read[p].pid = 1 /\ pid[p] = 1
  BY DEF IInv, Pids
<1> QED BY <1>1 DEF Alive, Visible

LEMMA NextUnreclaimed ==
  ASSUME InContainers, IInv, Unreclaimed, [Next]_vars
  PROVE  Unreclaimed'
<1>1. pc \in [Process -> PC]
  BY DEF IInv, TypeOK
<1>2. CASE UNCHANGED vars
  BY <1>2 DEF vars, Unreclaimed
<1>3. ASSUME NEW p \in Process, ProcessStep(p) PROVE Unreclaimed'
  <2>1. ~FindsStale(p) /\ ~Reclaim(p)
    BY NothingIsStale DEF FindsStale, Reclaim, Unreclaimed
  <2>2. raced' = raced
    BY <1>3, <2>1 DEF ProcessStep, Start, Enter, Create, FindsFile, ReadsPid,
                      LeavesFile, Write, WriteFails, Release, Crash
  <2>3. PICK x \in PC \ {"reclaiming"} : pc' = [pc EXCEPT ![p] = x]
    <3>1. LeavesFile(p) => \E x \in {"trying", "idle"} : pc' = [pc EXCEPT ![p] = x]
      BY NextAttemptTypes DEF LeavesFile, IInv
    <3> QED BY <1>3, <2>1, <3>1 DEF ProcessStep, Start, Enter, Create, FindsFile,
                                    ReadsPid, Write, WriteFails, Release, Crash, PC
  <2> QED BY <1>1, <2>2, <2>3 DEF Unreclaimed
<1> QED BY <1>2, <1>3 DEF Next

\* So no process finds a stale file there: between the processes of
\* several containers the lock excludes, whatever crashes and fails.
THEOREM ContainersExclude == Spec /\ []InContainers => []Exclusive
<1>1. Init => Unreclaimed
  BY DEF Init, Unreclaimed
<1>2. InContainers /\ IInv /\ Unreclaimed /\ [Next]_vars => Unreclaimed'
  BY NextUnreclaimed
<1>3. IInv /\ Unreclaimed => Exclusive
  BY DEF IInv, Unreclaimed, Sound, FileTellsMaker, Making, Exclusive
<1> QED BY <1>1, <1>2, <1>3, Inductive, PTL DEF Spec

\* ... and is an ExclusiveUse from beginning to end.
THEOREM ContainersUseExclusively == Spec /\ []InContainers => Use!Spec
<1>1. Init => Unreclaimed
  BY DEF Init, Unreclaimed
<1>2. InContainers /\ IInv /\ Unreclaimed /\ [Next]_vars => Unreclaimed'
  BY NextUnreclaimed
<1>3. IInv /\ Unreclaimed /\ [Next]_vars => [Use!Next]_inUse
  BY NextUses DEF Unreclaimed
<1> QED BY <1>1, <1>2, <1>3, InitUse, Inductive, PTL DEF Spec, Use!Spec

\* The price: what a process that crashed or failed leaves at the path stays
\* there for good, and no process acquires the lock again.
THEOREM ContainersNeverReclaim ==
  Spec /\ []InContainers =>
    [][\A p \in Process : Abandoned(p) =>
         Abandoned(p)' /\ \A q \in Process : pc'[q] # "holding"]_vars
<1> DEFINE Stays == \A p \in Process : Abandoned(p) =>
                      Abandoned(p)' /\ \A q \in Process : pc'[q] # "holding"
<1>1. Init => Unreclaimed
  BY DEF Init, Unreclaimed
<1>2. InContainers /\ IInv /\ Unreclaimed /\ [Next]_vars => Unreclaimed'
  BY NextUnreclaimed
<1>3. IInv /\ Unreclaimed /\ [Next]_vars => [Stays]_vars
  <2> SUFFICES ASSUME IInv, Unreclaimed, Next, NEW p \in Process, Abandoned(p)
               PROVE  Abandoned(p)' /\ \A q \in Process : pc'[q] # "holding"
    OBVIOUS
  <2>1. pc \in [Process -> PC] /\ p # NoOne /\ file.maker = p
    BY LockAssumption DEF IInv, TypeOK, Abandoned
  <2>2. \A q \in Process : ~Making(q) /\ pc[q] # "reclaiming"
    BY <2>1 DEF IInv, Unreclaimed, Sound, FileTellsMaker, Making, Abandoned
  <2>3. PICK q \in Process : ProcessStep(q)
    BY DEF Next
  <2>4. ~Create(q) /\ ~Reclaim(q) /\ ~Write(q) /\ ~WriteFails(q) /\ ~Release(q)
    BY <2>1, <2>2 DEF Create, NoFile, Reclaim, Write, WriteFails, Release, Making
  <2>5. file' = file
    BY <2>3, <2>4 DEF ProcessStep, Start, Enter, FindsFile, ReadsPid, LeavesFile,
                      FindsStale, Crash
  <2>6. PICK x \in PC \ {"writing", "holding"} : pc' = [pc EXCEPT ![q] = x]
    <3>1. LeavesFile(q) => \E x \in {"trying", "idle"} : pc' = [pc EXCEPT ![q] = x]
      BY NextAttemptTypes DEF LeavesFile, IInv
    <3> QED BY <2>3, <2>4, <3>1 DEF ProcessStep, Start, Enter, FindsFile,
                                    ReadsPid, FindsStale, Crash, PC
  <2>7. \A r \in Process : pc'[r] \notin {"writing", "holding"}
    BY <2>1, <2>2, <2>6 DEF Making
  <2> QED BY <2>1, <2>5, <2>7 DEF Abandoned
<1> HIDE DEF Stays
<1>4. [][Stays]_vars <=> [][\A p \in Process : Abandoned(p) =>
         Abandoned(p)' /\ \A q \in Process : pc'[q] # "holding"]_vars
  BY PTL DEF Stays
<1> QED BY <1>1, <1>2, <1>3, <1>4, Inductive, PTL DEF Spec
=============================================================================
