----------------------- MODULE ChapterTranslationProofs -----------------------
(***************************************************************************)
(* Theorems about ChapterTranslation, for any number of processes, runs,   *)
(* source revisions and faults.                                            *)
(***************************************************************************)
EXTENDS ChapterTranslation, TLAPS

\* Tighter types than TypeOK's: what exists is of a revision.
States == {"pending", "fetching", "translating", "complete", "failed"}
StoredVersion == {NoVersion} \cup [of : Revisions, lineage : BOOLEAN]
Checkpoint == {NoCheckpoint} \cup [raw : Revisions, active : StoredVersion, st : StateType]
Running == {Idle} \cup
  [pc : Before \cup Entering \cup Trying \cup Failing, force : BOOLEAN, delta : BOOLEAN,
   raw : Revisions, erred : BOOLEAN, had : SUBSET Revisions, back : Checkpoint]

ChapterTypes ==
  /\ raw \in Revisions
  /\ active \in StoredVersion
  /\ versions \subseteq Revisions
  /\ db \in States
  /\ st \in StateType
  /\ saved \in [Names -> Checkpoint]
  /\ chunks \in 0..MaxRaw

ControlTypes ==
  /\ lock \in [Processes -> Runs \cup {Nobody}]
  /\ run \in [Runs -> Running]
  /\ late \in [Runs -> Running]

Counters == starts \in 0..MaxRuns /\ faults \in 0..MaxFaults /\ torn \in BOOLEAN

Types == ChapterTypes /\ ControlTypes /\ Counters

LEMMA Bounds == MaxRaw \in Nat /\ MaxRaw > 0 /\ MaxRuns \in Nat /\ MaxFaults \in Nat
BY TranslationAssumption

LEMMA ConstantTypes ==
  /\ 1 \in Revisions
  /\ Revisions \subseteq 0..MaxRaw
  /\ 0 \in 0..MaxRaw
  /\ NoVersion \in VersionType
  /\ State("none", FALSE) \in StateType
<1>1. 1 \in Revisions /\ Revisions \subseteq 0..MaxRaw /\ 0 \in 0..MaxRaw
  BY Bounds DEF Revisions
<1>2. NoVersion \in VersionType
  BY <1>1 DEF NoVersion, VersionType
<1>3. State("none", FALSE) \in StateType
  BY DEF State, StateType
<1> QED BY <1>1, <1>2, <1>3

\* The tighter types are parts of those TypeOK names.
LEMMA Subtypes ==
  /\ StoredVersion \subseteq VersionType
  /\ Checkpoint \subseteq CheckpointType
  /\ Running \subseteq RunType
<1>1. StoredVersion \subseteq VersionType
  BY ConstantTypes DEF StoredVersion, VersionType
<1>2. NoCheckpoint \in CheckpointType
  BY ConstantTypes DEF NoCheckpoint, CheckpointType
<1>3. Checkpoint \subseteq CheckpointType
  BY <1>1, <1>2, ConstantTypes DEF Checkpoint, CheckpointType
<1>4. Idle \in RunType
  BY <1>2, ConstantTypes DEF Idle, RunType
<1>5. Running \subseteq RunType
  BY <1>3, <1>4, ConstantTypes DEF Running, RunType
<1> QED BY <1>1, <1>3, <1>5

LEMMA TypesImplyTypeOK == Types => TypeOK
<1> SUFFICES ASSUME Types PROVE TypeOK
  OBVIOUS
<1>1. /\ raw \in Revisions /\ active \in VersionType /\ versions \subseteq Revisions
      /\ db \in States /\ st \in StateType /\ chunks \in 0..MaxRaw
  BY Subtypes DEF Types, ChapterTypes
<1>2. saved \in [Names -> CheckpointType]
  BY Subtypes DEF Types, ChapterTypes
<1>3. /\ lock \in [Processes -> Runs \cup {Nobody}]
      /\ run \in [Runs -> RunType] /\ late \in [Runs -> RunType]
  BY Subtypes DEF Types, ControlTypes
<1> QED BY <1>1, <1>2, <1>3 DEF Types, Counters, TypeOK, States

LEMMA InitTypes == Init => Types
<1> SUFFICES ASSUME Init PROVE Types
  OBVIOUS
<1>1. ControlTypes
  BY DEF Init, ControlTypes, Running
<1>2. Counters
  <2>1. 0 \in 0..MaxRuns /\ 0 \in 0..MaxFaults
    BY Bounds
  <2> QED BY <2>1 DEF Init, Counters
<1>3. ChapterTypes
  <2>1. NoVersion \in StoredVersion /\ NoCheckpoint \in Checkpoint
    BY DEF StoredVersion, Checkpoint
  <2>2. CASE Untouched
    BY <2>1, <2>2, ConstantTypes DEF Init, Untouched, ChapterTypes, States
  <2>3. CASE Translated
    <3>1. active \in StoredVersion /\ st \in StateType
      BY <2>3, ConstantTypes DEF Translated, StoredVersion, Version, State, StateType
    <3>2. /\ [raw |-> 1, active |-> NoVersion, st |-> State("none", FALSE)] \in Checkpoint
          /\ [raw |-> 1, active |-> active, st |-> st] \in Checkpoint
      BY <2>1, <3>1, ConstantTypes DEF Checkpoint
    <3>3. saved \in [Names -> Checkpoint]
      BY <2>1, <2>3, <3>2 DEF Translated, Names
    <3> QED BY <2>3, <3>1, <3>3, ConstantTypes DEF Init, Translated, ChapterTypes, States
  <2> QED BY <2>2, <2>3 DEF Init
<1> QED BY <1>1, <1>2, <1>3 DEF Types

LEMMA LatestType ==
  ASSUME ChapterTypes
  PROVE  Latest \in Checkpoint
BY DEF ChapterTypes, Latest, Names

LEMMA SnapshotTypes ==
  ASSUME ChapterTypes, NEW name \in Names, Snapshot(name)
  PROVE  saved' \in [Names -> Checkpoint]
<1>1. [raw |-> raw, active |-> active, st |-> st] \in Checkpoint
  BY DEF ChapterTypes, Checkpoint
<1> QED BY <1>1 DEF Snapshot, ChapterTypes

LEMMA RestoreSourceTypes ==
  ASSUME ChapterTypes, Restores, RestoreSource
  PROVE  ChapterTypes'
<1>1. Latest \in [raw : Revisions, active : StoredVersion, st : StateType]
  BY LatestType DEF Checkpoint, Restores
<1>2. raw' \in Revisions
  BY <1>1 DEF RestoreSource
<1> QED BY <1>2 DEF RestoreSource, ChapterTypes

LEMMA RestoreTranslationTypes ==
  ASSUME ChapterTypes, NEW x, x.back \in Checkpoint, x.had \subseteq Revisions,
         RestoreTranslation(x)
  PROVE  ChapterTypes'
<1>1. x.back.active \in StoredVersion /\ x.back.st \in StateType
  <2>1. NoVersion \in StoredVersion
    BY DEF StoredVersion
  <2>2. CASE x.back = NoCheckpoint
    <3>1. NoCheckpoint.active = NoVersion /\ NoCheckpoint.st = State("none", FALSE)
      BY DEF NoCheckpoint
    <3> QED BY <2>1, <2>2, <3>1, ConstantTypes
  <2>3. CASE x.back \in [raw : Revisions, active : StoredVersion, st : StateType]
    BY <2>3
  <2> QED BY <2>2, <2>3 DEF Checkpoint
<1>2. st' \in StateType
  BY <1>1 DEF RestoreTranslation, ChapterTypes
<1>3. active' \in StoredVersion /\ versions' \subseteq Revisions
  <2>1. CASE x.back.active = NoVersion
    BY <2>1 DEF RestoreTranslation, ChapterTypes
  <2>2. CASE x.back.active # NoVersion
    <3>1. x.back.active.of \in Revisions
      BY <1>1, <2>2 DEF StoredVersion
    <3>2. /\ active' = Version(x.back.active.of, FALSE)
          /\ versions' = AppendVersion(x.had, x.back.active.of)
      BY <2>2 DEF RestoreTranslation
    <3> QED BY <3>1, <3>2 DEF Version, AppendVersion, StoredVersion
  <2> QED BY <2>1, <2>2
<1> QED BY <1>2, <1>3 DEF RestoreTranslation, ChapterTypes

\* Whatever a run's call does keeps the types of the chapter.
LEMMA PerformTypes ==
  ASSUME ChapterTypes, NEW x \in Running, x # Idle, Perform(x)
  PROVE  ChapterTypes'
<1>1. /\ x.pc \in Before \cup Entering \cup Trying \cup Failing
      /\ x.raw \in Revisions /\ x.erred \in BOOLEAN /\ x.raw \in 0..MaxRaw
      /\ x.had \subseteq Revisions /\ x.back \in Checkpoint
  BY ConstantTypes DEF Running
<1>2. CASE \E state \in States : SetDb(state)
  BY <1>2 DEF SetDb, ChapterTypes
<1>3. CASE \E state \in {"translated", "failed"}, erred \in BOOLEAN : SetState(state, erred)
  BY <1>3 DEF SetState, State, StateType, ChapterTypes
<1>4. CASE UNCHANGED chapter
  BY <1>4 DEF chapter, ChapterTypes
<1>5. CASE x.pc = "putback"
  <2>1. RestoreTranslation(x)
    BY <1>5 DEF Perform
  <2> QED BY <1>1, <2>1, RestoreTranslationTypes
<1>6. CASE x.pc = "mark"
  <2>1. Snapshot("before_translate") /\ st' = State("translating", st.erred)
        /\ UNCHANGED <<raw, active, versions, db, chunks>>
    BY <1>6 DEF Perform
  <2>2. saved' \in [Names -> Checkpoint]
    BY <2>1, SnapshotTypes DEF Names
  <2>3. st' \in StateType
    BY <2>1 DEF State, StateType, ChapterTypes
  <2> QED BY <2>1, <2>2, <2>3 DEF ChapterTypes
<1>7. CASE x.pc \in {"window", "chunks"}
  <2>1. /\ chunks' \in {x.raw} \cup ({chunks} \ {0})
        /\ UNCHANGED <<raw, active, versions, db, st, saved>>
    BY <1>7 DEF Perform
  <2>2. chunks' \in 0..MaxRaw
    BY <1>1, <2>1 DEF ChapterTypes
  <2>3. UNCHANGED <<raw, active, versions, db, st, saved>>
    BY <2>1
  <2> QED BY <2>2, <2>3 DEF ChapterTypes
<1>8. CASE x.pc = "store"
  <2>1. /\ active' \in {active, Version(x.raw, TRUE)} /\ versions' = AppendVersion(x.had, x.raw)
        /\ UNCHANGED <<raw, db, st, saved, chunks>>
    BY <1>8 DEF Perform
  <2>2. active' \in StoredVersion
    <3>1. Version(x.raw, TRUE) \in StoredVersion
      BY <1>1 DEF Version, StoredVersion
    <3> QED BY <2>1, <3>1 DEF ChapterTypes
  <2>3. versions' \subseteq Revisions
    BY <1>1, <2>1 DEF AppendVersion, ChapterTypes
  <2> QED BY <2>1, <2>2, <2>3 DEF ChapterTypes
<1>9. CASE x.pc \in {"snapshot", "failed_snapshot"}
  <2>1. PICK name \in Names : Snapshot(name)
    BY <1>9 DEF Perform, Names
  <2>2. UNCHANGED <<raw, active, versions, db, st, chunks>>
    BY <1>9 DEF Perform
  <2> QED BY <2>1, <2>2, SnapshotTypes DEF ChapterTypes
<1>10. CASE x.pc = "gate"
  <2>1. Resumed(x) \in States
    BY DEF Resumed, States, ChapterTypes
  <2> QED BY <1>2, <1>10, <2>1 DEF Perform
<1>11. CASE x.pc \in {"fetching", "reuse", "translating", "complete", "failed"}
  BY <1>2, <1>11 DEF Perform, ReusedState, States
<1>12. CASE x.pc \in {"state", "failed_state"}
  BY <1>1, <1>3, <1>12 DEF Perform
<1>13. CASE x.pc = "restore"
  <2>1. IF Restores THEN RestoreSource ELSE UNCHANGED chapter
    BY <1>13 DEF Perform
  <2> QED BY <1>4, <2>1, RestoreSourceTypes
<1>14. CASE x.pc \in {"lock", "delta", "pipeline", "save"}
  BY <1>4, <1>14 DEF Perform
<1> QED BY <1>1, <1>5, <1>6, <1>7, <1>8, <1>9, <1>10, <1>11, <1>12, <1>13, <1>14
        DEF Before, Entering, Trying, Failing

\* Where a run goes on is a place of the program.
LEMMA FollowingPlaces ==
  ASSUME NEW x \in Running, x # Idle, NEW pc \in Following(x)
  PROVE  pc \in {"idle"} \cup Before \cup Entering \cup Trying \cup Failing
<1>1. AfterDelta(x) \subseteq {"reuse", "translating", "window"}
  BY DEF AfterDelta
<1>2. x.pc \in Before \cup Entering \cup Trying \cup Failing
  BY DEF Running
<1> QED BY <1>1, <1>2 DEF Following, Before, Entering, Trying, Failing

\* A call at pc, with what it has read.
LEMMA AtStep ==
  ASSUME ChapterTypes, NEW x \in Running, x # Idle,
         NEW pc \in {"idle"} \cup Before \cup Entering \cup Trying \cup Failing
  PROVE  /\ At(x, pc) \in Running
         /\ At(x, pc).pc = pc
         /\ pc # "idle" => At(x, pc).raw = x.raw
         /\ pc \in {"store", "putback"} => At(x, pc).had = versions
<1>1. CASE pc = "idle"
  BY <1>1 DEF At, Running, Idle
<1>2. CASE pc # "idle"
  <2>1. x \in [pc : Before \cup Entering \cup Trying \cup Failing,
                force : BOOLEAN, delta : BOOLEAN, raw : Revisions, erred : BOOLEAN,
                had : SUBSET Revisions, back : Checkpoint]
    BY DEF Running
  <2>2. st.erred \in BOOLEAN /\ versions \in SUBSET Revisions
    BY DEF ChapterTypes, StateType
  <2>3. Latest \in Checkpoint /\ NoCheckpoint \in Checkpoint
    BY LatestType DEF Checkpoint
  <2> DEFINE erred == IF x.pc = "mark" THEN st.erred ELSE x.erred
             had == IF pc \in {"store", "putback"} THEN versions ELSE {}
             back == IF pc = "putback" THEN Latest ELSE NoCheckpoint
  <2>4. erred \in BOOLEAN /\ had \in SUBSET Revisions /\ back \in Checkpoint
    BY <2>1, <2>2, <2>3
  <2>5. At(x, pc) = [x EXCEPT !.pc = pc, !.erred = erred, !.had = had, !.back = back]
    BY <1>2 DEF At
  <2> HIDE DEF erred, back
  <2>6. At(x, pc) \in [pc : Before \cup Entering \cup Trying \cup Failing,
                force : BOOLEAN, delta : BOOLEAN, raw : Revisions, erred : BOOLEAN,
                had : SUBSET Revisions, back : Checkpoint]
        /\ At(x, pc).pc = pc /\ At(x, pc).raw = x.raw /\ At(x, pc).had = had
    BY <1>2, <2>1, <2>4, <2>5
  <2> QED BY <1>2, <2>6 DEF Running
<1> QED BY <1>1, <1>2

\* A step of a run to pc: its state and the lock of its process afterwards.
LEMMA GoToStep ==
  ASSUME ChapterTypes, ControlTypes, NEW r \in Runs, run[r] # Idle,
         NEW pc \in {"idle"} \cup Before \cup Entering \cup Trying \cup Failing,
         GoTo(r, pc)
  PROVE  /\ run' \in [Runs -> Running]
         /\ lock' \in [Processes -> Runs \cup {Nobody}]
         /\ run'[r].pc = pc
         /\ pc # "idle" => run'[r].raw = run[r].raw
         /\ pc \in {"store", "putback"} => run'[r].had = versions
         /\ \A q \in Runs \ {r} : run'[q] = run[q]
<1>1. run' = [run EXCEPT ![r] = At(run[r], pc)]
  BY DEF GoTo
<1>2. /\ At(run[r], pc) \in Running
      /\ At(run[r], pc).pc = pc
      /\ pc # "idle" => At(run[r], pc).raw = run[r].raw
      /\ pc \in {"store", "putback"} => At(run[r], pc).had = versions
  <2>1. run[r] \in Running
    BY DEF ControlTypes
  <2> QED BY <2>1, AtStep
<1>3. lock' \in [Processes -> Runs \cup {Nobody}]
  BY DEF GoTo, ControlTypes
<1>4. run'[r] = At(run[r], pc) /\ \A q \in Runs \ {r} : run'[q] = run[q]
  BY <1>1 DEF ControlTypes
<1>5. run' \in [Runs -> Running]
  BY <1>1, <1>2 DEF ControlTypes
<1> QED BY <1>2, <1>3, <1>4, <1>5

\* The call a cancelled run has left behind goes on to store what it has read,
\* or is over.
LEMMA LateStep ==
  ASSUME ChapterTypes, ControlTypes, NEW r \in Runs, LateCall(r)
  PROVE  /\ late' \in [Runs -> Running]
         /\ \A q \in Runs \ {r} : late'[q] = late[q]
         /\ late'[r] = Idle \/ late'[r].pc \in {"store", "putback"}
<1> DEFINE next == Following(late[r])
           here == IF next \subseteq {"store", "putback"}
                   THEN At(late[r], CHOOSE pc \in next : TRUE) ELSE Idle
<1>1. late[r] \in Running /\ late[r] # Idle /\ late' = [late EXCEPT ![r] = here]
  BY DEF LateCall, ControlTypes
<1>2. here \in Running /\ (here = Idle \/ here.pc \in {"store", "putback"})
  <2>1. CASE next \subseteq {"store", "putback"}
    <3>1. PICK pc \in {"store", "putback"} : here = At(late[r], pc)
      <4>1. next # {}
        BY DEF Following, AfterDelta
      <4>2. (CHOOSE pc \in next : TRUE) \in next
        BY <4>1
      <4> QED BY <2>1, <4>2
    <3>2. pc \in {"idle"} \cup Before \cup Entering \cup Trying \cup Failing
      BY DEF Entering, Trying
    <3>3. At(late[r], pc) \in Running /\ At(late[r], pc).pc = pc
      BY <1>1, <3>2, AtStep
    <3> QED BY <3>1, <3>3
  <2>2. CASE ~(next \subseteq {"store", "putback"})
    BY <2>2 DEF Running
  <2> QED BY <2>1, <2>2
<1> QED BY <1>1, <1>2 DEF ControlTypes

\* Every action keeps the types.
LEMMA NextTypes ==
  ASSUME Types, [Next]_vars
  PROVE  Types'
<1>1. CASE UNCHANGED vars
  BY <1>1 DEF vars, chapter, Types, ChapterTypes, ControlTypes, Counters
<1>2. ASSUME NEW r \in Runs, StartRun(r) PROVE Types'
  <2>1. starts' \in 0..MaxRuns
    BY <1>2, Bounds DEF StartRun, Types, Counters
  <2>2. PICK force, delta \in BOOLEAN :
       /\ run' = [run EXCEPT ![r] = [Idle EXCEPT !.pc = "gate", !.force = force,
                                                 !.delta = delta, !.raw = raw]]
       /\ db' = IF force THEN "pending" ELSE db
    BY <1>2 DEF StartRun
  <2>3. [Idle EXCEPT !.pc = "gate", !.force = force, !.delta = delta, !.raw = raw] \in Running
    <3>1. NoCheckpoint \in Checkpoint
      BY DEF Checkpoint
    <3> QED BY <3>1 DEF Idle, Running, Before, Types, ChapterTypes
  <2>4. db' \in States
    BY <2>2 DEF Types, ChapterTypes, States
  <2>5. run' \in [Runs -> Running]
    BY <2>2, <2>3 DEF Types, ControlTypes
  <2> QED BY <1>2, <2>1, <2>4, <2>5 DEF StartRun, Types, ChapterTypes, ControlTypes, Counters
<1>3. ASSUME NEW r \in Runs, AcquireLock(r) PROVE Types'
  <2>1. run[r] \in Running /\ run[r].pc = "lock"
    BY <1>3 DEF AcquireLock, Types, ControlTypes
  <2>2. [run[r] EXCEPT !.pc = "fetching"] \in Running
    BY <2>1 DEF Running, Idle, Entering
  <2>3. run' \in [Runs -> Running]
    BY <1>3, <2>2 DEF AcquireLock, Types, ControlTypes
  <2>4. lock' \in [Processes -> Runs \cup {Nobody}]
    BY <1>3 DEF AcquireLock, Types, ControlTypes
  <2> QED BY <1>3, <2>3, <2>4
          DEF AcquireLock, chapter, Types, ChapterTypes, ControlTypes, Counters
<1>4. ASSUME NEW r \in Runs, InProgress(r) PROVE Types'
  <2>1. run' \in [Runs -> Running]
    BY <1>4 DEF InProgress, Types, ControlTypes, Running
  <2> QED BY <1>4, <2>1 DEF InProgress, chapter, Types, ChapterTypes, ControlTypes, Counters
<1>5. ASSUME NEW r \in Runs, Call(r) PROVE Types'
  <2>1. run[r] \in Running /\ run[r] # Idle
    BY <1>5 DEF Call, Types, ControlTypes, Idle
  <2>2. ChapterTypes'
    BY <1>5, <2>1, PerformTypes DEF Call, Types
  <2>3. run' \in [Runs -> Running] /\ lock' \in [Processes -> Runs \cup {Nobody}]
    BY <1>5, <2>1, FollowingPlaces, GoToStep DEF Call, Types
  <2>4. torn' \in BOOLEAN
    BY <1>5 DEF Call, Types, Counters
  <2> QED BY <1>5, <2>2, <2>3, <2>4 DEF Call, Types, ControlTypes, Counters
<1>6. ASSUME Fault PROVE faults' \in 0..MaxFaults
  BY <1>6, Bounds DEF Fault, Types, Counters
<1>7. ASSUME NEW r \in Runs, DbWriteLost(r) PROVE Types'
  <2>1. run[r] \in Running /\ run[r] # Idle
    BY <1>7 DEF DbWriteLost, DbWrites, Types, ControlTypes, Idle
  <2>2. run' \in [Runs -> Running] /\ lock' \in [Processes -> Runs \cup {Nobody}]
    BY <1>7, <2>1, FollowingPlaces, GoToStep DEF DbWriteLost, Types
  <2>3. faults' \in 0..MaxFaults
    BY <1>6, <1>7 DEF DbWriteLost
  <2> QED BY <1>7, <2>2, <2>3
          DEF DbWriteLost, chapter, Types, ChapterTypes, ControlTypes, Counters
<1>8. ASSUME NEW r \in Runs, CallRaises(r) PROVE Types'
  <2>1. run[r] # Idle
    BY <1>8 DEF CallRaises, InSection, Entering, Trying, Failing, Idle
  <2>2. run' \in [Runs -> Running] /\ lock' \in [Processes -> Runs \cup {Nobody}]
    BY <1>8, <2>1, GoToStep DEF CallRaises, RaisedTo, Failing, Types
  <2>3. faults' \in 0..MaxFaults
    BY <1>6, <1>8 DEF CallRaises
  <2>4. torn' \in BOOLEAN
    BY <1>8 DEF CallRaises, Types, Counters
  <2> QED BY <1>8, <2>2, <2>3, <2>4
          DEF CallRaises, chapter, Types, ChapterTypes, ControlTypes, Counters
<1>9. ASSUME NEW r \in Runs, Cancel(r) PROVE Types'
  <2>1. run' \in [Runs -> Running] /\ lock' \in [Processes -> Runs \cup {Nobody}]
    BY <1>9, GoToStep DEF Cancel, Types
  <2>2. late' \in [Runs -> Running]
    BY <1>9 DEF Cancel, Types, ControlTypes, Running
  <2>3. faults' \in 0..MaxFaults
    BY <1>6, <1>9 DEF Cancel
  <2> QED BY <1>9, <2>1, <2>2, <2>3
          DEF Cancel, chapter, Types, ChapterTypes, ControlTypes, Counters
<1>10. ASSUME NEW r \in Runs, LateCall(r) PROVE Types'
  <2>1. ChapterTypes'
    BY <1>10, PerformTypes DEF LateCall, Types, ControlTypes
  <2>2. late' \in [Runs -> Running]
    BY <1>10, LateStep DEF Types
  <2> QED BY <1>10, <2>1, <2>2 DEF LateCall, Types, ControlTypes, Counters
<1>11. ASSUME NEW p \in Processes, Crash(p) PROVE Types'
  <2>1. run' \in [Runs -> Running] /\ late' \in [Runs -> Running]
    BY <1>11 DEF Crash, Types, ControlTypes, Running
  <2>2. lock' \in [Processes -> Runs \cup {Nobody}]
    BY <1>11 DEF Crash, Types, ControlTypes
  <2>3. faults' \in 0..MaxFaults
    BY <1>6, <1>11 DEF Crash
  <2> QED BY <1>11, <2>1, <2>2, <2>3
          DEF Crash, chapter, Types, ChapterTypes, ControlTypes, Counters
<1>12. CASE Crawl
  <2>1. raw' \in Revisions
    BY <1>12, Bounds DEF Crawl, Revisions, Types, ChapterTypes
  <2> QED BY <1>12, <2>1 DEF Crawl, Types, ChapterTypes, ControlTypes, Counters
<1>13. CASE RuntimeLost
  <2>1. st' \in StateType /\ saved' \in [Names -> Checkpoint] /\ chunks' \in 0..MaxRaw
    BY <1>13, ConstantTypes DEF RuntimeLost, Checkpoint
  <2>2. faults' \in 0..MaxFaults
    BY <1>6, <1>13 DEF RuntimeLost
  <2> QED BY <1>13, <2>1, <2>2 DEF RuntimeLost, Types, ChapterTypes, ControlTypes, Counters
<1> QED BY <1>1, <1>2, <1>3, <1>4, <1>5, <1>7, <1>8, <1>9, <1>10, <1>11, <1>12, <1>13 DEF Next

LEMMA AlwaysTypes == Spec => []Types
<1>1. Init => Types
  BY InitTypes
<1>2. Types /\ [Next]_vars => Types'
  BY NextTypes
<1> QED BY <1>1, <1>2, PTL DEF Spec

\* The types of every variable, a run's and its abandoned calls' included.
THEOREM TypeCorrect == Spec => []TypeOK
BY AlwaysTypes, TypesImplyTypeOK, PTL
-----------------------------------------------------------------------------
\* A run in its section holds the lock of its process.
LockInv == \A r \in Runs : InSection(r) => lock[Home[r]] = r

\* The section of the abstract lock, as its users see it.
using == [p \in Processes |-> {r \in Runs : Home[r] = p /\ InSection(r)}]

\* What the steps of run r do to the section: nothing, enter it or leave it.
Stays(r) == InSection(r)' = InSection(r)
Others(r) == \A q \in Runs \ {r} : InSection(q)' = InSection(q)

LEMMA GoToLock ==
  ASSUME Types, LockInv, NEW r \in Runs, run[r] # Idle, run[r].pc # "lock",
         NEW pc \in {"idle", "lock"} \cup Entering \cup Trying \cup Failing,
         InSection(r) => pc # "lock", ~InSection(r) => pc \in {"idle", "lock"},
         GoTo(r, pc)
  PROVE  /\ LockInv'
         /\ Others(r)
         /\ Stays(r) \/ (InSection(r) /\ ~InSection(r)')
<1>1. /\ run'[r].pc = pc
      /\ \A q \in Runs \ {r} : run'[q] = run[q]
  BY GoToStep DEF Types, Before
<1>2. Others(r)
  BY <1>1 DEF Others, InSection
<1>3. Stays(r) \/ (InSection(r) /\ ~InSection(r)')
  BY <1>1 DEF Stays, InSection, Entering, Trying, Failing
<1>4. LockInv'
  <2>1. \/ lock' = lock
        \/ lock' = [lock EXCEPT ![Home[r]] = Nobody] /\ InSection(r) /\ pc = "idle"
    BY DEF GoTo, InSection
  <2>2. CASE lock' = lock
    BY <1>1, <1>2, <1>3, <2>2 DEF LockInv, Others, Stays
  <2>3. CASE lock' = [lock EXCEPT ![Home[r]] = Nobody] /\ InSection(r) /\ pc = "idle"
    <3>1. ~InSection(r)'
      BY <1>1, <2>3 DEF InSection, Entering, Trying, Failing
    <3>2. ASSUME NEW q \in Runs, InSection(q)' PROVE lock'[Home[q]] = q
      <4>1. q # r /\ InSection(q) /\ lock[Home[q]] = q /\ lock[Home[r]] = r
        BY <1>2, <2>3, <3>1, <3>2 DEF Others, LockInv
      <4>2. Home[q] # Home[r]
        BY <4>1
      <4> QED BY <2>3, <4>1, <4>2 DEF Types, ControlTypes, Processes
    <3> QED BY <3>2 DEF LockInv
  <2> QED BY <2>1, <2>2, <2>3
<1> QED BY <1>2, <1>3, <1>4

\* The steps of the program seen from its section: one run enters it while
\* the lock is free, one leaves it, or a crash empties it.
Enters(r) == ~InSection(r) /\ InSection(r)' /\ Others(r) /\ Free(Home[r])
Leaves(r) == InSection(r) /\ ~InSection(r)' /\ Others(r)
Emptied(p) == \A q \in Runs : InSection(q)' <=> (InSection(q) /\ Home[q] # p)
SameSection == \A q \in Runs : InSection(q)' <=> InSection(q)

LEMMA SectionSteps ==
  ASSUME Types, LockInv, [Next]_vars
  PROVE  /\ LockInv'
         /\ \/ SameSection
            \/ \E r \in Runs : Enters(r) \/ Leaves(r)
            \/ \E p \in Processes : Emptied(p)
<1> DEFINE Goal == /\ LockInv'
                   /\ \/ SameSection
                      \/ \E r \in Runs : Enters(r) \/ Leaves(r)
                      \/ \E p \in Processes : Emptied(p)
<1> SUFFICES Goal
  OBVIOUS
<1> HIDE DEF Goal
<1>1. ASSUME UNCHANGED <<run, lock>> PROVE Goal
  BY <1>1 DEF Goal, LockInv, SameSection, InSection
<1>2. ASSUME NEW r \in Runs, run[r] # Idle, run[r].pc # "lock",
             NEW pc \in {"idle", "lock"} \cup Entering \cup Trying \cup Failing,
             InSection(r) => pc # "lock", ~InSection(r) => pc \in {"idle", "lock"},
             GoTo(r, pc)
      PROVE  Goal
  BY <1>2, GoToLock DEF Goal, SameSection, Leaves, Others, Stays
<1>3. ASSUME NEW r \in Runs, run[r] # Idle, run[r].pc # "lock",
             NEW pc \in Following(run[r]), GoTo(r, pc)
      PROVE  Goal
  <2>1. run[r].pc \in Before \cup Entering \cup Trying \cup Failing
    BY <1>3 DEF Types, ControlTypes, Running
  <2>2. AfterDelta(run[r]) \subseteq {"reuse", "translating", "window"}
    BY DEF AfterDelta
  <2>3. CASE run[r].pc = "gate"
    <3>1. pc \in {"idle", "lock"}
      BY <1>3, <2>3 DEF Following
    <3>2. ~InSection(r)
      BY <2>3 DEF InSection, Entering, Trying, Failing
    <3> QED BY <1>2, <1>3, <3>1, <3>2
  <2>4. CASE run[r].pc # "gate"
    <3>1. InSection(r)
      BY <1>3, <2>1, <2>4 DEF InSection, Before
    <3>2. pc # "lock" /\ pc \in {"idle"} \cup Entering \cup Trying \cup Failing
      BY <1>3, <2>1, <2>2, <2>4 DEF Following, Before, Entering, Trying, Failing
    <3> QED BY <1>2, <1>3, <3>1, <3>2
  <2> QED BY <2>3, <2>4
<1>4. CASE UNCHANGED vars
  <2>1. UNCHANGED <<run, lock>>
    BY <1>4 DEF vars
  <2> QED BY <1>1, <2>1
<1>5. ASSUME NEW r \in Runs, StartRun(r) PROVE Goal
  <2>1. /\ lock' = lock
        /\ \E x : x.pc = "gate" /\ run' = [run EXCEPT ![r] = x]
    <3>1. PICK force, delta \in BOOLEAN :
       run' = [run EXCEPT ![r] = [Idle EXCEPT !.pc = "gate", !.force = force,
                                              !.delta = delta, !.raw = raw]]
      BY <1>5 DEF StartRun
    <3>2. [Idle EXCEPT !.pc = "gate", !.force = force, !.delta = delta, !.raw = raw].pc = "gate"
      BY DEF Idle
    <3> QED BY <1>5, <3>1, <3>2 DEF StartRun
  <2>2. ~InSection(r)
    BY <1>5 DEF StartRun, Idle, InSection, Entering, Trying, Failing
  <2>3. ~InSection(r)' /\ Others(r)
    BY <2>1 DEF Others, InSection, Entering, Trying, Failing, Types, ControlTypes
  <2> QED BY <2>1, <2>2, <2>3 DEF Goal, LockInv, SameSection, Others
<1>6. ASSUME NEW r \in Runs, AcquireLock(r) PROVE Goal
  <2>1. run[r] \in Running /\ run[r] # Idle
    BY <1>6 DEF AcquireLock, Types, ControlTypes, Idle
  <2>2. [run[r] EXCEPT !.pc = "fetching"].pc = "fetching"
    BY <2>1 DEF Running
  <2>3. /\ run'[r].pc = "fetching" /\ \A q \in Runs \ {r} : run'[q] = run[q]
        /\ lock' = [lock EXCEPT ![Home[r]] = r] /\ Home[r] \in Processes
    BY <1>6, <2>2 DEF AcquireLock, Types, ControlTypes, Processes
  <2>4. ~InSection(r) /\ InSection(r)' /\ Others(r)
    BY <1>6, <2>3 DEF AcquireLock, Others, InSection, Entering, Trying, Failing
  <2>5. ASSUME NEW q \in Runs, InSection(q)' PROVE lock'[Home[q]] = q
    <3>1. CASE q = r
      BY <2>3, <3>1 DEF Types, ControlTypes
    <3>2. CASE q # r
      <4>1. lock[Home[q]] = q
        BY <2>4, <2>5, <3>2 DEF Others, LockInv
      <4>2. Home[q] # Home[r]
        BY <1>6, <4>1, TranslationAssumption DEF AcquireLock, Free
      <4> QED BY <2>3, <4>1, <4>2 DEF Types, ControlTypes, Processes
    <3> QED BY <3>1, <3>2
  <2> QED BY <1>6, <2>4, <2>5 DEF Goal, LockInv, Enters, AcquireLock
<1>7. ASSUME NEW r \in Runs, InProgress(r) PROVE Goal
  <2>1. ~InSection(r) /\ ~InSection(r)' /\ Others(r) /\ lock' = lock
    BY <1>7 DEF InProgress, Idle, Others, InSection, Entering, Trying, Failing,
                Types, ControlTypes
  <2> QED BY <2>1 DEF Goal, LockInv, SameSection, Others
<1>8. ASSUME NEW r \in Runs, Call(r) PROVE Goal
  BY <1>3, <1>8 DEF Call, Idle
<1>9. ASSUME NEW r \in Runs, DbWriteLost(r) PROVE Goal
  BY <1>3, <1>9 DEF DbWriteLost, DbWrites, Idle
<1>10. ASSUME NEW r \in Runs, CallRaises(r) PROVE Goal
  <2>1. InSection(r) /\ run[r] # Idle /\ run[r].pc # "lock" /\ GoTo(r, RaisedTo(r))
    BY <1>10 DEF CallRaises, InSection, Entering, Trying, Failing, Idle
  <2>2. RaisedTo(r) \in {"idle"} \cup Failing /\ RaisedTo(r) # "lock"
    BY DEF RaisedTo, Failing
  <2> QED BY <1>2, <2>1, <2>2
<1>11. ASSUME NEW r \in Runs, Cancel(r) PROVE Goal
  <2>1. CASE run[r].pc # "lock"
    BY <1>2, <1>11, <2>1 DEF Cancel
  <2>2. CASE run[r].pc = "lock"
    <3>1. run' = [run EXCEPT ![r] = Idle] /\ lock' = lock
      BY <1>11, <2>2 DEF Cancel, GoTo, At, Trying, Failing
    <3>2. ~InSection(r) /\ ~InSection(r)' /\ Others(r)
      BY <2>2, <3>1 DEF Idle, Others, InSection, Entering, Trying, Failing,
                        Types, ControlTypes
    <3> QED BY <3>1, <3>2 DEF Goal, LockInv, SameSection, Others
  <2> QED BY <2>1, <2>2
<1>12. ASSUME NEW r \in Runs, LateCall(r) PROVE Goal
  BY <1>1, <1>12 DEF LateCall
<1>13. ASSUME NEW p \in Processes, Crash(p) PROVE Goal
  <2>1. ~(Idle.pc \in Entering \cup Trying \cup Failing)
    BY DEF Idle, Entering, Trying, Failing
  <2>2. Emptied(p)
    BY <1>13, <2>1 DEF Crash, Emptied, InSection
  <2>3. LockInv'
    BY <1>13, <2>2 DEF Crash, Emptied, LockInv, Types, ControlTypes, Processes
  <2> QED BY <2>2, <2>3 DEF Goal
<1>14. CASE Crawl \/ RuntimeLost
  <2>1. UNCHANGED <<run, lock>>
    BY <1>14 DEF Crawl, RuntimeLost
  <2> QED BY <1>1, <2>1
<1>15. CASE Next
  BY <1>5, <1>6, <1>7, <1>8, <1>9, <1>10, <1>11, <1>12, <1>13, <1>14, <1>15 DEF Next
<1> QED BY <1>4, <1>15

\* Each of these steps is a step of the abstract lock, or none.
LEMMA StepRefines ==
  ASSUME Types, LockInv, [Next]_vars
  PROVE  [Lock!Next]_using
<1>1. CASE SameSection
  <2>1. using' = using
    BY <1>1 DEF SameSection, using
  <2> QED BY <2>1
<1>2. ASSUME NEW r \in Runs, Enters(r) PROVE [Lock!Next]_using
  <2>1. Home[r] \in Processes
    BY DEF Processes
  <2>2. using[Home[r]] = {}
    BY <1>2, <2>1, TranslationAssumption DEF using, Enters, Free, LockInv
  <2>3. using' = [using EXCEPT ![Home[r]] = {r}]
    BY <1>2, <2>1, <2>2 DEF using, Enters, Others
  <2> QED BY <2>1, <2>2, <2>3 DEF Lock!Next, Lock!Acquire, using
<1>3. ASSUME NEW r \in Runs, Leaves(r) PROVE [Lock!Next]_using
  <2>1. Home[r] \in Processes
    BY DEF Processes
  <2>2. using[Home[r]] = {r}
    BY <1>3, <2>1 DEF using, Leaves, LockInv
  <2>3. \A q \in Runs : Home[q] = Home[r] => ~InSection(q)'
    BY <1>3 DEF Leaves, Others, LockInv
  <2>4. \A q \in Runs : Home[q] # Home[r] => (InSection(q)' <=> InSection(q))
    BY <1>3 DEF Leaves, Others
  <2>5. using' = [using EXCEPT ![Home[r]] = {}]
    BY <2>1, <2>3, <2>4 DEF using
  <2> QED BY <2>1, <2>2, <2>5 DEF Lock!Next, Lock!Release, using
<1>4. ASSUME NEW p \in Processes, Emptied(p) PROVE [Lock!Next]_using
  <2>1. using' = [using EXCEPT ![p] = {}]
    BY <1>4 DEF using, Emptied
  <2>2. CASE using[p] = {}
    BY <2>1, <2>2 DEF using
  <2>3. CASE using[p] # {}
    <3>1. PICK r \in Runs : Home[r] = p /\ InSection(r)
      BY <2>3 DEF using
    <3>2. using[p] = {r}
      BY <3>1 DEF using, LockInv
    <3> QED BY <2>1, <3>2 DEF Lock!Next, Lock!Release, using
  <2> QED BY <2>2, <2>3
<1> QED BY <1>1, <1>2, <1>3, <1>4, SectionSteps

LEMMA InitLock == Init => LockInv /\ Lock!Init
BY DEF Init, LockInv, InSection, Idle, Entering, Trying, Failing, Lock!Init

\* The lock serialises the runs of a process: what the chapter's runs do is
\* what the users of an exclusive lock may do, and each of them that ends in
\* any way, a crash included, leaves before another enters.
THEOREM OneRunAtATime == Spec => OneAtATime
<1>1. Init => LockInv /\ Lock!Init
  BY InitLock
<1>2. Types /\ LockInv /\ [Next]_vars => LockInv' /\ [Lock!Next]_using
  BY SectionSteps, StepRefines
<1> QED BY <1>1, <1>2, AlwaysTypes, PTL DEF Spec, OneAtATime, Lock!Spec, using
-----------------------------------------------------------------------------
\* A call that stores a version writes the list its session has read, and its
\* own version; the others leave the versions alone.
LEMMA PerformVersions ==
  ASSUME NEW x \in Running, x # Idle, Perform(x)
  PROVE  /\ x.pc \notin {"store", "putback"} => versions' = versions
         /\ x.pc = "store" => versions' = x.had \cup {x.raw}
         /\ x.pc = "putback" => versions' = versions \/ \E rev : versions' = x.had \cup {rev}
<1>1. x.pc \in Before \cup Entering \cup Trying \cup Failing
  BY DEF Running
<1>2. CASE x.pc \in {"gate", "fetching", "reuse", "translating", "complete", "failed"}
  BY <1>2 DEF Perform, SetDb
<1>3. CASE x.pc = "restore"
  BY <1>3 DEF Perform, RestoreSource, chapter
<1>4. CASE x.pc = "putback"
  <2>1. RestoreTranslation(x)
    BY <1>4 DEF Perform
  <2> QED BY <1>4, <2>1 DEF RestoreTranslation, AppendVersion
<1>5. CASE x.pc \in {"mark", "window", "chunks", "snapshot", "failed_snapshot"}
  BY <1>5 DEF Perform
<1>6. CASE x.pc = "store"
  BY <1>6 DEF Perform, AppendVersion
<1>7. CASE x.pc \in {"state", "failed_state"}
  BY <1>7 DEF Perform, SetState
<1>8. CASE x.pc \in {"lock", "delta", "pipeline", "save"}
  BY <1>8 DEF Perform, chapter
<1> QED BY <1>1, <1>2, <1>3, <1>4, <1>5, <1>6, <1>7, <1>8
        DEF Before, Entering, Trying, Failing

LEMMA PerformKeepsSome ==
  ASSUME NEW x \in Running, x # Idle, Perform(x), versions # {}
  PROVE  versions' # {}
BY PerformVersions

\* What a run that is about to report its result relies on.
Relies(x) == x.pc \in {"reuse", "state", "snapshot", "complete"} => versions # {}

StoredInv ==
  /\ CompleteIsStored
  /\ active # NoVersion => versions # {}
  /\ \A r \in Runs : Relies(run[r]) /\ Relies(late[r])

LEMMA InitStored == Init => StoredInv
<1> SUFFICES ASSUME Init PROVE StoredInv
  OBVIOUS
<1>1. CompleteIsStored /\ (active # NoVersion => versions # {})
  BY DEF Init, Untouched, Translated, CompleteIsStored
<1>2. \A r \in Runs : Relies(run[r]) /\ Relies(late[r])
  BY DEF Init, Idle, Relies
<1> QED BY <1>1, <1>2 DEF StoredInv

\* A call reports a chapter complete, or activates a version, only when one
\* is stored.
LEMMA PerformStores ==
  ASSUME Types, StoredInv, NEW x \in Running, x # Idle, Relies(x), Perform(x)
  PROVE  /\ CompleteIsStored'
         /\ active' # NoVersion => versions' # {}
         /\ x.pc = "store" => versions' # {}
<1>1. x.pc \in Before \cup Entering \cup Trying \cup Failing
  BY DEF Running
<1>2. versions # {} => versions' # {}
  BY PerformKeepsSome
<1>3. ASSUME db' = db, UNCHANGED active \/ versions' # {}, x.pc # "store"
      PROVE  /\ CompleteIsStored'
             /\ active' # NoVersion => versions' # {}
             /\ x.pc = "store" => versions' # {}
  BY <1>2, <1>3 DEF StoredInv, CompleteIsStored
<1>4. ASSUME NEW state \in States, SetDb(state), state = "complete" => versions # {},
             x.pc # "store"
      PROVE  /\ CompleteIsStored'
             /\ active' # NoVersion => versions' # {}
             /\ x.pc = "store" => versions' # {}
  BY <1>4 DEF SetDb, StoredInv, CompleteIsStored
<1>5. CASE x.pc = "gate"
  <2>1. Resumed(x) \in States
    BY DEF Resumed, States, Types, ChapterTypes
  <2>2. Resumed(x) = "complete" => versions # {}
    BY DEF Resumed, Skips, StoredInv, CompleteIsStored
  <2> QED BY <1>4, <1>5, <2>1, <2>2 DEF Perform
<1>6. CASE x.pc \in {"fetching", "reuse", "translating", "complete", "failed"}
  <2>1. PICK state \in States : SetDb(state) /\ (state = "complete" => versions # {})
    BY <1>6 DEF Perform, ReusedState, States, Relies
  <2> QED BY <1>4, <1>6, <2>1
<1>7. CASE x.pc = "restore"
  <2>1. UNCHANGED <<db, active>>
    BY <1>7 DEF Perform, RestoreSource, chapter
  <2> QED BY <1>3, <1>7, <2>1
<1>8. CASE x.pc \in {"mark", "window", "chunks", "snapshot", "failed_snapshot"}
  BY <1>3, <1>8 DEF Perform
<1>9. CASE x.pc = "store"
  BY <1>9 DEF Perform, AppendVersion, CompleteIsStored
<1>12. CASE x.pc = "putback"
  <2>1. RestoreTranslation(x)
    BY <1>12 DEF Perform
  <2>2. db' = db /\ (UNCHANGED active \/ versions' # {})
    BY <2>1 DEF RestoreTranslation, AppendVersion
  <2> QED BY <1>3, <1>12, <2>2
<1>10. CASE x.pc \in {"state", "failed_state"}
  BY <1>3, <1>10 DEF Perform, SetState
<1>11. CASE x.pc \in {"lock", "delta", "pipeline", "save"}
  BY <1>3, <1>11 DEF Perform, chapter
<1> QED BY <1>1, <1>5, <1>6, <1>7, <1>8, <1>9, <1>10, <1>11, <1>12
        DEF Before, Entering, Trying, Failing

\* A run goes on to report a result only when a version is stored.
LEMMA FollowingRelies ==
  ASSUME Types, StoredInv, NEW x \in Running, x # Idle, Relies(x), NEW pc \in Following(x),
         x.pc = "store" => versions' # {}, versions # {} => versions' # {},
         pc \in {"reuse", "state", "snapshot", "complete"}
  PROVE  versions' # {}
<1>1. x.pc \in Before \cup Entering \cup Trying \cup Failing
  BY DEF Running
<1>2. CASE x.pc = "delta"
  <2>1. pc \in AfterDelta(x)
    BY <1>2 DEF Following
  <2>2. pc = "reuse" /\ active # NoVersion
    BY <2>1 DEF AfterDelta
  <2> QED BY <2>2 DEF StoredInv
<1>3. CASE x.pc \in {"state", "snapshot", "store"}
  BY <1>3 DEF Relies
<1>4. CASE x.pc \notin {"delta", "state", "snapshot", "store"}
  BY <1>1, <1>4 DEF Following, Before, Entering, Trying, Failing
<1> QED BY <1>2, <1>3, <1>4

\* A step that leaves the chapter alone, and runs where they are or elsewhere.
LEMMA QuietStep ==
  ASSUME StoredInv, UNCHANGED <<active, versions, db>>,
         \A r \in Runs : Relies(run'[r]) /\ Relies(late'[r])
  PROVE  StoredInv'
BY DEF StoredInv, CompleteIsStored, Relies

LEMMA NextStored ==
  ASSUME Types, StoredInv, [Next]_vars
  PROVE  StoredInv'
<1>1. Relies(Idle)
  BY DEF Relies, Idle
<1>2. \A r \in Runs : run[r] \in Running /\ late[r] \in Running
                     /\ Relies(run[r]) /\ Relies(late[r])
  BY DEF Types, ControlTypes, StoredInv
<1>3. CASE UNCHANGED vars
  <2>1. UNCHANGED <<active, versions, db, run, late>>
    BY <1>3 DEF vars, chapter
  <2> QED BY <1>2, <2>1, QuietStep
<1>4. ASSUME NEW r \in Runs, StartRun(r) PROVE StoredInv'
  <2>1. PICK force, delta \in BOOLEAN :
       /\ run' = [run EXCEPT ![r] = [Idle EXCEPT !.pc = "gate", !.force = force,
                                                 !.delta = delta, !.raw = raw]]
       /\ db' = IF force THEN "pending" ELSE db
    BY <1>4 DEF StartRun
  <2>2. Relies([Idle EXCEPT !.pc = "gate", !.force = force, !.delta = delta, !.raw = raw])
    BY DEF Relies, Idle
  <2>3. UNCHANGED <<active, versions, late>>
    BY <1>4 DEF StartRun
  <2>4. \A q \in Runs : run'[q].pc \in {"reuse", "state", "snapshot", "complete"} => versions # {}
    BY <1>2, <2>1, <2>2 DEF Relies, Types, ControlTypes
  <2>5. (db' = "complete" => versions # {})
    BY <2>1 DEF StoredInv, CompleteIsStored
  <2> QED BY <1>2, <2>3, <2>4, <2>5 DEF StoredInv, CompleteIsStored, Relies
<1>5. ASSUME NEW r \in Runs, AcquireLock(r) PROVE StoredInv'
  <2>1. UNCHANGED <<active, versions, db, late>> /\ run[r] # Idle
    BY <1>5 DEF AcquireLock, chapter, Idle
  <2>2. run'[r].pc = "fetching" /\ \A q \in Runs \ {r} : run'[q] = run[q]
    BY <1>2, <1>5, <2>1 DEF AcquireLock, Types, ControlTypes, Running
  <2>3. \A q \in Runs : run'[q].pc \in {"reuse", "state", "snapshot", "complete"} => versions # {}
    BY <1>2, <2>2 DEF Relies
  <2> QED BY <1>2, <2>1, <2>3 DEF StoredInv, CompleteIsStored, Relies
<1>6. ASSUME NEW r \in Runs, InProgress(r) PROVE StoredInv'
  <2>1. UNCHANGED <<active, versions, db, late>> /\ run' = [run EXCEPT ![r] = Idle]
    BY <1>6 DEF InProgress, chapter
  <2>2. \A q \in Runs : Relies(run'[q])
    BY <1>1, <1>2, <2>1 DEF Types, ControlTypes
  <2> QED BY <1>2, <2>1, <2>2, QuietStep
<1>7. ASSUME NEW r \in Runs, run[r] # Idle,
             NEW pc \in {"idle"} \cup Before \cup Entering \cup Trying \cup Failing,
             GoTo(r, pc), versions # {} => versions' # {},
             pc \in {"reuse", "state", "snapshot", "complete"} => versions' # {}
      PROVE  \A q \in Runs :
               run'[q].pc \in {"reuse", "state", "snapshot", "complete"} => versions' # {}
  <2>1. run'[r].pc = pc /\ \A q \in Runs \ {r} : run'[q] = run[q]
    BY <1>7, GoToStep DEF Types
  <2> QED BY <1>2, <1>7, <2>1 DEF Relies
<1>8. ASSUME NEW r \in Runs, Call(r) PROVE StoredInv'
  <2>1. run[r] # Idle /\ Perform(run[r]) /\ late' = late
    BY <1>8 DEF Call, Idle
  <2>2. PICK pc \in Following(run[r]) : GoTo(r, pc)
    BY <1>8 DEF Call
  <2>3. /\ CompleteIsStored'
        /\ active' # NoVersion => versions' # {}
        /\ run[r].pc = "store" => versions' # {}
    BY <1>2, <2>1, PerformStores
  <2>4. versions # {} => versions' # {}
    BY <1>2, <2>1, PerformKeepsSome
  <2>5. pc \in {"reuse", "state", "snapshot", "complete"} => versions' # {}
    BY <1>2, <2>1, <2>2, <2>3, <2>4, FollowingRelies
  <2>6. \A q \in Runs :
          run'[q].pc \in {"reuse", "state", "snapshot", "complete"} => versions' # {}
    BY <1>2, <1>7, <2>1, <2>2, <2>4, <2>5, FollowingPlaces
  <2> QED BY <1>2, <2>1, <2>3, <2>4, <2>6 DEF StoredInv, Relies
<1>9. ASSUME NEW r \in Runs, DbWriteLost(r) PROVE StoredInv'
  <2>1. run[r] # Idle /\ run[r].pc # "store" /\ UNCHANGED <<active, versions, db, late>>
    BY <1>9 DEF DbWriteLost, DbWrites, chapter, Idle
  <2>2. PICK pc \in Following(run[r]) : GoTo(r, pc)
    BY <1>9 DEF DbWriteLost
  <2>3. pc \in {"reuse", "state", "snapshot", "complete"} => versions' # {}
    BY <1>2, <2>1, <2>2, FollowingRelies
  <2>4. \A q \in Runs :
          run'[q].pc \in {"reuse", "state", "snapshot", "complete"} => versions' # {}
    BY <1>2, <1>7, <2>1, <2>2, <2>3, FollowingPlaces
  <2> QED BY <1>2, <2>1, <2>4 DEF StoredInv, CompleteIsStored, Relies
<1>10. ASSUME NEW r \in Runs, CallRaises(r) PROVE StoredInv'
  <2>1. run[r] # Idle /\ UNCHANGED <<active, versions, db, late>>
    BY <1>10 DEF CallRaises, InSection, Entering, Trying, Failing, Idle, chapter
  <2>2. RaisedTo(r) \in {"idle", "failed_state"} /\ GoTo(r, RaisedTo(r))
    BY <1>10 DEF CallRaises, RaisedTo
  <2>3. \A q \in Runs :
          run'[q].pc \in {"reuse", "state", "snapshot", "complete"} => versions' # {}
    BY <1>7, <2>1, <2>2 DEF Failing
  <2> QED BY <1>2, <2>1, <2>3 DEF StoredInv, CompleteIsStored, Relies
<1>11. ASSUME NEW r \in Runs, Cancel(r) PROVE StoredInv'
  <2>1. run[r] # Idle /\ GoTo(r, "idle") /\ UNCHANGED <<active, versions, db>>
    BY <1>11 DEF Cancel, chapter
  <2>2. \A q \in Runs :
          run'[q].pc \in {"reuse", "state", "snapshot", "complete"} => versions' # {}
    BY <1>7, <2>1
  <2>3. \A q \in Runs : Relies(late'[q])
    <3>1. \A q \in Runs : late'[q] \in {late[q], Idle, run[q]}
      BY <1>11 DEF Cancel, Types, ControlTypes
    <3>2. ASSUME NEW q \in Runs,
                 late'[q].pc \in {"reuse", "state", "snapshot", "complete"}
          PROVE  versions # {}
      BY <1>1, <1>2, <3>1, <3>2 DEF Relies
    <3> QED BY <2>1, <3>2 DEF Relies
  <2> QED BY <1>2, <2>1, <2>2, <2>3 DEF StoredInv, CompleteIsStored, Relies
<1>12. ASSUME NEW r \in Runs, LateCall(r) PROVE StoredInv'
  <2>1. late[r] # Idle /\ Perform(late[r]) /\ run' = run
    BY <1>12 DEF LateCall
  <2>2. CompleteIsStored' /\ (active' # NoVersion => versions' # {})
    BY <1>2, <2>1, PerformStores
  <2>3. versions # {} => versions' # {}
    BY <1>2, <2>1, PerformKeepsSome
  <2>4. \A q \in Runs : late'[q] = late[q] \/ late'[q] = Idle
                         \/ late'[q].pc \in {"store", "putback"}
    BY <1>12, LateStep DEF Types
  <2>5. ASSUME NEW q \in Runs,
               late'[q].pc \in {"reuse", "state", "snapshot", "complete"}
        PROVE  versions # {}
    BY <1>1, <1>2, <2>4, <2>5 DEF Relies
  <2> QED BY <1>2, <2>1, <2>2, <2>3, <2>5 DEF StoredInv, Relies
<1>13. ASSUME NEW p \in Processes, Crash(p) PROVE StoredInv'
  <2>1. UNCHANGED <<active, versions, db>>
    BY <1>13 DEF Crash, chapter
  <2>2. \A q \in Runs : run'[q] \in {run[q], Idle} /\ late'[q] \in {late[q], Idle}
    BY <1>13 DEF Crash
  <2>3. ASSUME NEW q \in Runs, NEW x \in {run'[q], late'[q]},
               x.pc \in {"reuse", "state", "snapshot", "complete"}
        PROVE  versions # {}
    BY <1>1, <1>2, <2>2, <2>3 DEF Relies
  <2> QED BY <2>1, <2>3 DEF StoredInv, CompleteIsStored, Relies
<1>14. CASE Crawl \/ RuntimeLost
  <2>1. UNCHANGED <<active, versions, db, run, late>>
    BY <1>14 DEF Crawl, RuntimeLost
  <2> QED BY <1>2, <2>1, QuietStep
<1> QED BY <1>3, <1>4, <1>5, <1>6, <1>8, <1>9, <1>10, <1>11, <1>12, <1>13, <1>14 DEF Next

\* A chapter is reported complete only with a translation stored, whatever
\* run, cancelled call or lost write the report and the translation came from.
THEOREM CompleteImpliesStored == Spec => []CompleteIsStored
<1>1. Init => StoredInv
  BY InitStored
<1>2. Types /\ StoredInv /\ [Next]_vars => StoredInv'
  BY NextStored
<1>3. StoredInv => CompleteIsStored
  BY DEF StoredInv
<1> QED BY <1>1, <1>2, <1>3, AlwaysTypes, PTL DEF Spec
-----------------------------------------------------------------------------
\* A thread that an interrupted run has left behind may set the state late, so
\* that the chapter awaits repair until all of them are over.
WorkedOn == db \in {"fetching", "translating"}
ProgressInv ==
  /\ InProgressIsRunning
  /\ \A r \in Runs : late[r] # Idle => torn

\* Only a run in its section sets a state of work in progress.
LEMMA PerformProgress ==
  ASSUME Types, NEW x \in Running, x # Idle, Perform(x), WorkedOn'
  PROVE  WorkedOn \/ x.pc \in {"fetching", "translating"}
<1>1. x.pc \in Before \cup Entering \cup Trying \cup Failing
  BY DEF Running
<1>2. CASE x.pc = "gate"
  BY <1>2 DEF Perform, SetDb, Resumed, WorkedOn
<1>3. CASE x.pc \in {"fetching", "translating"}
  BY <1>3
<1>4. CASE x.pc \in {"reuse", "complete", "failed"}
  BY <1>4 DEF Perform, SetDb, ReusedState, WorkedOn
<1>5. CASE x.pc \in {"restore", "putback"}
  BY <1>5 DEF Perform, RestoreSource, RestoreTranslation, chapter, WorkedOn
<1>6. CASE x.pc \in {"mark", "window", "chunks", "store", "snapshot", "failed_snapshot"}
  BY <1>6 DEF Perform, WorkedOn
<1>7. CASE x.pc \in {"state", "failed_state"}
  BY <1>7 DEF Perform, SetState, WorkedOn
<1>8. CASE x.pc \in {"lock", "delta", "pipeline", "save"}
  BY <1>8 DEF Perform, chapter, WorkedOn
<1> QED BY <1>1, <1>2, <1>3, <1>4, <1>5, <1>6, <1>7, <1>8
        DEF Before, Entering, Trying, Failing

\* The last calls of a run settle the state.
LEMMA LastCallSettles ==
  ASSUME NEW x, x.pc \in {"reuse", "complete", "failed"}, Perform(x)
  PROVE  ~WorkedOn'
BY DEF Perform, SetDb, ReusedState, WorkedOn

\* A run in its section leaves it by one of its last calls.
LEMMA SectionGoesOn ==
  ASSUME NEW x \in Running, x.pc \in Entering \cup Trying \cup Failing,
         x.pc \notin {"reuse", "complete", "failed"}, NEW pc \in Following(x)
  PROVE  pc \in Entering \cup Trying \cup Failing
<1>1. AfterDelta(x) \subseteq {"reuse", "translating", "window"}
  BY DEF AfterDelta
<1> QED BY <1>1 DEF Following, Entering, Trying, Failing

LEMMA CallProgress ==
  ASSUME Types, ProgressInv, NEW r \in Runs, Call(r)
  PROVE  ProgressInv'
<1>1. run[r] \in Running /\ run[r] # Idle /\ Perform(run[r]) /\ late' = late
  BY DEF Call, Types, ControlTypes, Idle
<1>2. PICK pc \in Following(run[r]) : GoTo(r, pc)
  BY DEF Call
<1>3. run'[r].pc = pc /\ \A q \in Runs \ {r} : run'[q] = run[q]
  BY <1>1, <1>2, FollowingPlaces, GoToStep DEF Types
<1>4. ASSUME torn, ~torn'
      PROVE  /\ run[r].pc \in {"reuse", "complete", "failed"}
             /\ \A q \in Runs : late[q] = Idle
  BY <1>4 DEF Call, Alone
<1>5. torn' => torn
  BY DEF Call
<1>6. \A q \in Runs : late'[q] # Idle => torn'
  BY <1>1, <1>4 DEF ProgressInv
<1>7. ASSUME WorkedOn', ~torn' PROVE \E q \in Runs : InSection(q)'
  <2>1. run[r].pc \notin {"reuse", "complete", "failed"}
    BY <1>1, <1>7, LastCallSettles
  <2>2. ~torn
    BY <1>4, <1>7, <2>1
  <2>3. CASE InSection(r)
    <3>1. pc \in Entering \cup Trying \cup Failing
      BY <1>1, <1>2, <2>1, <2>3, SectionGoesOn DEF InSection
    <3> QED BY <1>3, <3>1 DEF InSection
  <2>4. CASE ~InSection(r)
    <3>1. WorkedOn
      BY <1>1, <1>7, <2>4, PerformProgress DEF InSection, Entering, Trying
    <3>2. PICK q \in Runs : InSection(q)
      BY <2>2, <3>1 DEF ProgressInv, InProgressIsRunning, WorkedOn
    <3> QED BY <1>3, <2>4, <3>2 DEF InSection
  <2> QED BY <2>3, <2>4
<1> QED BY <1>6, <1>7 DEF ProgressInv, InProgressIsRunning, WorkedOn

\* Whatever interrupts a run leaves the chapter to be repaired.
LEMMA TornProgress ==
  ASSUME torn'
  PROVE  ProgressInv'
BY DEF ProgressInv, InProgressIsRunning

LEMMA NextProgress ==
  ASSUME Types, ProgressInv, [Next]_vars
  PROVE  ProgressInv'
<1>1. CASE UNCHANGED vars
  BY <1>1 DEF vars, chapter, ProgressInv, InProgressIsRunning, InSection
<1>2. ASSUME NEW r \in Runs, StartRun(r) PROVE ProgressInv'
  <2>1. late' = late /\ torn' = torn /\ (WorkedOn' => WorkedOn) /\ run[r] = Idle
    BY <1>2 DEF StartRun, WorkedOn
  <2>2. \A q \in Runs : InSection(q) => run'[q] = run[q]
    BY <1>2, <2>1 DEF StartRun, InSection, Entering, Trying, Failing, Idle, Types, ControlTypes
  <2> QED BY <2>1, <2>2 DEF ProgressInv, InProgressIsRunning, InSection, WorkedOn
<1>3. ASSUME NEW r \in Runs, AcquireLock(r) \/ InProgress(r) PROVE ProgressInv'
  <2>1. late' = late /\ torn' = torn /\ db' = db /\ run[r].pc = "lock"
    BY <1>3 DEF AcquireLock, InProgress, chapter
  <2>2. \A q \in Runs : InSection(q) => run'[q] = run[q]
    BY <1>3, <2>1 DEF AcquireLock, InProgress, InSection, Entering, Trying, Failing,
                      Types, ControlTypes
  <2> QED BY <2>1, <2>2 DEF ProgressInv, InProgressIsRunning, InSection
<1>4. ASSUME NEW r \in Runs, Call(r) PROVE ProgressInv'
  BY <1>4, CallProgress
<1>5. ASSUME NEW r \in Runs, DbWriteLost(r) \/ Cancel(r) PROVE ProgressInv'
  BY <1>5, TornProgress DEF DbWriteLost, Cancel
<1>6. ASSUME NEW p \in Processes, Crash(p) PROVE ProgressInv'
  BY <1>6, TornProgress DEF Crash
<1>7. ASSUME NEW r \in Runs, CallRaises(r) PROVE ProgressInv'
  <2>1. CASE RaisedTo(r) = "idle"
    BY <1>7, <2>1, TornProgress DEF CallRaises
  <2>2. CASE RaisedTo(r) = "failed_state"
    <3>1. run[r] # Idle /\ late' = late /\ db' = db /\ torn' = torn
      BY <1>7, <2>2 DEF CallRaises, InSection, Entering, Trying, Failing, Idle, chapter,
                        Types, Counters
    <3>2. run'[r].pc = "failed_state"
      BY <1>7, <2>2, <3>1, GoToStep DEF CallRaises, Failing, Types
    <3> QED BY <3>1, <3>2 DEF ProgressInv, InProgressIsRunning, InSection, Failing
  <2> QED BY <2>1, <2>2 DEF RaisedTo
<1>8. ASSUME NEW r \in Runs, LateCall(r) PROVE ProgressInv'
  BY <1>8, TornProgress DEF LateCall, ProgressInv
<1>9. CASE Crawl \/ RuntimeLost
  <2>1. UNCHANGED <<db, run, late, torn>>
    BY <1>9 DEF Crawl, RuntimeLost
  <2> QED BY <2>1 DEF ProgressInv, InProgressIsRunning, InSection
<1> QED BY <1>1, <1>2, <1>3, <1>4, <1>5, <1>6, <1>7, <1>8, <1>9 DEF Next

\* A chapter shown as being worked on is worked on, in whatever process, or an
\* interruption has left it so that no later run has repaired yet.
THEOREM ProgressIsReal == Spec => []InProgressIsRunning
<1>1. Init => ProgressInv
  BY DEF Init, Untouched, Translated, Idle, ProgressInv, InProgressIsRunning
<1>2. Types /\ ProgressInv /\ [Next]_vars => ProgressInv'
  BY NextProgress
<1>3. ProgressInv => InProgressIsRunning
  BY DEF ProgressInv
<1> QED BY <1>1, <1>2, <1>3, AlwaysTypes, PTL DEF Spec
-----------------------------------------------------------------------------
\* While nothing interrupted awaits repair, a run that has read the versions
\* is the only one to write them, and what it has stored stays until its end.
VersionsInv ==
  SingleProcess /\ ~torn =>
    \A r \in Runs :
      /\ run[r].pc \in {"store", "putback"} => run[r].had = versions
      /\ run[r].pc \in {"state", "snapshot", "complete"} => run[r].raw \in versions

\* Runs outside their section rely on no version.
Unconcerned(x) == x.pc \notin {"store", "putback", "state", "snapshot", "complete"}

LEMMA OutsideUnconcerned ==
  \A r \in Runs : ~InSection(r) => Unconcerned(run[r])
BY DEF InSection, Unconcerned, Entering, Trying

\* In one process, a run in its section is alone in it.
LEMMA AloneInSection ==
  ASSUME SingleProcess, LockInv, NEW r \in Runs, InSection(r), NEW q \in Runs \ {r}
  PROVE  ~InSection(q)
<1>1. Home[q] = Home[r] /\ lock[Home[r]] = r
  BY DEF SingleProcess, LockInv
<1> QED BY <1>1 DEF LockInv

\* A step that keeps the versions, and the runs that rely on them.
LEMMA QuietVersions ==
  ASSUME VersionsInv, versions' = versions, torn' = torn,
         \A r \in Runs : run'[r] = run[r] \/ Unconcerned(run'[r])
  PROVE  VersionsInv'
BY DEF VersionsInv, SingleProcess, Unconcerned

\* A call of a run keeps the versions, and ends with them stored.
LEMMA CallVersions ==
  ASSUME Types, LockInv, ProgressInv, VersionsInv, NEW r \in Runs, Call(r)
  PROVE  /\ VersionsInv'
         /\ SingleProcess /\ ~torn => versions \subseteq versions'
<1>1. run[r] \in Running /\ run[r] # Idle /\ Perform(run[r])
  BY DEF Call, Types, ControlTypes, Idle
<1>2. PICK pc \in Following(run[r]) : GoTo(r, pc)
  BY DEF Call
<1>3. /\ run'[r].pc = pc
      /\ pc # "idle" => run'[r].raw = run[r].raw
      /\ pc \in {"store", "putback"} => run'[r].had = versions
      /\ \A q \in Runs \ {r} : run'[q] = run[q]
  BY <1>1, <1>2, FollowingPlaces, GoToStep DEF Types
<1>4. /\ run[r].pc \notin {"store", "putback"} => versions' = versions
      /\ run[r].pc = "store" => versions' = run[r].had \cup {run[r].raw}
      /\ run[r].pc = "putback" => versions' = versions
                                   \/ \E rev : versions' = run[r].had \cup {rev}
  BY <1>1, PerformVersions
<1>5. ASSUME SingleProcess, ~torn PROVE versions \subseteq versions'
  BY <1>4, <1>5 DEF VersionsInv
<1>6. ASSUME SingleProcess, torn, ~torn', NEW q \in Runs PROVE Unconcerned(run'[q])
  <2>1. run[r].pc \in {"reuse", "complete", "failed"} /\ Alone(r)
    BY <1>6 DEF Call
  <2>2. run'[r].pc = "idle"
    BY <1>2, <1>3, <2>1 DEF Following
  <2>3. q # r => ~InSection(q)
    BY <2>1 DEF Alone
  <2> QED BY <1>3, <2>2, <2>3, OutsideUnconcerned DEF Unconcerned
<1>7. ASSUME SingleProcess, ~torn, NEW q \in Runs
      PROVE  /\ run'[q].pc \in {"store", "putback"} => run'[q].had = versions'
             /\ run'[q].pc \in {"state", "snapshot", "complete"} => run'[q].raw \in versions'
  <2>1. CASE q = r
    <3>1. pc \in {"store", "putback"} => run[r].pc \in {"save", "restore", "window", "pipeline"}
      BY <1>2 DEF Following, AfterDelta
    <3>2. pc \in {"state", "snapshot", "complete"} => run[r].pc \in {"store", "state", "snapshot"}
      BY <1>2 DEF Following, AfterDelta
    <3>3. run[r].pc \in {"state", "snapshot"} => run[r].raw \in versions
      BY <1>7 DEF VersionsInv
    <3> QED BY <1>3, <1>4, <2>1, <3>1, <3>2, <3>3
  <2>2. CASE q # r /\ InSection(r)
    <3>1. Unconcerned(run[q])
      BY <1>7, <2>2, AloneInSection, OutsideUnconcerned
    <3> QED BY <1>3, <2>2, <3>1 DEF Unconcerned
  <2>3. CASE q # r /\ ~InSection(r)
    <3>1. versions' = versions
      BY <1>4, <2>3, OutsideUnconcerned DEF Unconcerned
    <3> QED BY <1>3, <1>7, <2>3, <3>1 DEF VersionsInv
  <2> QED BY <2>1, <2>2, <2>3
<1>8. SingleProcess' = SingleProcess
  BY DEF SingleProcess
<1> QED BY <1>5, <1>6, <1>7, <1>8 DEF VersionsInv, Unconcerned

LEMMA NextVersions ==
  ASSUME Types, LockInv, ProgressInv, VersionsInv, [Next]_vars
  PROVE  /\ VersionsInv'
         /\ SingleProcess /\ ~torn => versions \subseteq versions'
<1>1. Unconcerned(Idle)
  BY DEF Unconcerned, Idle
<1>2. CASE UNCHANGED vars
  BY <1>2, QuietVersions DEF vars, chapter
<1>3. ASSUME NEW r \in Runs, StartRun(r) \/ AcquireLock(r) \/ InProgress(r)
      PROVE  VersionsInv' /\ versions' = versions
  <2>1. /\ run'[r].pc \in {"gate", "fetching", "idle"}
        /\ \A q \in Runs \ {r} : run'[q] = run[q]
    <3>1. CASE StartRun(r)
      BY <3>1 DEF StartRun, Idle, Types, ControlTypes
    <3>2. CASE AcquireLock(r)
      <4>1. run[r] \in Running /\ run' = [run EXCEPT ![r].pc = "fetching"]
        BY <3>2 DEF AcquireLock, Types, ControlTypes
      <4> QED BY <4>1 DEF Running, Idle, Types, ControlTypes
    <3>3. CASE InProgress(r)
      BY <3>3 DEF InProgress, Idle, Types, ControlTypes
    <3> QED BY <1>3, <3>1, <3>2, <3>3
  <2>2. versions' = versions /\ torn' = torn
    BY <1>3 DEF StartRun, AcquireLock, InProgress, chapter
  <2> QED BY <2>1, <2>2, QuietVersions DEF Unconcerned
<1>4. ASSUME NEW r \in Runs, Call(r)
      PROVE  /\ VersionsInv'
             /\ SingleProcess /\ ~torn => versions \subseteq versions'
  BY <1>4, CallVersions
<1>5. ASSUME NEW r \in Runs, DbWriteLost(r) \/ Cancel(r)
      PROVE  VersionsInv' /\ versions' = versions
  BY <1>5 DEF DbWriteLost, Cancel, chapter, VersionsInv
<1>6. ASSUME NEW r \in Runs, CallRaises(r) PROVE VersionsInv' /\ versions' = versions
  <2>1. versions' = versions /\ (torn' = torn \/ torn')
    BY <1>6 DEF CallRaises, chapter, Types, Counters
  <2>2. run[r] # Idle
    BY <1>6 DEF CallRaises, InSection, Entering, Trying, Failing, Idle
  <2>3. RaisedTo(r) \in {"idle", "failed_state"} /\ GoTo(r, RaisedTo(r))
    BY <1>6 DEF CallRaises, RaisedTo
  <2>4. /\ run'[r].pc \in {"idle", "failed_state"}
        /\ \A q \in Runs \ {r} : run'[q] = run[q]
    BY <2>2, <2>3, GoToStep DEF Types, Failing
  <2>5. CASE torn' = torn
    BY <2>1, <2>4, <2>5, QuietVersions DEF Unconcerned
  <2>6. CASE torn'
    BY <2>1, <2>6 DEF VersionsInv
  <2> QED BY <2>1, <2>5, <2>6
<1>7. ASSUME NEW r \in Runs, LateCall(r)
      PROVE  VersionsInv' /\ torn
  <2>1. torn /\ torn' = torn
    BY <1>7 DEF LateCall, ProgressInv
  <2> QED BY <2>1 DEF VersionsInv
<1>8. ASSUME NEW p \in Processes, Crash(p) PROVE VersionsInv' /\ versions' = versions
  BY <1>8 DEF Crash, chapter, VersionsInv
<1>9. CASE Crawl \/ RuntimeLost
  BY <1>9, QuietVersions DEF Crawl, RuntimeLost
<1> QED BY <1>2, <1>3, <1>4, <1>5, <1>6, <1>7, <1>8, <1>9 DEF Next, vars, chapter,
           Crawl, RuntimeLost

LEMMA AlwaysVersions ==
  Spec => [](Types /\ LockInv /\ ProgressInv /\ VersionsInv)
<1>1. Init => LockInv /\ ProgressInv /\ VersionsInv
  <2>1. Init => ProgressInv
    BY DEF Init, Untouched, Translated, Idle, ProgressInv, InProgressIsRunning
  <2>2. Init => VersionsInv
    BY DEF Init, Idle, VersionsInv
  <2> QED BY <2>1, <2>2, InitLock
<1>2. Types /\ LockInv /\ ProgressInv /\ VersionsInv /\ [Next]_vars
        => LockInv' /\ ProgressInv' /\ VersionsInv'
  BY SectionSteps, NextProgress, NextVersions
<1> QED BY <1>1, <1>2, AlwaysTypes, PTL DEF Spec

\* Runs of one process lose no version of the translation, however many of
\* them follow each other, crawls and lost runtime files between their steps
\* included, unless a call of an interrupted run is about to write.
THEOREM NoVersionLost == Spec => VersionsKept
<1>1. /\ Types /\ LockInv /\ ProgressInv /\ VersionsInv /\ [Next]_vars
      => [SingleProcess /\ ~torn => versions \subseteq versions']_versions
  BY NextVersions
<1> QED BY <1>1, AlwaysVersions, PTL DEF Spec, VersionsKept

\* A run that reports its result finds the translation of its own source
\* among the stored ones, until it has ended.
THEOREM OwnVersionStays == Spec => []OwnVersionIsStored
<1>1. VersionsInv => OwnVersionIsStored
  BY DEF VersionsInv, OwnVersionIsStored
<1> QED BY <1>1, AlwaysVersions, PTL
=============================================================================
