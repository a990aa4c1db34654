------------------------- MODULE ChapterTranslation -------------------------
(***************************************************************************)
(* The translation of one chapter (services/orchestration/translation.py,  *)
(* translation_resume.py, translation_lineage.py, storage/jobs.py): runs   *)
(* in one or more worker processes, a lock in the memory of each process,  *)
(* and what they keep of the chapter in the catalog (its source, its       *)
(* translation versions, its translation_state) and in the runtime         *)
(* directory (its chapter state, checkpoints and chunk records).           *)
(*                                                                         *)
(* The source is a revision number; a translation is known by the revision *)
(* it translates and by whether it was stored with its lineage (the hashes *)
(* of what produced it).  Every blocking call runs in a thread: a          *)
(* coroutine that is cancelled leaves it behind, and it takes effect       *)
(* later.  Glossary, provider, prompt and output policy do not change      *)
(* between runs; the segment checkpoints of CheckpointManager, which no    *)
(* run reads, are left out.                                                *)
(***************************************************************************)
EXTENDS Naturals, FiniteSets

CONSTANTS Runs,       \* coroutines of _run_chapter for the chapter
          Home,       \* the process of each of them
          HasBlocks,  \* the source delivers source_blocks, text included
          MaxRaw,     \* bound on the revisions of the source
          MaxRuns,    \* bound on the runs of a behaviour
          MaxFaults   \* bound on cancellations, crashes and storage errors

Nobody == "nobody"
Processes == {Home[r] : r \in Runs}
Revisions == 1..MaxRaw

ASSUME TranslationAssumption ==
  /\ Nobody \notin Runs /\ HasBlocks \in BOOLEAN
  /\ {MaxRaw, MaxRuns, MaxFaults} \subseteq Nat /\ MaxRaw > 0

VARIABLES raw,       \* the source the catalog points to
          active,    \* the translation the catalog points to
          versions,  \* the stored translations: the revisions they are of
          db,        \* Chapter.translation_state
          st,        \* the chapter-state file
          saved,     \* the chapter's checkpoints, by name
          chunks,    \* the revision the chunk records' lineage is of
          lock,      \* the run each process's lock was acquired by
          run,       \* the state of each run
          late,      \* the call a cancelled run has left behind
          starts, faults,
          torn       \* an interrupted run's state awaits repair (history)

chapter == <<raw, active, versions, db, st, saved, chunks>>
vars == <<chapter, lock, run, late, starts, faults, torn>>

NoVersion == [of |-> 0, lineage |-> FALSE]
Version(rev, lineage) == [of |-> rev, lineage |-> lineage]

State(state, erred) == [state |-> state, erred |-> erred]
NoCheckpoint == [raw |-> 0, active |-> NoVersion, st |-> State("none", FALSE)]
Names == {"before_translate", "failed", "translated"}

Idle == [pc |-> "idle", force |-> FALSE, delta |-> FALSE, raw |-> 0,
         erred |-> FALSE, had |-> {}, back |-> NoCheckpoint]

Before == {"gate", "lock"}
Entering == {"fetching", "restore", "putback", "mark"}
Trying == {"delta", "reuse", "window", "translating", "chunks", "pipeline", "save", "store",
           "state", "snapshot", "complete"}
Failing == {"failed_state", "failed_snapshot", "failed"}

\* A run is between the acquisition of the lock and its release.
InSection(r) == run[r].pc \in Entering \cup Trying \cup Failing
-----------------------------------------------------------------------------
VersionType == [of : 0..MaxRaw, lineage : BOOLEAN]
StateType == [state : {"none", "translating", "translated", "failed"}, erred : BOOLEAN]
CheckpointType == [raw : 0..MaxRaw, active : VersionType, st : StateType]
RunType == [pc : {"idle"} \cup Before \cup Entering \cup Trying \cup Failing,
            force : BOOLEAN, delta : BOOLEAN, raw : 0..MaxRaw, erred : BOOLEAN,
            had : SUBSET Revisions,    \* the versions its session has read
            back : CheckpointType]     \* the checkpoint it restores

TypeOK ==
  /\ raw \in Revisions
  /\ active \in VersionType
  /\ versions \subseteq Revisions
  /\ db \in {"pending", "fetching", "translating", "complete", "failed"}
  /\ st \in StateType
  /\ saved \in [Names -> CheckpointType]
  /\ chunks \in 0..MaxRaw
  /\ lock \in [Processes -> Runs \cup {Nobody}]
  /\ run \in [Runs -> RunType]
  /\ late \in [Runs -> RunType]
  /\ starts \in 0..MaxRuns
  /\ faults \in 0..MaxFaults
  /\ torn \in BOOLEAN

\* The chapter is new, or an undisturbed run has translated its first source.
Untouched ==
  /\ active = NoVersion /\ versions = {} /\ db = "pending" /\ chunks = 0
  /\ st = State("none", FALSE)
  /\ saved = [n \in Names |-> NoCheckpoint]

Translated ==
  /\ active = Version(1, TRUE) /\ versions = {1} /\ db = "complete" /\ chunks = 1
  /\ st = State("translated", FALSE)
  /\ saved = [n \in Names |->
       CASE n = "before_translate" ->
              [raw |-> 1, active |-> NoVersion, st |-> State("none", FALSE)]
         [] n = "failed" -> NoCheckpoint
         [] n = "translated" -> [raw |-> 1, active |-> active, st |-> st]]

Init ==
  /\ raw = 1
  /\ Untouched \/ Translated
  /\ lock = [p \in Processes |-> Nobody]
  /\ run = [r \in Runs |-> Idle]
  /\ late = [r \in Runs |-> Idle]
  /\ starts = 0
  /\ faults = 0
  /\ torn = FALSE
-----------------------------------------------------------------------------
\* The effects of the calls a run makes, each of them one call in a thread.

\* is_translation_valid on the stored translation; the delta path leaves the
\* hash of the source text out.
Valid(x, version, sourceHash) ==
  /\ version.lineage
  /\ sourceHash => version.of = x.raw
  /\ HasBlocks => version.of = x.raw

Skips(x) == ~x.force /\ ~x.delta /\ active # NoVersion /\ Valid(x, active, TRUE)

\* The translation_state the resume check leaves.
Resumed(x) ==
  IF x.force THEN db
  ELSE IF Skips(x) THEN "complete"
  ELSE IF db = "complete" /\ (active = NoVersion \/ ~x.delta) THEN "pending"
  ELSE IF db = "failed" THEN "pending"
  ELSE db

\* _latest_checkpoint_name: the last of the file names.
Latest == IF saved["translated"] # NoCheckpoint THEN saved["translated"]
          ELSE IF saved["failed"] # NoCheckpoint THEN saved["failed"]
          ELSE saved["before_translate"]

\* Faulty variant: the list is changed in place, which the session does not
\* notice.
ChangeInPlace(had, rev) == versions

\* The list a session writes back: the one it has read and its own version.
AppendVersion(had, rev) == had \cup {rev}

\* _restore_latest_checkpoint_for_resume restores the latest checkpoint of a
\* chapter without a state, or whose state has an error.
Restores == (st.state = "none" \/ st.erred) /\ Latest # NoCheckpoint

\* restore_from_checkpoint: the source is saved again as it was, then the
\* translation, without its lineage, and the chapter state.
RestoreSource == raw' = Latest.raw /\ UNCHANGED <<active, versions, db, st, saved, chunks>>

RestoreTranslation(x) ==
  /\ IF x.back.active = NoVersion THEN UNCHANGED <<active, versions>>
     ELSE /\ active' = Version(x.back.active.of, FALSE)
          /\ versions' = AppendVersion(x.had, x.back.active.of)
  /\ st' = IF x.back.st.state = "none" THEN st ELSE x.back.st
  /\ UNCHANGED <<raw, db, saved, chunks>>

Snapshot(name) ==
  saved' = [saved EXCEPT ![name] = [raw |-> raw, active |-> active, st |-> st]]

SetDb(state) == db' = state /\ UNCHANGED <<raw, active, versions, st, saved, chunks>>
SetState(state, erred) ==
  st' = State(state, erred) /\ UNCHANGED <<raw, active, versions, db, saved, chunks>>

\* Faulty variants: a whole-chapter reuse leaves the state as it was set, or
\* sets it to the name of the run's result.
LeavesFetching == "fetching"
ReusedName == "reused"
ReusedState == "complete"

\* What the call of a run at x.pc does to the chapter.
Perform(x) ==
  CASE x.pc = "gate" -> SetDb(Resumed(x))
    [] x.pc = "fetching" -> SetDb("fetching")
    [] x.pc = "restore" -> IF Restores THEN RestoreSource ELSE UNCHANGED chapter
    [] x.pc = "putback" -> RestoreTranslation(x)
    [] x.pc = "mark" ->
         /\ Snapshot("before_translate")
         /\ st' = State("translating", st.erred)
         /\ UNCHANGED <<raw, active, versions, db, chunks>>
    [] x.pc = "reuse" -> SetDb(ReusedState)
    [] x.pc = "translating" -> SetDb("translating")
    [] x.pc \in {"window", "chunks"} ->
         \* Of each paragraph the earliest record wins: a revision that adds
         \* paragraphs becomes the lineage, one that rewrites them does not.
         /\ chunks' \in {x.raw} \cup ({chunks} \ {0})
         /\ UNCHANGED <<raw, active, versions, db, st, saved>>
    [] x.pc = "store" ->
         \* A translation of low confidence is stored, not activated.
         /\ active' \in {active, Version(x.raw, TRUE)}
         /\ versions' = AppendVersion(x.had, x.raw)
         /\ UNCHANGED <<raw, db, st, saved, chunks>>
    [] x.pc = "state" -> SetState("translated", x.erred)
    [] x.pc \in {"snapshot", "failed_snapshot"} ->
         /\ Snapshot(IF x.pc = "snapshot" THEN "translated" ELSE "failed")
         /\ UNCHANGED <<raw, active, versions, db, st, chunks>>
    [] x.pc = "complete" -> SetDb("complete")
    [] x.pc = "failed_state" -> SetState("failed", TRUE)
    [] x.pc = "failed" -> SetDb("failed")
    [] OTHER -> UNCHANGED chapter

\* The delta path: nothing to do, the changed paragraphs, or the whole text.
AfterDelta(x) ==
  IF x.force \/ ~x.delta THEN {"translating"}
  ELSE IF active # NoVersion /\ Valid(x, active, FALSE) /\ chunks = x.raw THEN {"reuse"}
  ELSE IF (active # NoVersion /\ ~Valid(x, active, FALSE)) \/ chunks \in {0, x.raw}
  THEN {"translating"}
  ELSE {"window", "translating"}

\* Where a run goes on when the call of x has returned.
Following(x) ==
  CASE x.pc = "gate" -> IF Skips(x) THEN {"idle"} ELSE {"lock"}
    [] x.pc = "fetching" -> {"restore"}
    [] x.pc = "restore" -> IF Restores THEN {"putback"} ELSE {"mark"}
    [] x.pc = "putback" -> {"mark"}
    [] x.pc = "mark" -> {"delta"}
    [] x.pc = "delta" -> AfterDelta(x)
    [] x.pc = "window" -> {"save", "translating", "failed_state"}
    [] x.pc = "translating" -> {"chunks"}
    [] x.pc = "chunks" -> {"pipeline"}
    [] x.pc = "pipeline" -> {"save", "failed_state"}
    [] x.pc = "save" -> {"store"}
    [] x.pc = "store" -> {"state"}
    [] x.pc = "state" -> {"snapshot"}
    [] x.pc = "snapshot" -> {"complete"}
    [] x.pc = "failed_state" -> {"failed_snapshot"}
    [] x.pc = "failed_snapshot" -> {"failed"}
    [] OTHER -> {"idle"}
-----------------------------------------------------------------------------
\* translate_chapters has loaded the chapter; force resets its state.
StartRun(r) ==
  /\ run[r] = Idle /\ starts < MaxRuns
  /\ starts' = starts + 1
  /\ \E force, delta \in BOOLEAN :
       /\ run' = [run EXCEPT ![r] = [Idle EXCEPT !.pc = "gate", !.force = force,
                                                 !.delta = delta, !.raw = raw]]
       /\ db' = IF force THEN "pending" ELSE db
  /\ UNCHANGED <<raw, active, versions, st, saved, chunks, lock, late, faults, torn>>

\* Faulty variants: a run does not look at the lock; it waits for the lock.
AlwaysFree(p) == TRUE
WaitsForIt(p) == FALSE

Free(p) == lock[p] = Nobody
Refuses(p) == lock[p] # Nobody

AcquireLock(r) ==
  /\ run[r].pc = "lock" /\ Free(Home[r])
  /\ lock' = [lock EXCEPT ![Home[r]] = r]
  /\ run' = [run EXCEPT ![r].pc = "fetching"]
  /\ UNCHANGED <<chapter, late, starts, faults, torn>>

\* TranslationInProgressError, raised before the chapter's try block.
InProgress(r) ==
  /\ run[r].pc = "lock" /\ Refuses(Home[r])
  /\ run' = [run EXCEPT ![r] = Idle]
  /\ UNCHANGED <<chapter, lock, late, starts, faults, torn>>

\* x at pc, with what its call has read: the versions of the chapter's row,
\* before it writes them, and the checkpoint it restores.
At(x, pc) ==
  IF pc = "idle" THEN Idle
  ELSE [x EXCEPT !.pc = pc,
                 !.erred = IF x.pc = "mark" THEN st.erred ELSE @,
                 !.had = IF pc \in {"store", "putback"} THEN versions ELSE {},
                 !.back = IF pc = "putback" THEN Latest ELSE NoCheckpoint]

\* The run goes on at pc, and leaves the try block's finally with it.
GoTo(r, pc) ==
  /\ run' = [run EXCEPT ![r] = At(run[r], pc)]
  /\ lock' = IF pc = "idle" /\ run[r].pc \in Trying \cup Failing
             THEN [lock EXCEPT ![Home[r]] = Nobody] ELSE lock

Alone(r) == \A q \in Runs : (InSection(q) => q = r) /\ late[q] = Idle

\* A call returns.  The last write of a run that nothing interferes with
\* settles what an interrupted one has left.
Call(r) ==
  /\ run[r].pc \notin {"idle", "lock"}
  /\ Perform(run[r])
  /\ \E pc \in Following(run[r]) : GoTo(r, pc)
  /\ torn' = (torn /\ ~(run[r].pc \in {"reuse", "complete", "failed"} /\ Alone(r)))
  /\ UNCHANGED <<late, starts, faults>>

Fault == faults < MaxFaults /\ faults' = faults + 1
DbWrites == {"gate", "fetching", "translating", "reuse", "complete", "failed"}

\* _update_db_translation_state fails, and says so only in the log.
DbWriteLost(r) ==
  /\ run[r].pc \in DbWrites
  /\ Fault
  /\ \E pc \in Following(run[r]) : GoTo(r, pc)
  /\ torn' = TRUE
  /\ UNCHANGED <<chapter, late, starts>>

\* Faulty variant: what a call raises before the try block is handled there.
RaisedTo(r) == IF run[r].pc \in Trying \ DbWrites THEN "failed_state" ELSE "idle"

\* Another call raises: before the try block that ends the run, in it the
\* failure is recorded, and in the handler it ends the run too.
CallRaises(r) ==
  /\ InSection(r) /\ run[r].pc \notin DbWrites
  /\ Fault
  /\ GoTo(r, RaisedTo(r))
  /\ torn' = (torn \/ (RaisedTo(r) = "idle"))
  /\ UNCHANGED <<chapter, late, starts>>

\* CancelledError passes the handler; the call goes on in its thread.
Cancel(r) ==
  /\ run[r] # Idle /\ late[r] = Idle
  /\ Fault
  /\ late' = [late EXCEPT ![r] = IF run[r].pc \in {"lock", "delta", "pipeline"}
                                   THEN Idle ELSE run[r]]
  /\ GoTo(r, "idle")
  /\ torn' = TRUE
  /\ UNCHANGED <<chapter, starts>>

\* The call left behind goes on, to its end.
LateCall(r) ==
  /\ late[r] # Idle
  /\ Perform(late[r])
  /\ late' = [late EXCEPT ![r] =
       IF Following(late[r]) \subseteq {"store", "putback"}
       THEN At(late[r], CHOOSE pc \in Following(late[r]) : TRUE) ELSE Idle]
  /\ UNCHANGED <<lock, run, starts, faults, torn>>

\* The process dies, its lock and its threads with it.
Crash(p) ==
  /\ \E r \in Runs : Home[r] = p /\ run[r] # Idle
  /\ Fault
  /\ run' = [r \in Runs |-> IF Home[r] = p THEN Idle ELSE run[r]]
  /\ late' = [r \in Runs |-> IF Home[r] = p THEN Idle ELSE late[r]]
  /\ lock' = [lock EXCEPT ![p] = Nobody]
  /\ torn' = TRUE
  /\ UNCHANGED <<chapter, starts>>

\* A crawl activates a generation with a newer source.
Crawl ==
  /\ raw < MaxRaw
  /\ raw' = raw + 1
  /\ UNCHANGED <<active, versions, db, st, saved, chunks, lock, run, late, starts,
                 faults, torn>>

\* "Disposable local cache/checkpoint/log/scratch root".
RuntimeLost ==
  /\ st.state # "none" \/ chunks # 0
  /\ Fault
  /\ st' = State("none", FALSE)
  /\ saved' = [n \in Names |-> NoCheckpoint]
  /\ chunks' = 0
  /\ UNCHANGED <<raw, active, versions, db, lock, run, late, starts, torn>>

Next ==
  \/ \E r \in Runs :
       \/ StartRun(r) \/ AcquireLock(r) \/ InProgress(r) \/ Call(r)
       \/ DbWriteLost(r) \/ CallRaises(r) \/ Cancel(r) \/ LateCall(r)
  \/ \E p \in Processes : Crash(p)
  \/ Crawl \/ RuntimeLost

Spec == Init /\ [][Next]_vars

\* Calls return, and the event loop resumes who waits for them.
Fairness ==
  \A r \in Runs : WF_vars(AcquireLock(r) \/ InProgress(r) \/ Call(r)) /\ WF_vars(LateCall(r))

FairSpec == Spec /\ Fairness
-----------------------------------------------------------------------------
SingleProcess == \A q, r \in Runs : Home[q] = Home[r]

\* The lock serialises the runs of one process, crashes included.
Lock == INSTANCE ExclusiveUse WITH
  Resources <- Processes, Users <- Runs,
  using <- [p \in Processes |-> {r \in Runs : Home[r] = p /\ InSection(r)}]

OneAtATime == Lock!Spec

\* A chapter that is reported complete has a stored translation, wherever the
\* runs that wrote the one and the other were interrupted.
CompleteIsStored == db = "complete" => versions # {}

\* A run that goes on to report its chapter complete finds the translation of
\* its own source stored, unless an interrupted run's call still writes.
OwnVersionIsStored ==
  \A r \in Runs :
    run[r].pc \in {"state", "snapshot", "complete"} /\ SingleProcess /\ ~torn
      => run[r].raw \in versions

\* "A stale source text ... forces retranslation": what a run takes over
\* unchanged is the translation of the source it has loaded.
ReuseIsCurrent ==
  [][\A r \in Runs : run[r].pc # "reuse" /\ run'[r].pc = "reuse"
                        => active.of = run[r].raw]_run

\* A chapter shown as being worked on is worked on, unless an interruption
\* left it so; and a run that completes afterwards repairs that.
InProgressIsRunning ==
  db \in {"fetching", "translating"} => (torn \/ \E r \in Runs : InSection(r))

\* "The previous version is retained in the per-chapter overlay history".
EveryVersionKept == [][versions \subseteq versions']_versions

\* It is by the runs of one process, whose lock keeps their read-modify-writes
\* apart, while no call of an interrupted run is left behind.
VersionsKept ==
  [][SingleProcess /\ ~torn => versions \subseteq versions']_versions

\* Every run comes to an end.
EveryRunEnds == \A r \in Runs : run[r] # Idle ~> run[r] = Idle

\* A lock that is taken is some run's, which will release it.
LockIsReturned == \A p \in Processes : lock[p] # Nobody => InSection(lock[p])

\* "Raw checkpoint restores are refused while a generation snapshot is
\* active": runs do not change the source a crawl has activated.
RestoreKeepsSource == [][raw' >= raw]_raw
=============================================================================
