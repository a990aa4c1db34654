-------------------------- MODULE ChunkTranslation --------------------------
(***************************************************************************)
(* The chunks of one chapter under one run id: TranslateStage,             *)
(* TranslationQAStage and CacheFlushStage (translation/pipeline), the      *)
(* chunk states and outputs they store, and the executions that resume     *)
(* from them when an earlier one failed, was cancelled or crashed.         *)
(*                                                                         *)
(* The coroutines of a stage run concurrently: each is one worker, and     *)
(* what it does between two awaits is one action.  asyncio.gather raises   *)
(* the first exception of a worker and leaves its siblings running, beside *)
(* the handler of the failure and beside later executions.                 *)
(*                                                                         *)
(* A text of a chunk is the number of the provider call that made it.      *)
(* Executions are not forced (force_retranslate).                          *)
(***************************************************************************)
EXTENDS Naturals, Sequences, FiniteSets, SequencesExt

CONSTANTS Chunks,
          Executions,   \* how many executions of the run there may be
          MaxAttempts,  \* TRANSLATION_MAX_ATTEMPTS_PER_CHUNK
          MaxRetries,   \* LLM_QA_MAX_RETRY_ATTEMPTS
          Policy,       \* LLM_QA_POLICY
          MaxCalls,     \* bound on the provider calls for a chunk
          MaxFaults     \* bound on crashes, cancellations and lost updates

ASSUME ChunkAssumption ==
  /\ {Executions, MaxAttempts, MaxRetries, MaxCalls, MaxFaults} \subseteq Nat
  /\ Policy \in {"advisory", "blocking_retry", "review"}

Runs == 1..Executions
NoText == 0
Text == 0..MaxCalls

VARIABLES
  states,    \* chunk_states.json: the persisted state of each chunk
  outputs,   \* outputs.json: the outputs of each chunk, in order
  cache,     \* the translation cache: the text of each chunk, or NoText
  exec,      \* what each execution holds in memory
  foreign,   \* the file a writer of another chapter has read, as it read it
  calls,     \* how many provider calls were made for each chunk (history)
  rejected,  \* the texts QA has rejected, which leaves their chunk marked (history)
  scored,    \* the texts QA has rejected by their score alone (history)
  astray,    \* chunks whose files are not what their last writer left (history)
  faults

files == <<states, outputs>>
history == <<calls, rejected, scored, astray>>
vars == <<files, cache, exec, foreign, history, faults>>

Status == {"none", "translating", "translated", "needs_retry", "needs_review",
           "qa_failed", "failed"}
ChunkState == [status : Status, attempt : 0..MaxAttempts, retries : 0..MaxRetries,
               accepted : Text]
NoState == [status |-> "none", attempt |-> 0, retries |-> 0, accepted |-> NoText]

\* RETRY_MARKED_STATUSES
Marked == {"needs_retry", "needs_review", "qa_failed"}

Worker == [pc : {"off", "ready", "calling", "done", "resumed"}, text : Text]
Off == [pc |-> "off", text |-> NoText]
Ready == [pc |-> "ready", text |-> NoText]

NoExecution == [stage |-> "new", mem |-> [c \in Chunks |-> NoState],
                worker |-> [c \in Chunks |-> Off],
                pending |-> [c \in Chunks |-> NoText], seen |-> {}, loops |-> 0,
                snap |-> [c \in Chunks |-> NoState]]

Stages == {"new", "translate", "qa", "flush", "save", "failing", "handled", "over", "done"}

Output == [attempt : 0..MaxAttempts, text : Text]
NotRead == [file |-> "none", states |-> [c \in Chunks |-> NoState],
            outputs |-> [c \in Chunks |-> <<>>]]

TypeOK ==
  /\ states \in [Chunks -> ChunkState]
  /\ outputs \in [Chunks -> Seq(Output)]
  /\ cache \in [Chunks -> Text]
  /\ exec \in [Runs ->
       [stage : Stages, mem : [Chunks -> ChunkState], worker : [Chunks -> Worker],
        pending : [Chunks -> Text], seen : SUBSET Chunks, loops : 0..MaxRetries,
        snap : [Chunks -> ChunkState]]]
  /\ foreign \in [file : {"none", "states", "outputs"}, states : [Chunks -> ChunkState],
                  outputs : [Chunks -> Seq(Output)]]
  /\ calls \in [Chunks -> Nat]
  /\ rejected \subseteq Chunks \X Text /\ scored \subseteq Chunks \X Text
  /\ astray \subseteq Chunks
  /\ faults \in 0..MaxFaults

Init ==
  /\ states = [c \in Chunks |-> NoState]
  /\ outputs = [c \in Chunks |-> <<>>]
  /\ cache = [c \in Chunks |-> NoText]
  /\ exec = [e \in Runs |-> NoExecution]
  /\ foreign = NotRead
  /\ calls = [c \in Chunks |-> 0]
  /\ rejected = {}
  /\ scored = {}
  /\ astray = {}
  /\ faults = 0

Fault == faults < MaxFaults /\ faults' = faults + 1
-----------------------------------------------------------------------------
(* The stage begins, and each worker resumes or is ready for a call.       *)

\* load_persisted_chunk_states: the stored state wins, but does not take a
\* marker back.
Merged(mine, stored) ==
  IF stored.status = "none" THEN mine
  ELSE IF mine.status \in Marked /\ stored.status = "translated"
  THEN [stored EXCEPT !.status = mine.status]
  ELSE stored

\* Faulty variant: stored output is resumed whatever its chunk's status.
ResumesAny(state, list) ==
  IF list # <<>> THEN [pc |-> "resumed", text |-> Last(list).text] ELSE Ready

\* load_existing_chunk_output: the last output of a chunk in status translated.
Resumed(state, list) ==
  IF state.status = "translated" /\ list # <<>>
  THEN [pc |-> "resumed", text |-> Last(list).text]
  ELSE Ready

\* The beginning of TranslateStage.run, up to the first await of a worker.
Started(x) ==
  LET mem == [c \in Chunks |-> Merged(x.mem[c], states[c])]
  IN  [x EXCEPT !.stage = "translate", !.mem = mem, !.seen = {},
                !.worker = [c \in Chunks |-> Resumed(mem[c], outputs[c])]]

Alive(e, c) == exec[e].worker[c].pc \in {"ready", "calling"}

\* The next execution of the chapter, after the last one and its handler; a
\* chapter that is done is not translated again.
Begin(e) ==
  /\ exec[e].stage = "new"
  /\ \A d \in 1..(e - 1) : exec[d].stage = "over"
  /\ exec' = [exec EXCEPT ![e] = Started(NoExecution)]
  /\ astray' = astray \cup {c \in Chunks : \E d \in 1..(e - 1) : Alive(d, c)}
  /\ UNCHANGED <<files, cache, foreign, calls, rejected, scored, faults>>
-----------------------------------------------------------------------------
(* A worker.                                                               *)

\* What is left of an execution: its orphans and what they have in memory.
Remains(x) ==
  LET orphans == {c \in Chunks : x.worker[c].pc \in {"ready", "calling"}}
  IN  [NoExecution EXCEPT
        !.stage = "over",
        !.mem = [c \in Chunks |-> IF c \in orphans THEN x.mem[c] ELSE NoState],
        !.worker = [c \in Chunks |-> IF c \in orphans THEN x.worker[c] ELSE Off]]

\* A step of a worker; what an orphan that ends has in memory is gone.
WithWorker(x, c, state, worker) ==
  LET y == [x EXCEPT !.mem[c] = state, !.worker[c] = worker]
  IN  IF x.stage = "over" THEN Remains(y) ELSE y

\* A worker leaves its chunk in some state, in memory and in the file.
Persists(e, c, state, worker) ==
  /\ exec' = [exec EXCEPT ![e] = WithWorker(@, c, state, worker)]
  /\ states' = [states EXCEPT ![c] = state]

\* An exception fails the stage, unless it has failed before.
Raised(x, c, state) ==
  LET y == WithWorker(x, c, state, Off)
  IN  IF x.stage = "translate" THEN [y EXCEPT !.stage = "failing"] ELSE y

PersistsAndRaises(e, c, state) ==
  /\ exec' = [exec EXCEPT ![e] = Raised(@, c, state)]
  /\ states' = [states EXCEPT ![c] = state]

\* save_translation_output: an output is named by its attempt.
Stored(list, attempt, text) ==
  LET output == [attempt |-> attempt, text |-> text]
  IN  IF \E i \in DOMAIN list : list[i].attempt = attempt
      THEN [i \in DOMAIN list |-> IF list[i].attempt = attempt THEN output ELSE list[i]]
      ELSE Append(list, output)

SavesOutput(c, attempt, text) ==
  outputs' = [outputs EXCEPT ![c] = Stored(@, attempt, text)]

\* select_model finds no model available: SchedulerPausedError.  The limits are
\* shared by all chapters, so that any worker may meet them at any time.
Pause(e, c) ==
  /\ exec[e].worker[c].pc = "ready"
  /\ exec' = [exec EXCEPT ![e] = Raised(@, c, exec[e].mem[c])]
  /\ UNCHANGED <<files, cache, foreign, history, faults>>

\* select_model selects the model.
Selects(e, c) == exec[e].worker[c].pc = "ready"

\* Neither cache serves a chunk that is marked.
Hit(e, c) == cache[c] # NoText /\ exec[e].mem[c].status \notin Marked

CacheHit(e, c) ==
  /\ Selects(e, c) /\ Hit(e, c)
  /\ LET state == [exec[e].mem[c] EXCEPT !.status = "translated"] IN
       /\ Persists(e, c, state, [pc |-> "done", text |-> cache[c]])
       /\ SavesOutput(c, state.attempt, cache[c])
  /\ UNCHANGED <<cache, foreign, history, faults>>

\* Faulty variant: one attempt more than the setting says.
SpentLate(state) == state.attempt > MaxAttempts

Spent(state) == state.attempt >= MaxAttempts

\* max_attempts_exceeded
GiveUp(e, c) ==
  /\ Selects(e, c) /\ ~Hit(e, c) /\ Spent(exec[e].mem[c])
  /\ PersistsAndRaises(e, c, [exec[e].mem[c] EXCEPT !.status = "failed"])
  /\ UNCHANGED <<outputs, cache, foreign, history, faults>>

\* Faulty variant: the attempt has no status of its own.
AttemptingAsRunning(state) == [state EXCEPT !.status = "running", !.attempt = @ + 1]

\* The attempt is counted before the call.
Attempting(state) == [state EXCEPT !.status = "translating", !.attempt = @ + 1]

Call(e, c) ==
  /\ Selects(e, c) /\ ~Hit(e, c) /\ ~Spent(exec[e].mem[c])
  /\ calls[c] < MaxCalls
  /\ calls' = [calls EXCEPT ![c] = @ + 1]
  /\ Persists(e, c, Attempting(exec[e].mem[c]), [pc |-> "calling", text |-> calls[c] + 1])
  /\ UNCHANGED <<outputs, cache, foreign, rejected, scored, astray, faults>>

Translated(e, c) == [exec[e].mem[c] EXCEPT !.status = "translated"]

\* The provider answers: the state, then the output, is stored, and the text
\* waits for QA to be cached.
Answer(e, c) ==
  LET text == exec[e].worker[c].text IN
  /\ exec[e].worker[c].pc = "calling"
  /\ exec' = [exec EXCEPT ![e] =
       WithWorker([@ EXCEPT !.pending[c] = text], c, Translated(e, c),
                  [pc |-> "done", text |-> text])]
  /\ states' = [states EXCEPT ![c] = Translated(e, c)]
  /\ SavesOutput(c, exec[e].mem[c].attempt, text)
  /\ UNCHANGED <<cache, foreign, history, faults>>

\* The call fails or times out.  Rate limits, exhausted quotas, timeouts and
\* temporary errors are waited out until the deadline of the chunk, other
\* errors are raised.
CallFails(e, c) ==
  LET state == [exec[e].mem[c] EXCEPT !.status = "needs_retry"] IN
  /\ exec[e].worker[c].pc = "calling"
  /\ Persists(e, c, state, Ready) \/ PersistsAndRaises(e, c, state)
  /\ UNCHANGED <<outputs, cache, foreign, history, faults>>

-----------------------------------------------------------------------------
(* The stages after it.                                                    *)

Finished(x) == \A c \in Chunks : x.worker[c].pc \in {"done", "resumed"}

TranslateEnds(e) ==
  /\ exec[e].stage = "translate" /\ Finished(exec[e])
  /\ exec' = [exec EXCEPT ![e].stage = "qa"]
  /\ UNCHANGED <<files, cache, foreign, history, faults>>

\* The state of a chunk whose text the grader of LLM_QA finds too weak.
Weak(state) ==
  CASE Policy = "advisory" -> state
    [] Policy = "review" -> [state EXCEPT !.status = "needs_review"]
    [] state.retries < MaxRetries ->
         [state EXCEPT !.status = "needs_retry", !.retries = @ + 1]
    [] OTHER -> [state EXCEPT !.status = "needs_review"]

\* _stamp_accepted_attempt: the pending entry, if there is one.
Accepted(state, pending) ==
  [state EXCEPT !.status = "translated", !.accepted = IF pending = NoText THEN @ ELSE pending]

\* The states QA may leave a chunk in: the deterministic checks fail the text,
\* or the grader does or does not find it too weak.
Verdicts(state, pending) ==
  {[state EXCEPT !.status = "qa_failed"], Accepted(state, pending), Weak(Accepted(state, pending))}

\* One chunk is checked; the grader is awaited in between.
Check(e, c) ==
  LET x == exec[e] IN
  /\ x.stage = "qa" /\ c \notin x.seen
  /\ \E state \in Verdicts(x.mem[c], x.pending[c]) :
       /\ exec' = [exec EXCEPT ![e] =
            [x EXCEPT !.mem[c] = state, !.seen = @ \cup {c},
                      !.pending[c] = IF state.status \in Marked THEN NoText ELSE @]]
       /\ states' = [states EXCEPT ![c] = state]
       /\ rejected' = IF state.status \in Marked THEN rejected \cup {<<c, x.worker[c].text>>} ELSE rejected
  /\ UNCHANGED <<outputs, cache, foreign, calls, scored, astray, faults>>

\* QA raises while it checks a chunk: the answer of the grader holds no object,
\* or the text cannot be normalised.  What it has of that chunk is its own copy.
QaRaises(e) ==
  /\ exec[e].stage = "qa" /\ exec[e].seen # Chunks
  /\ exec' = [exec EXCEPT ![e].stage = "failing"]
  /\ UNCHANGED <<files, cache, foreign, history, faults>>

Holds(x, status) == \E c \in Chunks : x.mem[c].status = status

\* The chunks whose score may be under that of the chapter although they passed:
\* in a chapter of which two models have translated chunks, each loses 0.08.
LowScores(x) ==
  IF \E c, d \in Chunks : c # d
  THEN SUBSET {c \in Chunks : x.mem[c].status # "qa_failed"}
  ELSE {{}}

\* TranslationQAError, another round of both stages, or the next stage.  A chunk
\* whose score fails the stage is not marked for it.
QaEnds(e) ==
  LET x == exec[e] IN
  /\ x.stage = "qa" /\ x.seen = Chunks
  /\ \E low \in LowScores(x) :
       /\ exec' = [exec EXCEPT ![e] =
            IF low # {} \/ Holds(x, "qa_failed") THEN [x EXCEPT !.stage = "failing"]
            ELSE IF Policy = "blocking_retry" /\ Holds(x, "needs_retry") /\ x.loops < MaxRetries
            THEN Started([x EXCEPT !.loops = @ + 1])
            ELSE [x EXCEPT !.stage = "flush"]]
       /\ scored' = scored \cup
            {<<c, x.worker[c].text>> : c \in {k \in low : x.mem[k].status \notin Marked}}
  /\ UNCHANGED <<files, cache, foreign, calls, rejected, astray, faults>>

\* What CacheFlushStage writes for a chunk: the text of the accepted attempt.
Flushable(x, c) ==
  IF x.mem[c].status \notin Marked /\ x.pending[c] = x.mem[c].accepted
  THEN x.pending[c] ELSE NoText

Flush(e) ==
  /\ exec[e].stage = "flush"
  /\ cache' = [c \in Chunks |-> IF Flushable(exec[e], c) = NoText THEN cache[c]
                                ELSE Flushable(exec[e], c)]
  /\ exec' = [exec EXCEPT ![e].stage = "save"]
  /\ UNCHANGED <<files, foreign, history, faults>>

\* The chapter is stored, and its translation complete.
Save(e) ==
  /\ exec[e].stage = "save"
  /\ exec' = [exec EXCEPT ![e] = [NoExecution EXCEPT !.stage = "done"]]
  /\ UNCHANGED <<files, cache, foreign, history, faults>>
-----------------------------------------------------------------------------
(* Failures.                                                               *)

\* The handler of a failure takes the states of the chunks as they are, for a
\* thread to write; the record it adds for the failed chunk has no run id.
Handle(e) ==
  /\ exec[e].stage = "failing"
  /\ exec' = [exec EXCEPT ![e].stage = "handled", ![e].snap = exec[e].mem]
  /\ UNCHANGED <<files, cache, foreign, history, faults>>

\* Chunks whose count of attempts a write takes back.
TakenBack == {c \in Chunks : states'[c].attempt < states[c].attempt}

\* persist_progress_batch, over what orphans have persisted since.
HandlerWrites(e) ==
  /\ exec[e].stage = "handled"
  /\ states' = [c \in Chunks |-> IF exec[e].snap[c].status = "none" THEN states[c]
                                 ELSE exec[e].snap[c]]
  /\ astray' = astray \cup TakenBack
  /\ exec' = [exec EXCEPT ![e] = Remains(exec[e])]
  /\ UNCHANGED <<outputs, cache, foreign, calls, rejected, scored, faults>>

Running(x) == x.stage \notin {"new", "over", "done"}

\* The activity is cancelled, and with it the workers of its execution.
Cancel(e) ==
  /\ Running(exec[e]) /\ Fault
  /\ exec' = [exec EXCEPT ![e] = [NoExecution EXCEPT !.stage = "over"]]
  /\ UNCHANGED <<files, cache, foreign, history>>

\* The process ends, orphans included.
Ended ==
  [e \in Runs |-> [NoExecution EXCEPT
     !.stage = IF Running(exec[e]) THEN "over" ELSE exec[e].stage]]

Crash ==
  /\ Fault
  /\ exec' = Ended
  /\ UNCHANGED <<files, cache, foreign, history>>

\* A crash, or a failing write, after a state and before the output it is of.
AnswerLost(e, c) ==
  /\ exec[e].worker[c].pc = "calling" /\ Fault
  /\ \/ /\ exec' = Ended
        /\ states' = [states EXCEPT ![c] = Translated(e, c)]
     \/ PersistsAndRaises(e, c, Translated(e, c))
  /\ astray' = astray \cup {c}
  /\ UNCHANGED <<outputs, cache, foreign, calls, rejected, scored>>

\* Each file holds the chunks of all chapters, and is read, changed and written
\* as a whole: a thread or a process that works on another chapter, or adds what
\* QA found to the outputs, reads one,
ForeignRead ==
  /\ foreign = NotRead /\ Fault
  /\ foreign' \in {[NotRead EXCEPT !.file = "states", !.states = states],
                  [NotRead EXCEPT !.file = "outputs", !.outputs = outputs]}
  /\ UNCHANGED <<files, cache, exec, history>>

\* and writes back what it has read.
ForeignWrite ==
  /\ \/ foreign.file = "states" /\ states' = foreign.states /\ UNCHANGED outputs
     \/ foreign.file = "outputs" /\ outputs' = foreign.outputs /\ UNCHANGED states
  /\ astray' = astray \cup {c \in Chunks : <<states'[c], outputs'[c]>> # <<states[c], outputs[c]>>}
  /\ foreign' = NotRead
  /\ UNCHANGED <<cache, exec, calls, rejected, scored, faults>>

Next ==
  \/ \E e \in Runs, c \in Chunks :
       \/ Pause(e, c) \/ CacheHit(e, c) \/ GiveUp(e, c) \/ Call(e, c)
       \/ Answer(e, c) \/ CallFails(e, c) \/ AnswerLost(e, c) \/ Check(e, c)
  \/ \E e \in Runs :
       \/ Begin(e) \/ TranslateEnds(e) \/ QaRaises(e) \/ QaEnds(e) \/ Flush(e) \/ Save(e)
       \/ Handle(e) \/ HandlerWrites(e) \/ Cancel(e)
  \/ Crash \/ ForeignRead \/ ForeignWrite

Spec == Init /\ [][Next]_vars
-----------------------------------------------------------------------------
\* All executions of a run together, crashed and cancelled ones included, call
\* the provider for a chunk at most max_attempts times, unless an orphan works
\* on the chunk beside them or its files have lost a write.
CallsBounded == \A c \in Chunks : c \notin astray => calls[c] <= MaxAttempts

\* A text QA has rejected, by its score or otherwise, is never written to the
\* cache by a later step, and no execution resumes from one whose chunk it has
\* marked, unless the files of the chunk have lost a write or were written by an
\* orphan, or the translation cache holds it.
\* (A chunk loses its marker when an attempt begins or it is given up.  If that
\* execution then ends, the cache serves the text it got before the rejection.)
RejectedStaysOut ==
  [][\A c \in Chunks :
       /\ cache'[c] # cache[c] => <<c, cache'[c]>> \notin rejected \cup scored
       /\ \A e \in Runs : LET worker == exec'[e].worker[c] IN
            /\ worker.pc = "resumed"
            /\ worker # exec[e].worker[c]
            => \/ c \in astray' \/ worker.text = cache[c]
               \/ <<c, worker.text>> \notin rejected]_vars

\* No output QA has rejected is resumed: "A persisted marker guarantees the chunk
\* is re-translated with a fresh provider request instead of being resumed from
\* rejected output".  A text rejected by its score leaves no marker.
RejectedIsRetranslated ==
  [][\A c \in Chunks, e \in Runs :
       /\ exec'[e].worker[c].pc = "resumed"
       /\ exec'[e].worker[c] # exec[e].worker[c]
       => <<c, exec'[e].worker[c].text>> \notin rejected \cup scored]_vars
=============================================================================
