----------------------- MODULE ChunkTranslationProofs -----------------------
(***************************************************************************)
(* For any number of chunks, executions, attempts, retries and faults, and *)
(* for each policy of QA: the type invariant of ChunkTranslation, that all *)
(* executions of a run together keep to the attempts of a chunk, and that  *)
(* a text QA has rejected stays out of the cache, and one whose chunk it   *)
(* has marked out of later executions.                                     *)
(***************************************************************************)
EXTENDS ChunkTranslation, TLAPS

Execution ==
  [stage : Stages, mem : [Chunks -> ChunkState], worker : [Chunks -> Worker],
   pending : [Chunks -> Text], seen : SUBSET Chunks, loops : 0..MaxRetries,
   snap : [Chunks -> ChunkState]]

Attempt == 0..MaxAttempts
-----------------------------------------------------------------------------
(* Types.                                                                  *)

LEMMA Numbers ==
  /\ MaxAttempts \in Nat /\ MaxRetries \in Nat /\ MaxCalls \in Nat
  /\ MaxFaults \in Nat /\ Executions \in Nat
BY ChunkAssumption

LEMMA BasicTypes ==
  /\ NoState \in ChunkState /\ Off \in Worker /\ Ready \in Worker
  /\ NoExecution \in Execution
  /\ NoText \in Text
<1>1. NoState \in ChunkState /\ Off \in Worker /\ Ready \in Worker /\ NoText \in Text
  BY Numbers DEF NoState, ChunkState, Status, Off, Ready, Worker, Text, NoText
<1>2. [c \in Chunks |-> NoState] \in [Chunks -> ChunkState]
  BY <1>1
<1>3. [c \in Chunks |-> Off] \in [Chunks -> Worker]
  BY <1>1
<1>4. [c \in Chunks |-> NoText] \in [Chunks -> Text]
  BY <1>1
<1> QED
  BY <1>1, <1>2, <1>3, <1>4, Numbers DEF NoExecution, Execution, Stages

LEMMA LastOutput ==
  ASSUME NEW list \in Seq(Output), list # <<>>
  PROVE  /\ Last(list) = list[Len(list)] /\ Len(list) \in DOMAIN list
         /\ Last(list) \in Output /\ Last(list).text \in Text
<1>1. Len(list) \in Nat \ {0} /\ DOMAIN list = 1..Len(list)
  OBVIOUS
<1>2. Last(list) = list[Len(list)]
  BY DEF Last
<1>3. list[Len(list)] \in Output
  BY <1>1
<1> QED
  BY <1>1, <1>2, <1>3 DEF Output

LEMMA StoredTypes ==
  ASSUME NEW list \in Seq(Output), NEW attempt \in Attempt, NEW text \in Text
  PROVE  Stored(list, attempt, text) \in Seq(Output)
<1> DEFINE output == [attempt |-> attempt, text |-> text]
<1>1. output \in Output
  BY DEF Output, Attempt
<1>2. CASE \E i \in DOMAIN list : list[i].attempt = attempt
  <2> DEFINE new == [i \in DOMAIN list |-> IF list[i].attempt = attempt THEN output ELSE list[i]]
  <2>1. new \in [1..Len(list) -> Output]
    BY <1>1
  <2>2. new \in Seq(Output)
    BY <2>1
  <2> QED
    BY <1>2, <2>2 DEF Stored
<1>3. CASE ~ \E i \in DOMAIN list : list[i].attempt = attempt
  BY <1>1, <1>3 DEF Stored
<1> QED
  BY <1>2, <1>3

LEMMA RemainsType ==
  ASSUME NEW x \in Execution
  PROVE  /\ Remains(x) \in Execution
         /\ Remains(x).stage = "over" /\ Remains(x).seen = {}
         /\ \A c \in Chunks :
              /\ Remains(x).pending[c] = NoText
              /\ Remains(x).mem[c] = IF x.worker[c].pc \in {"ready", "calling"}
                                     THEN x.mem[c] ELSE NoState
              /\ Remains(x).worker[c] = IF x.worker[c].pc \in {"ready", "calling"}
                                        THEN x.worker[c] ELSE Off
<1> DEFINE alive(c) == x.worker[c].pc \in {"ready", "calling"}
           mem == [c \in Chunks |-> IF alive(c) THEN x.mem[c] ELSE NoState]
           worker == [c \in Chunks |-> IF alive(c) THEN x.worker[c] ELSE Off]
<1>1. mem \in [Chunks -> ChunkState] /\ worker \in [Chunks -> Worker]
  BY BasicTypes DEF Execution
<1>2. Remains(x) = [NoExecution EXCEPT !.stage = "over", !.mem = mem, !.worker = worker]
  BY DEF Remains
<1> HIDE DEF mem, worker
<1>3. /\ Remains(x) \in Execution
      /\ Remains(x).stage = "over" /\ Remains(x).seen = {}
      /\ Remains(x).mem = mem /\ Remains(x).worker = worker
      /\ Remains(x).pending = [c \in Chunks |-> NoText]
  BY <1>1, <1>2, BasicTypes DEF Execution, NoExecution, Stages
<1> QED
  BY <1>3 DEF mem, worker

\* A step of a worker of execution x takes it to y: what becomes of the worker
\* and of its chunk c, and that nothing becomes of the others.
Moved(x, y, c, state, w, p) ==
  /\ y.stage = IF w = Off /\ x.stage = "translate" THEN "failing" ELSE x.stage
  /\ \A d \in Chunks \ {c} :
       y.mem[d] = x.mem[d] /\ y.worker[d] = x.worker[d] /\ y.pending[d] = x.pending[d]
  /\ x.stage # "over" => y.seen = x.seen /\ y.snap = x.snap
  /\ IF x.stage = "over" /\ w.pc \notin {"ready", "calling"}
     THEN y.mem[c] = NoState /\ y.worker[c] = Off
     ELSE y.mem[c] = state /\ y.worker[c] = w
  /\ y.pending[c] = IF x.stage = "over" THEN NoText ELSE p

Settled(x) ==
  x.stage = "over" =>
    \A c \in Chunks :
      /\ x.pending[c] = NoText
      /\ x.worker[c].pc \notin {"ready", "calling"} =>
           x.worker[c] = Off /\ x.mem[c] = NoState

LEMMA WithWorkerMoves ==
  ASSUME NEW x \in Execution, Settled(x), NEW c \in Chunks, NEW state \in ChunkState,
         NEW w \in Worker, w # Off, NEW p \in Text
  PROVE  /\ WithWorker([x EXCEPT !.pending[c] = p], c, state, w) \in Execution
         /\ Moved(x, WithWorker([x EXCEPT !.pending[c] = p], c, state, w), c, state, w, p)
<1> DEFINE y == [x EXCEPT !.pending[c] = p, !.mem[c] = state, !.worker[c] = w]
<1>1. /\ y \in Execution
      /\ y.stage = x.stage /\ y.seen = x.seen /\ y.snap = x.snap
      /\ y.mem = [x.mem EXCEPT ![c] = state]
      /\ y.worker = [x.worker EXCEPT ![c] = w]
      /\ y.pending = [x.pending EXCEPT ![c] = p]
  BY DEF Execution
<1>2. WithWorker([x EXCEPT !.pending[c] = p], c, state, w)
        = IF x.stage = "over" THEN Remains(y) ELSE y
  BY DEF WithWorker, Execution
<1> HIDE DEF y
<1>3. /\ y.mem[c] = state /\ y.worker[c] = w /\ y.pending[c] = p
      /\ \A d \in Chunks \ {c} :
           y.mem[d] = x.mem[d] /\ y.worker[d] = x.worker[d] /\ y.pending[d] = x.pending[d]
  BY <1>1 DEF Execution
<1>4. CASE x.stage # "over"
  <2>1. Moved(x, y, c, state, w, p)
    BY <1>1, <1>3, <1>4 DEF Moved
  <2> QED
    BY <1>1, <1>2, <1>4, <2>1
<1>5. CASE x.stage = "over"
  <2>1. PICK z : z = Remains(y)
    OBVIOUS
  <2>2. /\ z \in Execution /\ z.stage = "over"
        /\ \A d \in Chunks :
             /\ z.pending[d] = NoText
             /\ z.mem[d] = IF y.worker[d].pc \in {"ready", "calling"} THEN y.mem[d] ELSE NoState
             /\ z.worker[d] = IF y.worker[d].pc \in {"ready", "calling"} THEN y.worker[d] ELSE Off
    BY <1>1, <2>1, RemainsType
  <2>3. \A d \in Chunks \ {c} :
          z.mem[d] = x.mem[d] /\ z.worker[d] = x.worker[d] /\ z.pending[d] = x.pending[d]
    BY <1>3, <1>5, <2>2 DEF Settled
  <2>4. Moved(x, z, c, state, w, p)
    BY <1>3, <1>5, <2>2, <2>3 DEF Moved
  <2> QED
    BY <1>2, <1>5, <2>1, <2>2, <2>4
<1> QED
  BY <1>4, <1>5

LEMMA RaisedMoves ==
  ASSUME NEW x \in Execution, Settled(x), NEW c \in Chunks, NEW state \in ChunkState
  PROVE  /\ Raised(x, c, state) \in Execution
         /\ Moved(x, Raised(x, c, state), c, state, Off, x.pending[c])
<1> DEFINE y == [x EXCEPT !.mem[c] = state, !.worker[c] = Off]
<1>1. /\ y \in Execution
      /\ y.stage = x.stage /\ y.seen = x.seen /\ y.snap = x.snap /\ y.pending = x.pending
      /\ y.mem = [x.mem EXCEPT ![c] = state]
      /\ y.worker = [x.worker EXCEPT ![c] = Off]
  BY BasicTypes DEF Execution
<1>2. WithWorker(x, c, state, Off) = IF x.stage = "over" THEN Remains(y) ELSE y
  BY DEF WithWorker, Execution
<1>3. Raised(x, c, state) = IF x.stage = "over" THEN Remains(y)
                            ELSE IF x.stage = "translate" THEN [y EXCEPT !.stage = "failing"]
                            ELSE y
  BY <1>2 DEF Raised
<1> HIDE DEF y
<1>4. /\ y.mem[c] = state /\ y.worker[c] = Off /\ y.pending[c] = x.pending[c]
      /\ \A d \in Chunks \ {c} :
           y.mem[d] = x.mem[d] /\ y.worker[d] = x.worker[d] /\ y.pending[d] = x.pending[d]
  BY <1>1 DEF Execution
<1>5. CASE x.stage = "over"
  <2>1. PICK z : z = Remains(y)
    OBVIOUS
  <2>2. /\ z \in Execution /\ z.stage = "over"
        /\ \A d \in Chunks :
             /\ z.pending[d] = NoText
             /\ z.mem[d] = IF y.worker[d].pc \in {"ready", "calling"} THEN y.mem[d] ELSE NoState
             /\ z.worker[d] = IF y.worker[d].pc \in {"ready", "calling"} THEN y.worker[d] ELSE Off
    BY <1>1, <2>1, RemainsType
  <2>3. \A d \in Chunks \ {c} :
          z.mem[d] = x.mem[d] /\ z.worker[d] = x.worker[d] /\ z.pending[d] = x.pending[d]
    BY <1>4, <1>5, <2>2 DEF Settled
  <2>4. z.mem[c] = NoState /\ z.worker[c] = Off
    BY <1>4, <2>2 DEF Off
  <2>5. Moved(x, z, c, state, Off, x.pending[c])
    BY <1>5, <2>2, <2>3, <2>4 DEF Moved, Off
  <2> QED
    BY <1>3, <1>5, <2>1, <2>2, <2>5
<1>6. CASE x.stage = "translate"
  BY <1>1, <1>3, <1>6 DEF Moved, Execution, Stages
<1>7. CASE x.stage \notin {"over", "translate"}
  <2>1. Moved(x, y, c, state, Off, x.pending[c])
    BY <1>1, <1>4, <1>7 DEF Moved
  <2> QED
    BY <1>1, <1>3, <1>7, <2>1
<1> QED
  BY <1>5, <1>6, <1>7
-----------------------------------------------------------------------------
(* The shape of the executions: they follow one another, and only one that *)
(* translates or has failed has workers under way.                         *)

InOrder ==
  \A d, e \in Runs : d < e /\ exec[e].stage # "new" => exec[d].stage = "over"

Shaped(x, c) ==
  /\ x.worker[c].pc \in {"ready", "calling"} =>
       x.stage \in {"translate", "failing", "handled", "over"}
  /\ x.stage \in {"new", "over", "done"} => x.pending[c] = NoText
  /\ x.stage = "over" /\ x.worker[c].pc \notin {"ready", "calling"} =>
       x.worker[c] = Off /\ x.mem[c] = NoState

Shape == \A e \in Runs, c \in Chunks : Shaped(exec[e], c)

Typed == TypeOK /\ Shape

WorkerStep(e, c, state, w, p) ==
  \E y \in Execution : Moved(exec[e], y, c, state, w, p) /\ exec' = [exec EXCEPT ![e] = y]

LEMMA Types ==
  ASSUME TypeOK
  PROVE  /\ exec \in [Runs -> Execution]
         /\ \A e \in Runs : exec[e] \in Execution
         /\ \A e \in Runs, c \in Chunks :
              /\ exec[e].mem[c] \in ChunkState /\ exec[e].snap[c] \in ChunkState
              /\ exec[e].worker[c] \in Worker /\ exec[e].pending[c] \in Text
              /\ exec[e].worker[c].text \in Text
         /\ \A c \in Chunks : /\ states[c] \in ChunkState /\ outputs[c] \in Seq(Output)
                              /\ cache[c] \in Text /\ calls[c] \in Nat
<1>1. exec \in [Runs -> Execution]
  BY DEF TypeOK, Execution
<1>2. \A e \in Runs : exec[e] \in Execution
  BY <1>1
<1>3. \A e \in Runs, c \in Chunks :
         /\ exec[e].mem[c] \in ChunkState /\ exec[e].snap[c] \in ChunkState
         /\ exec[e].worker[c] \in Worker /\ exec[e].pending[c] \in Text
  BY <1>2 DEF Execution
<1>4. \A e \in Runs, c \in Chunks : exec[e].worker[c].text \in Text
  BY <1>3 DEF Worker
<1> QED
  BY <1>1, <1>2, <1>3, <1>4 DEF TypeOK

LEMMA Settling ==
  ASSUME TypeOK, Shape, NEW e \in Runs
  PROVE  Settled(exec[e])
BY DEF Shape, Shaped, Settled, Alive

\* A worker that keeps what waits for QA, and one whose text is to wait for it.
LEMMA Working ==
  ASSUME TypeOK, Shape, NEW e \in Runs, NEW c \in Chunks, NEW state \in ChunkState,
         NEW w \in Worker, w # Off,
         exec' = [exec EXCEPT ![e] = WithWorker(@, c, state, w)]
  PROVE  WorkerStep(e, c, state, w, exec[e].pending[c])
<1>1. exec[e] \in Execution /\ exec[e].pending[c] \in Text
  BY Types
<1>2. [exec[e] EXCEPT !.pending[c] = exec[e].pending[c]] = exec[e]
  BY <1>1 DEF Execution
<1>3. exec' = [exec EXCEPT ![e] = WithWorker(exec[e], c, state, w)]
  OBVIOUS
<1> QED
  BY <1>1, <1>2, <1>3, Settling, WithWorkerMoves DEF WorkerStep

LEMMA Raising ==
  ASSUME TypeOK, Shape, NEW e \in Runs, NEW c \in Chunks, NEW state \in ChunkState,
         exec' = [exec EXCEPT ![e] = Raised(@, c, state)]
  PROVE  WorkerStep(e, c, state, Off, exec[e].pending[c])
<1>1. exec[e] \in Execution
  BY Types
<1>2. exec' = [exec EXCEPT ![e] = Raised(exec[e], c, state)]
  OBVIOUS
<1> QED
  BY <1>1, <1>2, Settling, RaisedMoves DEF WorkerStep

LEMMA WorkerStates ==
  ASSUME TypeOK, NEW e \in Runs, NEW c \in Chunks
  PROVE  /\ \A status \in Status :
              /\ [exec[e].mem[c] EXCEPT !.status = status] \in ChunkState
              /\ [exec[e].mem[c] EXCEPT !.status = status].attempt = exec[e].mem[c].attempt
              /\ [exec[e].mem[c] EXCEPT !.status = status].status = status
         /\ ~Spent(exec[e].mem[c]) => Attempting(exec[e].mem[c]) \in ChunkState
<1>1. PICK s \in ChunkState : s = exec[e].mem[c]
  BY Types
<1>2. \A status \in Status :
        /\ [s EXCEPT !.status = status] \in ChunkState
        /\ [s EXCEPT !.status = status].attempt = s.attempt
        /\ [s EXCEPT !.status = status].status = status
  BY DEF ChunkState
<1>3. ASSUME ~Spent(s) PROVE Attempting(s) \in ChunkState
  <2>1. s.attempt + 1 \in Attempt
    BY <1>3, Numbers DEF Spent, ChunkState, Attempt
  <2> QED
    BY <2>1 DEF Attempting, ChunkState, Status, Attempt
<1> QED
  BY <1>1, <1>2, <1>3

LEMMA TranslatedIs ==
  ASSUME TypeOK, NEW e \in Runs, NEW c \in Chunks
  PROVE  /\ Translated(e, c) \in ChunkState
         /\ Translated(e, c).attempt = exec[e].mem[c].attempt
         /\ Translated(e, c).status = "translated"
BY WorkerStates DEF Translated, Status

LEMMA PauseMoves ==
  ASSUME Typed, NEW e \in Runs, NEW c \in Chunks, Pause(e, c)
  PROVE  WorkerStep(e, c, exec[e].mem[c], Off, exec[e].pending[c])
BY Types, Raising DEF Pause, Typed

LEMMA CacheHitMoves ==
  ASSUME Typed, NEW e \in Runs, NEW c \in Chunks, CacheHit(e, c)
  PROVE  WorkerStep(e, c, Translated(e, c), [pc |-> "done", text |-> cache[c]],
                    exec[e].pending[c])
<1>1. Translated(e, c) \in ChunkState
  BY WorkerStates DEF Status, Translated, Typed
<1>2. [pc |-> "done", text |-> cache[c]] \in Worker /\ [pc |-> "done", text |-> cache[c]] # Off
  BY Types DEF Worker, Off, Typed
<1> QED
  BY <1>1, <1>2, Working DEF CacheHit, Persists, Translated, Typed

LEMMA GiveUpMoves ==
  ASSUME Typed, NEW e \in Runs, NEW c \in Chunks, GiveUp(e, c)
  PROVE  WorkerStep(e, c, [exec[e].mem[c] EXCEPT !.status = "failed"], Off, exec[e].pending[c])
<1>1. [exec[e].mem[c] EXCEPT !.status = "failed"] \in ChunkState
  BY WorkerStates DEF Status, Typed
<1> QED
  BY <1>1, Raising DEF GiveUp, PersistsAndRaises, Typed

LEMMA CallMoves ==
  ASSUME Typed, NEW e \in Runs, NEW c \in Chunks, Call(e, c)
  PROVE  WorkerStep(e, c, Attempting(exec[e].mem[c]),
                    [pc |-> "calling", text |-> calls[c] + 1], exec[e].pending[c])
<1>1. Attempting(exec[e].mem[c]) \in ChunkState
  BY WorkerStates DEF Call, Typed
<1>2. calls[c] + 1 \in Text
  BY Types, Numbers DEF Call, Text, Typed
<1>3. /\ [pc |-> "calling", text |-> calls[c] + 1] \in Worker
      /\ [pc |-> "calling", text |-> calls[c] + 1] # Off
  BY <1>2 DEF Worker, Off
<1> QED
  BY <1>1, <1>3, Working DEF Call, Persists, Typed

LEMMA AnswerMoves ==
  ASSUME Typed, NEW e \in Runs, NEW c \in Chunks, Answer(e, c)
  PROVE  WorkerStep(e, c, Translated(e, c), [pc |-> "done", text |-> exec[e].worker[c].text],
                    exec[e].worker[c].text)
<1> DEFINE text == exec[e].worker[c].text
           w == [pc |-> "done", text |-> text]
<1>1. Translated(e, c) \in ChunkState
  BY WorkerStates DEF Status, Translated, Typed
<1>2. exec[e] \in Execution /\ text \in Text /\ w \in Worker /\ w # Off
  BY Types DEF Worker, Off, Typed
<1>3. exec' = [exec EXCEPT ![e] = WithWorker([exec[e] EXCEPT !.pending[c] = text], c,
                                             Translated(e, c), w)]
  BY DEF Answer
<1> QED
  BY <1>1, <1>2, <1>3, Settling, WithWorkerMoves DEF WorkerStep, Typed

LEMMA CallFailsMoves ==
  ASSUME Typed, NEW e \in Runs, NEW c \in Chunks, CallFails(e, c)
  PROVE  \E w \in {Ready, Off} :
           WorkerStep(e, c, [exec[e].mem[c] EXCEPT !.status = "needs_retry"], w, exec[e].pending[c])
<1> DEFINE state == [exec[e].mem[c] EXCEPT !.status = "needs_retry"]
<1>1. state \in ChunkState
  BY WorkerStates DEF Status, Typed
<1> SUFFICES \E w \in {Ready, Off} : WorkerStep(e, c, state, w, exec[e].pending[c])
  OBVIOUS
<1> HIDE DEF state
<1>2. CASE exec' = [exec EXCEPT ![e] = WithWorker(@, c, state, Ready)]
  <2>1. Ready \in Worker /\ Ready # Off
    BY BasicTypes DEF Ready, Off
  <2> QED
    BY <1>1, <1>2, <2>1, Working DEF Typed
<1>3. CASE exec' = [exec EXCEPT ![e] = Raised(@, c, state)]
  BY <1>1, <1>3, Raising DEF Typed
<1> QED
  BY <1>2, <1>3 DEF CallFails, Persists, PersistsAndRaises, state

LEMMA RaisesMoves ==
  ASSUME Typed, NEW e \in Runs, NEW c \in Chunks, PersistsAndRaises(e, c, Translated(e, c))
  PROVE  WorkerStep(e, c, Translated(e, c), Off, exec[e].pending[c])
<1>1. Translated(e, c) \in ChunkState
  BY WorkerStates DEF Status, Translated, Typed
<1> QED
  BY <1>1, Raising DEF PersistsAndRaises, Typed

LEMMA WorkerStepShape ==
  ASSUME Typed, InOrder, NEW e \in Runs, NEW c \in Chunks, Alive(e, c),
         NEW state \in ChunkState, NEW w \in Worker, NEW p \in Text,
         WorkerStep(e, c, state, w, p)
  PROVE  exec' \in [Runs -> Execution] /\ InOrder' /\ Shape'
<1>1. PICK y \in Execution : Moved(exec[e], y, c, state, w, p) /\ exec' = [exec EXCEPT ![e] = y]
  BY DEF WorkerStep
<1>2. exec \in [Runs -> Execution] /\ exec[e] \in Execution
  BY Types DEF Typed
<1>3. exec' \in [Runs -> Execution] /\ exec'[e] = y /\ \A d \in Runs \ {e} : exec'[d] = exec[d]
  BY <1>1, <1>2
<1>4. exec[e].stage \in {"translate", "failing", "handled", "over"}
  BY DEF Typed, Shape, Shaped, Alive
<1>5. InOrder'
  BY <1>1, <1>3, <1>4 DEF InOrder, Moved
<1>6. ASSUME NEW d \in Runs, NEW k \in Chunks PROVE Shaped(exec[d], k)'
  <2>1. Shaped(exec[d], k)
    BY DEF Typed, Shape
  <2>2. CASE d # e
    BY <1>3, <2>1, <2>2 DEF Shaped, Alive
  <2>3. CASE d = e /\ k # c
    BY <1>1, <1>3, <1>4, <2>1, <2>3 DEF Shaped, Alive, Moved
  <2>4. CASE d = e /\ k = c
    BY <1>1, <1>3, <1>4, <2>4 DEF Shaped, Alive, Moved
  <2> QED
    BY <2>2, <2>3, <2>4
<1> QED
  BY <1>3, <1>5, <1>6 DEF Shape

-----------------------------------------------------------------------------
(* The stages.                                                             *)

LEMMA MergedType ==
  ASSUME NEW mine \in ChunkState, NEW stored \in ChunkState
  PROVE  /\ Merged(mine, stored) \in ChunkState
         /\ mine = stored \/ (mine = NoState /\ (stored.status = "none" => stored = NoState))
              => Merged(mine, stored) = stored
<1>1. [stored EXCEPT !.status = mine.status] \in ChunkState
  BY DEF ChunkState
<1>2. Merged(mine, stored) \in ChunkState
  BY <1>1 DEF Merged
<1>3. CASE mine = stored
  <2>1. ~ (mine.status \in Marked /\ stored.status = "translated")
    BY <1>3 DEF Marked
  <2> QED
    BY <1>2, <1>3, <2>1 DEF Merged
<1>4. CASE mine = NoState /\ (stored.status = "none" => stored = NoState)
  <2>1. mine.status \notin Marked
    BY <1>4 DEF NoState, Marked
  <2> QED
    BY <1>2, <1>4, <2>1 DEF Merged
<1> QED
  BY <1>2, <1>3, <1>4

LEMMA ResumedType ==
  ASSUME NEW state \in ChunkState, NEW list \in Seq(Output)
  PROVE  /\ Resumed(state, list) \in Worker
         /\ IF state.status = "translated" /\ list # <<>>
            THEN Resumed(state, list) = [pc |-> "resumed", text |-> Last(list).text]
            ELSE Resumed(state, list) = Ready
<1>1. CASE state.status = "translated" /\ list # <<>>
  BY <1>1, LastOutput DEF Resumed, Worker
<1>2. CASE ~ (state.status = "translated" /\ list # <<>>)
  BY <1>2, BasicTypes DEF Resumed
<1> QED
  BY <1>1, <1>2

LEMMA StartedIs ==
  ASSUME TypeOK, NEW x \in Execution
  PROVE  /\ Started(x) \in Execution
         /\ Started(x).stage = "translate" /\ Started(x).seen = {}
         /\ Started(x).pending = x.pending
         /\ \A c \in Chunks :
              /\ Merged(x.mem[c], states[c]) \in ChunkState
              /\ Started(x).mem[c] = Merged(x.mem[c], states[c])
              /\ Started(x).worker[c] = Resumed(Merged(x.mem[c], states[c]), outputs[c])
<1> DEFINE mem == [c \in Chunks |-> Merged(x.mem[c], states[c])]
           worker == [c \in Chunks |-> Resumed(mem[c], outputs[c])]
<1>1. mem \in [Chunks -> ChunkState]
  BY Types, MergedType DEF Execution
<1>2. worker \in [Chunks -> Worker]
  BY <1>1, Types, ResumedType
<1>3. Started(x) = [x EXCEPT !.stage = "translate", !.mem = mem, !.seen = {}, !.worker = worker]
  BY DEF Started
<1>4. \A c \in Chunks : /\ mem[c] = Merged(x.mem[c], states[c])
                        /\ worker[c] = Resumed(mem[c], outputs[c])
  OBVIOUS
<1> HIDE DEF mem, worker
<1>5. /\ Started(x) \in Execution
      /\ Started(x).stage = "translate" /\ Started(x).seen = {}
      /\ Started(x).pending = x.pending
      /\ Started(x).mem = mem /\ Started(x).worker = worker
  BY <1>1, <1>2, <1>3 DEF Execution, Stages
<1>6. \A c \in Chunks : mem[c] \in ChunkState
  BY <1>1
<1> QED
  BY <1>4, <1>5, <1>6

LEMMA VerdictTypes ==
  ASSUME NEW state \in ChunkState, NEW pending \in Text, NEW verdict \in Verdicts(state, pending)
  PROVE  /\ verdict \in ChunkState /\ verdict.attempt = state.attempt
         /\ verdict.status = "translated" \/ verdict.status \in Marked
<1> DEFINE good == Accepted(state, pending)
<1>1. good \in ChunkState /\ good.attempt = state.attempt /\ good.status = "translated"
  BY DEF Accepted, ChunkState, Status
<1>2. CASE verdict = [state EXCEPT !.status = "qa_failed"]
  BY <1>2 DEF ChunkState, Status, Marked
<1>3. CASE verdict = good
  BY <1>1, <1>3
<1>4. CASE verdict = Weak(good)
  <2>1. PICK g \in ChunkState : g = good /\ g.attempt = state.attempt /\ g.status = "translated"
    BY <1>1
  <2>2. \A status \in Marked :
           /\ [g EXCEPT !.status = status] \in ChunkState
           /\ [g EXCEPT !.status = status].attempt = g.attempt
           /\ [g EXCEPT !.status = status].status = status
    BY DEF ChunkState, Status, Marked
  <2>3. g.retries < MaxRetries =>
           LET r == [g EXCEPT !.status = "needs_retry", !.retries = @ + 1] IN
           r \in ChunkState /\ r.attempt = g.attempt /\ r.status = "needs_retry"
    <3>1. g.retries < MaxRetries => g.retries + 1 \in 0..MaxRetries
      BY Numbers DEF ChunkState
    <3> QED
      BY <3>1 DEF ChunkState, Status
  <2>4. \/ Weak(g) = g
        \/ Weak(g) = [g EXCEPT !.status = "needs_review"]
        \/ /\ g.retries < MaxRetries
           /\ Weak(g) = [g EXCEPT !.status = "needs_retry", !.retries = @ + 1]
    BY ChunkAssumption DEF Weak
  <2>5. verdict = Weak(g)
    BY <1>4, <2>1
  <2> HIDE DEF good
  <2> QED
    BY <2>1, <2>2, <2>3, <2>4, <2>5 DEF Marked
<1> QED
  BY <1>2, <1>3, <1>4 DEF Verdicts

LEMMA EndedIs ==
  ASSUME TypeOK
  PROVE  /\ Ended \in [Runs -> Execution]
         /\ \A e \in Runs :
              /\ Ended[e].stage = IF Running(exec[e]) THEN "over" ELSE exec[e].stage
              /\ \A c \in Chunks :
                   /\ Ended[e].worker[c] = Off /\ Ended[e].mem[c] = NoState
                   /\ Ended[e].pending[c] = NoText
<1>1. ASSUME NEW s \in Stages
      PROVE  LET x == [NoExecution EXCEPT !.stage = s] IN
             /\ x \in Execution /\ x.stage = s
             /\ \A c \in Chunks : /\ x.worker[c] = Off /\ x.mem[c] = NoState
                                  /\ x.pending[c] = NoText
  BY BasicTypes DEF NoExecution, Execution
<1>2. \A e \in Runs : (IF Running(exec[e]) THEN "over" ELSE exec[e].stage) \in Stages
  BY Types DEF Execution, Stages
<1>3. Ended = [e \in Runs |-> [NoExecution EXCEPT
                !.stage = IF Running(exec[e]) THEN "over" ELSE exec[e].stage]]
  BY DEF Ended
<1>4. ASSUME NEW e \in Runs
      PROVE  /\ Ended[e] \in Execution
             /\ Ended[e].stage = IF Running(exec[e]) THEN "over" ELSE exec[e].stage
             /\ \A c \in Chunks :
                  /\ Ended[e].worker[c] = Off /\ Ended[e].mem[c] = NoState
                  /\ Ended[e].pending[c] = NoText
  <2>1. PICK s \in Stages : s = IF Running(exec[e]) THEN "over" ELSE exec[e].stage
    BY <1>2
  <2>2. Ended[e] = [NoExecution EXCEPT !.stage = s]
    BY <1>3, <2>1
  <2> QED
    BY <1>1, <2>1, <2>2
<1>5. Ended \in [Runs -> Execution]
  BY <1>3, <1>4
<1> QED
  BY <1>4, <1>5

LEMMA StageStepShape ==
  ASSUME Typed, InOrder, NEW e \in Runs, NEW y \in Execution,
         exec' = [exec EXCEPT ![e] = y],
         exec[e].stage = "new" => \A d \in 1..(e - 1) : exec[d].stage = "over",
         exec[e].stage # "over",
         \A c \in Chunks : Shaped(y, c)
  PROVE  exec' \in [Runs -> Execution] /\ InOrder' /\ Shape'
<1>1. exec \in [Runs -> Execution]
  BY Types DEF Typed
<1>2. exec' \in [Runs -> Execution] /\ exec'[e] = y /\ \A d \in Runs \ {e} : exec'[d] = exec[d]
  BY <1>1
<1>3. Shape'
  <2>1. ASSUME NEW d \in Runs, NEW k \in Chunks PROVE Shaped(exec'[d], k)
    BY <1>2 DEF Typed, Shape
  <2> QED
    BY <2>1 DEF Shape
<1>4. \A d, f \in Runs : d < f /\ f = e => exec[d].stage = "over"
  BY DEF InOrder, Runs
<1>5. \A d, f \in Runs : d < f /\ exec'[f].stage # "new" => d # e /\ exec[d].stage = "over"
  BY <1>2, <1>4 DEF InOrder, Runs
<1>6. InOrder'
  BY <1>2, <1>5 DEF InOrder
<1> QED
  BY <1>2, <1>3, <1>6

\* A stage that leaves alone what the workers hold.
LEMMA Renamed ==
  ASSUME Typed, NEW e \in Runs, NEW y \in Execution,
         y.mem = exec[e].mem, y.worker = exec[e].worker, y.pending = exec[e].pending,
         \/ exec[e].stage \notin {"new", "over", "done"} /\ y.stage \in {"failing", "handled"}
         \/ y.stage \notin {"new", "over", "done"} /\ \A c \in Chunks : ~Alive(e, c)
  PROVE  \A c \in Chunks : Shaped(y, c)
<1> TAKE c \in Chunks
<1>1. Shaped(exec[e], c)
  BY DEF Typed, Shape
<1> QED
  BY <1>1 DEF Shaped, Alive

LEMMA StartedShape ==
  ASSUME TypeOK, NEW x \in Execution
  PROVE  \A c \in Chunks : Shaped(Started(x), c)
BY StartedIs DEF Shaped

LEMMA EmptyShape ==
  ASSUME NEW s \in Stages
  PROVE  /\ [NoExecution EXCEPT !.stage = s] \in Execution
         /\ [NoExecution EXCEPT !.stage = s].stage = s
         /\ \A c \in Chunks : Shaped([NoExecution EXCEPT !.stage = s], c)
<1> DEFINE x == [NoExecution EXCEPT !.stage = s]
<1>1. /\ x \in Execution /\ x.stage = s
      /\ \A c \in Chunks : /\ x.worker[c] = Off /\ x.mem[c] = NoState /\ x.pending[c] = NoText
  BY BasicTypes DEF NoExecution, Execution
<1>2. Off.pc \notin {"ready", "calling"}
  BY DEF Off
<1> HIDE DEF x
<1>3. \A c \in Chunks : Shaped(x, c)
  BY <1>1, <1>2 DEF Shaped
<1> QED
  BY <1>1, <1>3 DEF x

LEMMA RemainsShape ==
  ASSUME NEW x \in Execution
  PROVE  \A c \in Chunks : Shaped(Remains(x), c)
BY RemainsType DEF Shaped, Off

LEMMA EndedShape ==
  ASSUME Typed, InOrder, exec' = Ended
  PROVE  exec' \in [Runs -> Execution] /\ InOrder' /\ Shape'
<1>1. Off.pc \notin {"ready", "calling"}
  BY DEF Off
<1>2. Shape'
  BY <1>1, EndedIs DEF Typed, Shape, Shaped
<1>3. \A e \in Runs : /\ exec'[e].stage # "new" => exec[e].stage # "new"
                      /\ exec[e].stage = "over" => exec'[e].stage = "over"
  BY EndedIs DEF Typed, Running
<1>4. InOrder'
  BY <1>3 DEF InOrder
<1> QED
  BY <1>2, <1>4, EndedIs DEF Typed
-----------------------------------------------------------------------------
(* Types and shape, step by step.                                          *)

LEMMA StoreKeepsTypes ==
  ASSUME TypeOK, NEW c \in Chunks
  PROVE  /\ \A state \in ChunkState : [states EXCEPT ![c] = state] \in [Chunks -> ChunkState]
         /\ \A attempt \in Attempt, text \in Text :
              SavesOutput(c, attempt, text) => outputs' \in [Chunks -> Seq(Output)]
<1>1. \A state \in ChunkState : [states EXCEPT ![c] = state] \in [Chunks -> ChunkState]
  BY DEF TypeOK
<1>2. ASSUME NEW attempt \in Attempt, NEW text \in Text, SavesOutput(c, attempt, text)
      PROVE  outputs' \in [Chunks -> Seq(Output)]
  <2>1. Stored(outputs[c], attempt, text) \in Seq(Output)
    BY Types, StoredTypes
  <2> QED
    BY <1>2, <2>1 DEF SavesOutput, TypeOK
<1> QED
  BY <1>1, <1>2

LEMMA ExecTypes ==
  ASSUME exec' \in [Runs -> Execution],
         states' \in [Chunks -> ChunkState], outputs' \in [Chunks -> Seq(Output)],
         cache' \in [Chunks -> Text],
         foreign' \in [file : {"none", "states", "outputs"}, states : [Chunks -> ChunkState],
                       outputs : [Chunks -> Seq(Output)]],
         calls' \in [Chunks -> Nat], rejected' \subseteq Chunks \X Text,
         scored' \subseteq Chunks \X Text, astray' \subseteq Chunks, faults' \in 0..MaxFaults
  PROVE  TypeOK'
BY DEF TypeOK, Execution

Structure == TypeOK /\ InOrder /\ Shape

LEMMA WorkerStructure ==
  ASSUME Structure, NEW e \in Runs, NEW c \in Chunks,
         \/ Pause(e, c) \/ CacheHit(e, c) \/ GiveUp(e, c) \/ Call(e, c)
         \/ Answer(e, c) \/ CallFails(e, c)
  PROVE  Structure'
<1>1. Typed /\ TypeOK /\ InOrder
  BY DEF Structure, Typed
<1>2. /\ exec[e].mem[c] \in ChunkState /\ exec[e].pending[c] \in Text /\ cache[c] \in Text
      /\ exec[e].worker[c].text \in Text /\ exec[e].mem[c].attempt \in Attempt
  BY <1>1, Types DEF ChunkState, Attempt
<1>3. \A status \in Status : [exec[e].mem[c] EXCEPT !.status = status] \in ChunkState
  BY <1>1, WorkerStates
<1>4. Off \in Worker /\ Ready \in Worker
  BY BasicTypes
<1>5. CASE Pause(e, c)
  <2>1. Alive(e, c) /\ UNCHANGED <<states, outputs, cache, foreign, calls, rejected, scored, astray, faults>>
    BY <1>5 DEF Pause, Alive, files, history
  <2>2. exec' \in [Runs -> Execution] /\ InOrder' /\ Shape'
    BY <1>1, <1>2, <1>4, <1>5, <2>1, PauseMoves, WorkerStepShape
  <2>3. TypeOK'
    BY <1>1, <2>1, <2>2, ExecTypes DEF TypeOK
  <2> QED
    BY <2>2, <2>3 DEF Structure
<1>6. CASE CacheHit(e, c)
  <2>1. /\ Alive(e, c) /\ UNCHANGED <<cache, foreign, calls, rejected, scored, astray, faults>>
        /\ states' = [states EXCEPT ![c] = Translated(e, c)]
        /\ SavesOutput(c, exec[e].mem[c].attempt, cache[c])
    BY <1>2, <1>6 DEF CacheHit, Persists, Selects, Alive, history, Translated, ChunkState
  <2>2. Translated(e, c) \in ChunkState /\ [pc |-> "done", text |-> cache[c]] \in Worker
    BY <1>2, <1>3 DEF Translated, Status, Worker
  <2>3. exec' \in [Runs -> Execution] /\ InOrder' /\ Shape'
    BY <1>1, <1>2, <1>6, <2>1, <2>2, CacheHitMoves, WorkerStepShape
  <2>4. states' \in [Chunks -> ChunkState] /\ outputs' \in [Chunks -> Seq(Output)]
    BY <1>1, <1>2, <2>1, <2>2, StoreKeepsTypes
  <2>5. TypeOK'
    BY <1>1, <2>1, <2>3, <2>4, ExecTypes DEF TypeOK
  <2> QED
    BY <2>3, <2>5 DEF Structure
<1>7. CASE GiveUp(e, c)
  <2> DEFINE state == [exec[e].mem[c] EXCEPT !.status = "failed"]
  <2>1. /\ Alive(e, c) /\ UNCHANGED <<outputs, cache, foreign, calls, rejected, scored, astray, faults>>
        /\ states' = [states EXCEPT ![c] = state]
    BY <1>7 DEF GiveUp, PersistsAndRaises, Selects, Alive, history
  <2>2. state \in ChunkState
    BY <1>3 DEF Status
  <2>3. exec' \in [Runs -> Execution] /\ InOrder' /\ Shape'
    BY <1>1, <1>2, <1>4, <1>7, <2>1, <2>2, GiveUpMoves, WorkerStepShape
  <2>4. states' \in [Chunks -> ChunkState]
    BY <1>1, <2>1, <2>2, StoreKeepsTypes
  <2>5. TypeOK'
    BY <1>1, <2>1, <2>3, <2>4, ExecTypes DEF TypeOK
  <2> QED
    BY <2>3, <2>5 DEF Structure
<1>8. CASE Call(e, c)
  <2> DEFINE state == Attempting(exec[e].mem[c])
             w == [pc |-> "calling", text |-> calls[c] + 1]
  <2>1. /\ Alive(e, c) /\ UNCHANGED <<outputs, cache, foreign, rejected, scored, astray, faults>>
        /\ states' = [states EXCEPT ![c] = state]
        /\ calls' = [calls EXCEPT ![c] = @ + 1] /\ calls[c] < MaxCalls
    BY <1>8 DEF Call, Persists, Selects, Alive
  <2>2. state \in ChunkState
    BY <1>1, <1>8, WorkerStates DEF Call
  <2>3. w \in Worker
    BY <1>1, <2>1, Types, Numbers DEF Worker, Text
  <2>4. exec' \in [Runs -> Execution] /\ InOrder' /\ Shape'
    BY <1>1, <1>2, <1>8, <2>1, <2>2, <2>3, CallMoves, WorkerStepShape
  <2>5. states' \in [Chunks -> ChunkState]
    BY <1>1, <2>1, <2>2, StoreKeepsTypes
  <2>6. calls' \in [Chunks -> Nat]
    BY <1>1, <2>1 DEF TypeOK
  <2>7. TypeOK'
    BY <1>1, <2>1, <2>4, <2>5, <2>6, ExecTypes DEF TypeOK
  <2> QED
    BY <2>4, <2>7 DEF Structure
<1>9. CASE Answer(e, c)
  <2> DEFINE text == exec[e].worker[c].text
             w == [pc |-> "done", text |-> text]
  <2>1. /\ Alive(e, c) /\ UNCHANGED <<cache, foreign, calls, rejected, scored, astray, faults>>
        /\ states' = [states EXCEPT ![c] = Translated(e, c)]
        /\ SavesOutput(c, exec[e].mem[c].attempt, text)
    BY <1>9 DEF Answer, Alive, history
  <2>2. Translated(e, c) \in ChunkState /\ w \in Worker
    BY <1>2, <1>3 DEF Translated, Status, Worker
  <2>3. exec' \in [Runs -> Execution] /\ InOrder' /\ Shape'
    BY <1>1, <1>2, <1>9, <2>1, <2>2, AnswerMoves, WorkerStepShape
  <2>4. states' \in [Chunks -> ChunkState] /\ outputs' \in [Chunks -> Seq(Output)]
    BY <1>1, <1>2, <2>1, <2>2, StoreKeepsTypes
  <2>5. TypeOK'
    BY <1>1, <2>1, <2>3, <2>4, ExecTypes DEF TypeOK
  <2> QED
    BY <2>3, <2>5 DEF Structure
<1>10. CASE CallFails(e, c)
  <2> DEFINE state == [exec[e].mem[c] EXCEPT !.status = "needs_retry"]
  <2>1. /\ Alive(e, c) /\ UNCHANGED <<outputs, cache, foreign, calls, rejected, scored, astray, faults>>
        /\ states' = [states EXCEPT ![c] = state]
    BY <1>10 DEF CallFails, Persists, PersistsAndRaises, Alive, history
  <2>2. state \in ChunkState
    BY <1>3 DEF Status
  <2>3. PICK w \in {Ready, Off} : WorkerStep(e, c, state, w, exec[e].pending[c])
    BY <1>1, <1>10, CallFailsMoves
  <2>4. exec' \in [Runs -> Execution] /\ InOrder' /\ Shape'
    BY <1>1, <1>2, <1>4, <2>1, <2>2, <2>3, WorkerStepShape
  <2>5. states' \in [Chunks -> ChunkState]
    BY <1>1, <2>1, <2>2, StoreKeepsTypes
  <2>6. TypeOK'
    BY <1>1, <2>1, <2>4, <2>5, ExecTypes DEF TypeOK
  <2> QED
    BY <2>4, <2>6 DEF Structure
<1> QED
  BY <1>5, <1>6, <1>7, <1>8, <1>9, <1>10

\* How QA ends: it fails, begins another round, or goes on.
LEMMA QaMoves ==
  ASSUME TypeOK, NEW e \in Runs, QaRaises(e) \/ QaEnds(e), NEW x, x = exec[e]
  PROVE  /\ x.stage = "qa"
         /\ \E y : /\ exec' = [exec EXCEPT ![e] = y]
                  /\ \/ y = [x EXCEPT !.stage = "failing"]
                     \/ x.loops < MaxRetries /\ y = Started([x EXCEPT !.loops = @ + 1])
                     \/ y = [x EXCEPT !.stage = "flush"]
<1>1. CASE QaRaises(e)
  <2>1. exec' = [exec EXCEPT ![e] = [x EXCEPT !.stage = "failing"]]
    BY <1>1, Types DEF QaRaises, Execution
  <2> QED
    BY <1>1, <2>1 DEF QaRaises
<1>2. CASE QaEnds(e)
  BY <1>2 DEF QaEnds
<1> QED
  BY <1>1, <1>2

\* Only the end of QA rejects a text by its score, and then the stage fails.
LEMMA QaScores ==
  ASSUME TypeOK, NEW e \in Runs, QaEnds(e)
  PROVE  /\ scored' \subseteq scored \cup {<<c, exec[e].worker[c].text>> : c \in Chunks}
         /\ scored' = scored \/ exec'[e].stage = "failing"
<1>1. PICK low \in LowScores(exec[e]) :
        /\ low # {} => exec' = [exec EXCEPT ![e] = [exec[e] EXCEPT !.stage = "failing"]]
        /\ scored' = scored \cup {<<c, exec[e].worker[c].text>> :
                                    c \in {k \in low : exec[e].mem[k].status \notin Marked}}
  BY DEF QaEnds
<1>2. low \subseteq Chunks
  BY DEF LowScores
<1>3. CASE low = {}
  <2>1. scored' = scored
    BY <1>1, <1>3
  <2> QED
    BY <2>1
<1>4. CASE low # {}
  <2>1. exec'[e].stage = "failing"
    BY <1>1, <1>4, Types DEF Execution
  <2> QED
    BY <1>1, <1>2, <2>1
<1> QED
  BY <1>3, <1>4

LEMMA ScoredType ==
  ASSUME TypeOK, NEW e \in Runs, QaEnds(e)
  PROVE  scored' \subseteq Chunks \X Text
<1>1. {<<c, exec[e].worker[c].text>> : c \in Chunks} \subseteq Chunks \X Text
  BY Types
<1> QED
  BY <1>1, QaScores DEF TypeOK

\* A stage that ends or begins: what it leaves the execution is of its type
\* and shape, and the files are not touched.
LEMMA StageStructure ==
  ASSUME Structure, NEW e \in Runs,
         \/ Begin(e) \/ TranslateEnds(e) \/ QaRaises(e) \/ QaEnds(e) \/ Flush(e) \/ Save(e)
         \/ Handle(e) \/ HandlerWrites(e) \/ Cancel(e)
  PROVE  exec' \in [Runs -> Execution] /\ InOrder' /\ Shape'
<1>1. Typed /\ TypeOK /\ InOrder
  BY DEF Structure, Typed
<1>2. PICK x \in Execution : x = exec[e]
  BY <1>1, Types
<1>3. ASSUME NEW y \in Execution, exec' = [exec EXCEPT ![e] = y],
             x.stage = "new" => \A d \in 1..(e - 1) : exec[d].stage = "over",
             x.stage # "over", \A c \in Chunks : Shaped(y, c)
      PROVE  exec' \in [Runs -> Execution] /\ InOrder' /\ Shape'
  BY <1>1, <1>2, <1>3, StageStepShape
<1>4. CASE Begin(e)
  <2>1. /\ Started(NoExecution) \in Execution
        /\ \A c \in Chunks : Shaped(Started(NoExecution), c)
    BY <1>1, BasicTypes, StartedIs, StartedShape
  <2>2. /\ exec' = [exec EXCEPT ![e] = Started(NoExecution)] /\ x.stage = "new"
        /\ \A d \in 1..(e - 1) : exec[d].stage = "over"
    BY <1>2, <1>4 DEF Begin
  <2> QED
    BY <1>3, <2>1, <2>2
<1>5. CASE TranslateEnds(e)
  <2> DEFINE y == [x EXCEPT !.stage = "qa"]
  <2>1. y \in Execution /\ y.stage = "qa"
        /\ y.mem = x.mem /\ y.worker = x.worker /\ y.pending = x.pending
    BY DEF Execution, Stages
  <2>2. exec' = [exec EXCEPT ![e] = y] /\ x.stage = "translate" /\ Finished(x)
    BY <1>2, <1>5 DEF TranslateEnds
  <2>3. \A c \in Chunks : Shaped(y, c)
    BY <2>1, <2>2 DEF Finished, Shaped
  <2> HIDE DEF y
  <2> QED
    BY <1>3, <2>1, <2>2, <2>3
<1>6. CASE QaRaises(e) \/ QaEnds(e)
  <2>1. \A c \in Chunks : Shaped(x, c)
    BY <1>1, <1>2 DEF Typed, Shape
  <2>2. PICK y : /\ exec' = [exec EXCEPT ![e] = y] /\ x.stage = "qa"
                 /\ \/ y = [x EXCEPT !.stage = "failing"]
                    \/ x.loops < MaxRetries /\ y = Started([x EXCEPT !.loops = @ + 1])
                    \/ y = [x EXCEPT !.stage = "flush"]
    BY <1>1, <1>2, <1>6, QaMoves
  <2>3. CASE y = [x EXCEPT !.stage = "failing"] \/ y = [x EXCEPT !.stage = "flush"]
    <3>1. /\ y \in Execution /\ y.stage \in {"failing", "flush"}
          /\ y.mem = x.mem /\ y.worker = x.worker /\ y.pending = x.pending
      BY <2>3 DEF Execution, Stages
    <3>2. \A c \in Chunks : Shaped(y, c)
      BY <2>1, <2>2, <3>1 DEF Shaped
    <3> QED
      BY <1>3, <2>2, <3>1, <3>2
  <2>4. CASE x.loops < MaxRetries /\ y = Started([x EXCEPT !.loops = @ + 1])
    <3>1. [x EXCEPT !.loops = @ + 1] \in Execution
      <4>1. x.loops + 1 \in 0..MaxRetries
        BY <2>4, Numbers DEF Execution
      <4> QED
        BY <4>1 DEF Execution
    <3>2. y \in Execution /\ \A c \in Chunks : Shaped(y, c)
      BY <1>1, <2>4, <3>1, StartedIs, StartedShape
    <3> QED
      BY <1>3, <2>2, <3>2
  <2> QED
    BY <2>2, <2>3, <2>4
<1>7. CASE Flush(e)
  <2> DEFINE y == [x EXCEPT !.stage = "save"]
  <2>1. y \in Execution /\ y.stage = "save"
        /\ y.mem = x.mem /\ y.worker = x.worker /\ y.pending = x.pending
    BY DEF Execution, Stages
  <2>2. exec' = [exec EXCEPT ![e] = y] /\ x.stage = "flush"
    BY <1>2, <1>7 DEF Flush
  <2>3. \A c \in Chunks : Shaped(x, c)
    BY <1>1, <1>2 DEF Typed, Shape
  <2>4. \A c \in Chunks : Shaped(y, c)
    BY <2>1, <2>2, <2>3 DEF Shaped
  <2> HIDE DEF y
  <2> QED
    BY <1>3, <2>1, <2>2, <2>4
<1>8. CASE Save(e)
  <2>1. exec' = [exec EXCEPT ![e] = [NoExecution EXCEPT !.stage = "done"]] /\ x.stage = "save"
    BY <1>2, <1>8 DEF Save
  <2> QED
    BY <1>3, <2>1, EmptyShape DEF Stages
<1>9. CASE Handle(e)
  <2> DEFINE y == [x EXCEPT !.stage = "handled", !.snap = x.mem]
  <2>1. y \in Execution /\ y.stage = "handled"
        /\ y.mem = x.mem /\ y.worker = x.worker /\ y.pending = x.pending
    BY DEF Execution, Stages
  <2>2. x.stage = "failing"
    BY <1>2, <1>9 DEF Handle
  <2>3. exec' = [exec EXCEPT ![e] = y]
    BY <1>2, <1>9 DEF Handle
  <2>4. \A c \in Chunks : Shaped(y, c)
    BY <2>1 DEF Shaped
  <2> HIDE DEF y
  <2> QED
    BY <1>3, <2>1, <2>2, <2>3, <2>4
<1>10. CASE HandlerWrites(e)
  <2>1. exec' = [exec EXCEPT ![e] = Remains(x)] /\ x.stage = "handled"
    BY <1>2, <1>10 DEF HandlerWrites
  <2> QED
    BY <1>3, <2>1, RemainsType, RemainsShape
<1>11. CASE Cancel(e)
  <2>1. exec' = [exec EXCEPT ![e] = [NoExecution EXCEPT !.stage = "over"]] /\ Running(x)
    BY <1>2, <1>11 DEF Cancel
  <2> QED
    BY <1>3, <2>1, EmptyShape DEF Stages, Running
<1> QED
  BY <1>4, <1>5, <1>6, <1>7, <1>8, <1>9, <1>10, <1>11

LEMMA FlushedType ==
  ASSUME TypeOK, NEW e \in Runs, Flush(e)
  PROVE  cache' \in [Chunks -> Text]
<1>1. \A c \in Chunks : Flushable(exec[e], c) \in Text
  BY Types, BasicTypes DEF Flushable
<1> QED
  BY <1>1, Types DEF Flush

LEMMA HandlerTypes ==
  ASSUME TypeOK, NEW e \in Runs, HandlerWrites(e)
  PROVE  states' \in [Chunks -> ChunkState] /\ astray' \subseteq Chunks
BY Types DEF HandlerWrites, TakenBack, TypeOK

\* What a check with some verdict leaves, y of its execution.
Checked(e, c, verdict, y) ==
  /\ verdict.attempt = exec[e].mem[c].attempt
  /\ verdict.status = "translated" \/ verdict.status \in Marked
  /\ exec' = [exec EXCEPT ![e] = y]
  /\ states' = [states EXCEPT ![c] = verdict]
  /\ rejected' = IF verdict.status \in Marked
                 THEN rejected \cup {<<c, exec[e].worker[c].text>>} ELSE rejected
  /\ exec[e].stage = "qa" /\ c \notin exec[e].seen
  /\ y.stage = "qa" /\ y.worker = exec[e].worker /\ y.seen = exec[e].seen \cup {c}
  /\ y.snap = exec[e].snap
  /\ y.mem = [exec[e].mem EXCEPT ![c] = verdict]
  /\ y.pending = [exec[e].pending EXCEPT
                    ![c] = IF verdict.status \in Marked THEN NoText ELSE @]

LEMMA CheckMoves ==
  ASSUME TypeOK, NEW e \in Runs, NEW c \in Chunks, Check(e, c)
  PROVE  \E verdict \in ChunkState, y \in Execution : Checked(e, c, verdict, y)
<1> DEFINE x == exec[e]
<1>1. x \in Execution
  BY Types
<1>2. PICK verdict \in Verdicts(x.mem[c], x.pending[c]) :
        /\ exec' = [exec EXCEPT ![e] =
             [x EXCEPT !.mem[c] = verdict, !.seen = @ \cup {c},
                       !.pending[c] = IF verdict.status \in Marked THEN NoText ELSE @]]
        /\ states' = [states EXCEPT ![c] = verdict]
        /\ rejected' = IF verdict.status \in Marked
                       THEN rejected \cup {<<c, x.worker[c].text>>} ELSE rejected
  BY Zenon DEF Check
<1>3. x.mem[c] \in ChunkState /\ x.pending[c] \in Text /\ x.stage = "qa" /\ c \notin x.seen
  BY <1>1 DEF Execution, Check
<1>4. /\ verdict \in ChunkState /\ verdict.attempt = x.mem[c].attempt
      /\ verdict.status = "translated" \/ verdict.status \in Marked
  BY <1>3, VerdictTypes
<1>5. PICK left \in Text : left = IF verdict.status \in Marked THEN NoText ELSE x.pending[c]
  BY <1>3, BasicTypes
<1> DEFINE y == [x EXCEPT !.mem = [x.mem EXCEPT ![c] = verdict], !.seen = x.seen \cup {c},
                          !.pending = [x.pending EXCEPT ![c] = left]]
<1>6. [x EXCEPT !.mem[c] = verdict, !.seen = @ \cup {c},
                !.pending[c] = IF verdict.status \in Marked THEN NoText ELSE @] = y
  BY <1>1, <1>5 DEF Execution
<1>7. exec' = [exec EXCEPT ![e] = y]
  BY <1>2, <1>6
<1>8. /\ y \in Execution /\ y.stage = x.stage /\ y.worker = x.worker /\ y.snap = x.snap
      /\ y.seen = x.seen \cup {c} /\ y.mem = [x.mem EXCEPT ![c] = verdict]
      /\ y.pending = [x.pending EXCEPT ![c] = left]
  BY <1>1, <1>4 DEF Execution
<1> HIDE DEF y
<1>9. y.pending = [x.pending EXCEPT ![c] = IF verdict.status \in Marked THEN NoText ELSE @]
  BY <1>5, <1>8
<1>10. verdict \in ChunkState /\ y \in Execution
  BY <1>4, <1>8
<1>11. Checked(e, c, verdict, y)
  BY <1>2, <1>3, <1>4, <1>7, <1>8, <1>9 DEF Checked
<1> QED
  BY <1>10, <1>11

LEMMA CheckStructure ==
  ASSUME Structure, NEW e \in Runs, NEW c \in Chunks, Check(e, c)
  PROVE  Structure'
<1>1. Typed /\ TypeOK /\ InOrder
  BY DEF Structure, Typed
<1>2. PICK verdict \in ChunkState, y \in Execution : Checked(e, c, verdict, y)
  BY <1>1, CheckMoves
<1>3. /\ exec' = [exec EXCEPT ![e] = y] /\ exec[e].stage = "qa"
      /\ states' = [states EXCEPT ![c] = verdict]
      /\ y.stage = "qa" /\ y.worker = exec[e].worker
      /\ rejected' = IF verdict.status \in Marked
                     THEN rejected \cup {<<c, exec[e].worker[c].text>>} ELSE rejected
  BY <1>2 DEF Checked
<1>4. \A k \in Chunks : Shaped(exec[e], k)
  BY <1>1 DEF Typed, Shape
<1>5. \A k \in Chunks : Shaped(y, k)
  BY <1>3, <1>4 DEF Shaped
<1>6. exec' \in [Runs -> Execution] /\ InOrder' /\ Shape'
  <2>1. exec' = [exec EXCEPT ![e] = y] /\ exec[e].stage \notin {"new", "over"}
    BY <1>3
  <2> QED
    BY <1>1, <1>5, <2>1, StageStepShape
<1>7. states' \in [Chunks -> ChunkState] /\ rejected' \subseteq Chunks \X Text
  <2>1. states' = [states EXCEPT ![c] = verdict] /\ states \in [Chunks -> ChunkState]
    BY <1>1, <1>3 DEF TypeOK
  <2>2. exec[e].worker[c].text \in Text /\ rejected \subseteq Chunks \X Text
    BY <1>1, Types DEF TypeOK
  <2>3. rejected' \subseteq Chunks \X Text
    BY <1>3, <2>2
  <2> QED
    BY <2>1, <2>3
<1>8. UNCHANGED <<outputs, cache, foreign, calls, scored, astray, faults>>
  BY DEF Check
<1>9. TypeOK'
  BY <1>1, <1>6, <1>7, <1>8, ExecTypes DEF TypeOK
<1> QED
  BY <1>6, <1>9 DEF Structure

LEMMA AnswerLostStructure ==
  ASSUME Structure, NEW e \in Runs, NEW c \in Chunks, AnswerLost(e, c)
  PROVE  Structure'
<1>1. Typed /\ TypeOK /\ InOrder
  BY DEF Structure, Typed
<1>2. Translated(e, c) \in ChunkState
  BY <1>1, WorkerStates DEF Translated, Status
<1>3. /\ Alive(e, c) /\ UNCHANGED <<outputs, cache, foreign, calls, rejected, scored>>
      /\ states' = [states EXCEPT ![c] = Translated(e, c)]
      /\ astray' = astray \cup {c} /\ faults < MaxFaults /\ faults' = faults + 1
  BY DEF AnswerLost, Alive, PersistsAndRaises, Fault
<1>4. exec' \in [Runs -> Execution] /\ InOrder' /\ Shape'
  <2>1. CASE exec' = Ended
    BY <1>1, <2>1, EndedShape
  <2>2. CASE PersistsAndRaises(e, c, Translated(e, c))
    BY <1>1, <1>2, <1>3, <2>2, RaisesMoves, WorkerStepShape, BasicTypes, Types
  <2> QED
    BY <2>1, <2>2 DEF AnswerLost
<1>5. states' \in [Chunks -> ChunkState]
  BY <1>1, <1>2, <1>3, StoreKeepsTypes
<1>6. astray' \subseteq Chunks /\ faults' \in 0..MaxFaults
  BY <1>1, <1>3, Numbers DEF TypeOK
<1>7. TypeOK'
  BY <1>1, <1>3, <1>4, <1>5, <1>6, ExecTypes DEF TypeOK
<1> QED
  BY <1>4, <1>7 DEF Structure

LEMMA StageTypes ==
  ASSUME Structure, NEW e \in Runs,
         \/ Begin(e) \/ TranslateEnds(e) \/ QaRaises(e) \/ QaEnds(e) \/ Flush(e) \/ Save(e)
         \/ Handle(e) \/ HandlerWrites(e) \/ Cancel(e)
  PROVE  Structure'
<1>1. TypeOK
  BY DEF Structure
<1>2. exec' \in [Runs -> Execution] /\ InOrder' /\ Shape'
  BY StageStructure
<1>3. UNCHANGED <<outputs, foreign, calls, rejected>>
  BY DEF Begin, TranslateEnds, QaRaises, QaEnds, Flush, Save, Handle, HandlerWrites, Cancel, files, history
<1>4. states' \in [Chunks -> ChunkState] /\ astray' \subseteq Chunks
  <2>1. CASE HandlerWrites(e)
    BY <1>1, <2>1, HandlerTypes
  <2>2. CASE ~HandlerWrites(e)
    <3>1. states' = states
      BY <2>2 DEF Begin, TranslateEnds, QaRaises, QaEnds, Flush, Save, Handle, Cancel, files
    <3>2. astray' = astray \/ Begin(e)
      BY <2>2 DEF TranslateEnds, QaRaises, QaEnds, Flush, Save, Handle, Cancel, history
    <3> QED
      BY <1>1, <3>1, <3>2 DEF TypeOK, Begin
  <2> QED
    BY <2>1, <2>2
<1>5. cache' \in [Chunks -> Text]
  <2>1. cache' = cache \/ Flush(e)
    BY DEF Begin, TranslateEnds, QaRaises, QaEnds, Save, Handle, HandlerWrites, Cancel
  <2> QED
    BY <1>1, <2>1, FlushedType DEF TypeOK
<1>6. faults' \in 0..MaxFaults
  <2>1. faults' = faults \/ (faults < MaxFaults /\ faults' = faults + 1)
    BY DEF Begin, TranslateEnds, QaRaises, QaEnds, Flush, Save, Handle, HandlerWrites, Cancel, Fault
  <2> QED
    BY <1>1, <2>1, Numbers DEF TypeOK
<1>7. scored' \subseteq Chunks \X Text
  <2>1. scored' = scored \/ QaEnds(e)
    BY DEF Begin, TranslateEnds, QaRaises, Flush, Save, Handle, HandlerWrites, Cancel, history
  <2> QED
    BY <1>1, <2>1, ScoredType DEF TypeOK
<1>8. TypeOK'
  BY <1>1, <1>2, <1>3, <1>4, <1>5, <1>6, <1>7, ExecTypes DEF TypeOK
<1> QED
  BY <1>2, <1>8 DEF Structure

Foreign == [file : {"none", "states", "outputs"}, states : [Chunks -> ChunkState],
            outputs : [Chunks -> Seq(Output)]]

LEMMA NotReadType ==
  /\ NotRead \in Foreign
  /\ NotRead.states = [c \in Chunks |-> NoState] /\ NotRead.outputs = [c \in Chunks |-> <<>>]
<1>1. [c \in Chunks |-> NoState] \in [Chunks -> ChunkState]
  BY BasicTypes
<1>2. [c \in Chunks |-> <<>>] \in [Chunks -> Seq(Output)]
  OBVIOUS
<1> QED
  BY <1>1, <1>2 DEF NotRead, Foreign

LEMMA OtherStructure ==
  ASSUME Structure, Crash \/ ForeignRead \/ ForeignWrite \/ UNCHANGED vars
  PROVE  Structure'
<1>1. Typed /\ TypeOK /\ InOrder /\ Shape
  BY DEF Structure, Typed
<1>2. foreign \in Foreign
  BY <1>1 DEF TypeOK, Foreign
<1>3. CASE Crash
  <2>1. exec' \in [Runs -> Execution] /\ InOrder' /\ Shape'
    BY <1>1, <1>3, EndedShape DEF Crash
  <2>2. UNCHANGED <<states, outputs, cache, foreign, calls, rejected, scored, astray>>
    BY <1>3 DEF Crash, files, history
  <2>3. faults' \in 0..MaxFaults
    BY <1>1, <1>3, Numbers DEF TypeOK, Crash, Fault
  <2>4. TypeOK'
    BY <1>1, <2>1, <2>2, <2>3, ExecTypes DEF TypeOK
  <2> QED
    BY <2>1, <2>4 DEF Structure
<1>4. CASE ForeignRead
  <2>1. UNCHANGED <<states, outputs, cache, exec, calls, rejected, scored, astray>>
    BY <1>4 DEF ForeignRead, files, history
  <2>2. faults' \in 0..MaxFaults
    BY <1>1, <1>4, Numbers DEF TypeOK, ForeignRead, Fault
  <2>3. foreign' \in Foreign
    <3>1. states \in [Chunks -> ChunkState] /\ outputs \in [Chunks -> Seq(Output)]
      BY <1>1 DEF TypeOK
    <3> QED
      BY <1>4, <3>1, NotReadType DEF ForeignRead, Foreign
  <2>4. TypeOK'
    BY <1>1, <2>1, <2>2, <2>3 DEF TypeOK, Foreign
  <2>5. InOrder' /\ Shape'
    BY <1>1, <2>1 DEF InOrder, Shape, Shaped
  <2> QED
    BY <2>4, <2>5 DEF Structure
<1>5. CASE ForeignWrite
  <2>1. UNCHANGED <<cache, exec, calls, rejected, scored, faults>> /\ foreign' = NotRead
    BY <1>5 DEF ForeignWrite
  <2>2. states' \in [Chunks -> ChunkState] /\ outputs' \in [Chunks -> Seq(Output)]
    BY <1>1, <1>2, <1>5 DEF ForeignWrite, TypeOK, Foreign
  <2>3. astray' \subseteq Chunks
    BY <1>1, <1>5 DEF ForeignWrite, TypeOK
  <2>4. TypeOK'
    BY <1>1, <2>1, <2>2, <2>3, NotReadType DEF TypeOK, Foreign
  <2>5. InOrder' /\ Shape'
    BY <1>1, <2>1 DEF InOrder, Shape, Shaped
  <2> QED
    BY <2>4, <2>5 DEF Structure
<1>6. CASE UNCHANGED vars
  <2>1. UNCHANGED <<states, outputs, cache, exec, foreign, calls, rejected, scored, astray, faults>>
    BY <1>6 DEF vars, files, history
  <2>2. TypeOK'
    BY <1>1, <2>1 DEF TypeOK
  <2>3. InOrder' /\ Shape'
    BY <1>1, <2>1 DEF InOrder, Shape, Shaped
  <2> QED
    BY <2>2, <2>3 DEF Structure
<1> QED
  BY <1>3, <1>4, <1>5, <1>6

LEMMA StructureNext == Structure /\ [Next]_vars => Structure'
<1> SUFFICES ASSUME Structure, [Next]_vars PROVE Structure'
  OBVIOUS
<1>1. ASSUME NEW e \in Runs, NEW c \in Chunks,
             \/ Pause(e, c) \/ CacheHit(e, c) \/ GiveUp(e, c) \/ Call(e, c)
             \/ Answer(e, c) \/ CallFails(e, c)
      PROVE  Structure'
  BY <1>1, WorkerStructure
<1>2. ASSUME NEW e \in Runs, NEW c \in Chunks, AnswerLost(e, c) \/ Check(e, c)
      PROVE  Structure'
  BY <1>2, AnswerLostStructure, CheckStructure
<1>3. ASSUME NEW e \in Runs,
             \/ Begin(e) \/ TranslateEnds(e) \/ QaRaises(e) \/ QaEnds(e) \/ Flush(e) \/ Save(e)
             \/ Handle(e) \/ HandlerWrites(e) \/ Cancel(e)
      PROVE  Structure'
  BY <1>3, StageTypes
<1>4. ASSUME Crash \/ ForeignRead \/ ForeignWrite \/ UNCHANGED vars PROVE Structure'
  BY <1>4, OtherStructure
<1> QED
  BY <1>1, <1>2, <1>3, <1>4 DEF Next

LEMMA StructureInit == Init => Structure
<1> SUFFICES ASSUME Init PROVE Structure
  OBVIOUS
<1>1. \A e \in Runs : exec[e] = NoExecution
  BY DEF Init
<1>2. NoExecution \in Execution /\ NoExecution.stage = "new"
      /\ \A c \in Chunks : /\ NoExecution.worker[c] = Off /\ NoExecution.pending[c] = NoText
  BY BasicTypes DEF NoExecution
<1>3. TypeOK
  <2>1. exec \in [Runs -> Execution]
    BY <1>2 DEF Init
  <2>2. states \in [Chunks -> ChunkState] /\ cache \in [Chunks -> Text]
    BY BasicTypes DEF Init
  <2>3. outputs \in [Chunks -> Seq(Output)] /\ calls \in [Chunks -> Nat]
    BY DEF Init
  <2>4. foreign \in Foreign
    BY NotReadType DEF Init
  <2>5. rejected \subseteq Chunks \X Text /\ scored \subseteq Chunks \X Text /\ astray \subseteq Chunks /\ faults \in 0..MaxFaults
    BY Numbers DEF Init
  <2> QED
    BY <2>1, <2>2, <2>3, <2>4, <2>5 DEF TypeOK, Execution, Foreign
<1>4. InOrder /\ Shape
  BY <1>1, <1>2 DEF InOrder, Shape, Shaped, Off
<1> QED
  BY <1>3, <1>4 DEF Structure

LEMMA StructureInvariant == Spec => []Structure
<1> QED
  BY StructureInit, StructureNext, PTL DEF Spec

\* Every file, execution and counter is of its type in every reachable state.
THEOREM TypeCorrect == Spec => []TypeOK
<1>1. Structure => TypeOK
  BY DEF Structure
<1> QED
  BY <1>1, StructureInvariant, PTL
-----------------------------------------------------------------------------
(* What the files of a chunk say, unless it went astray: its state counts  *)
(* every call, its last output is the text of the last attempt that ended, *)
(* and one that QA has rejected is marked, or is what the cache holds.     *)

Rising(list) == \A i, j \in DOMAIN list : i < j => list[i].attempt < list[j].attempt
Below(list, attempt) == \A i \in DOMAIN list : list[i].attempt <= attempt
LastText(c) == Last(outputs[c]).text

Filed(c) ==
  /\ states[c].status = "none" => states[c] = NoState
  /\ calls[c] <= states[c].attempt
  /\ Rising(outputs[c]) /\ Below(outputs[c], states[c].attempt)
  /\ states[c].status = "translated" =>
       /\ outputs[c] # <<>>
       /\ <<c, LastText(c)>> \in rejected => LastText(c) = cache[c]

\* What an execution whose worker of the chunk is under way has in memory.
Underway(e, c) ==
  Alive(e, c) =>
    /\ \A d \in Runs : e < d => exec[d].stage = "new"
    /\ calls[c] <= exec[e].mem[c].attempt /\ Below(outputs[c], exec[e].mem[c].attempt)
    /\ exec[e].stage \in {"translate", "failing"} => exec[e].mem[c].status # "translated"
    /\ exec[e].stage = "translate" => exec[e].pending[c] = NoText
    /\ exec[e].stage = "handled" => exec[e].snap[c].status # "translated"

\* What a stage of an execution may rely on.
Staged(e, c) ==
  LET x == exec[e] IN
  /\ x.stage \in {"translate", "qa", "failing"} => x.mem[c] = states[c]
  /\ x.stage = "translate" => c \notin x.seen
  /\ x.stage \in {"translate", "qa", "flush"} /\ ~Alive(e, c) =>
       /\ outputs[c] # <<>> /\ x.worker[c].text = LastText(c)
       /\ x.pending[c] \in {NoText, x.worker[c].text}
       /\ x.stage # "flush" /\ c \notin x.seen => states[c].status = "translated"
  /\ x.stage = "qa" /\ c \in x.seen /\ states[c].status # "translated" => x.pending[c] = NoText
  /\ x.stage = "handled" /\ x.snap[c].status = "translated" => states[c].status = "translated"

Kept(c) == Filed(c) /\ \A e \in Runs : Underway(e, c) /\ Staged(e, c)

LEMMA StoredIs ==
  ASSUME NEW list \in Seq(Output), NEW attempt \in Attempt, NEW text \in Text,
         Rising(list), Below(list, attempt)
  PROVE  LET new == Stored(list, attempt, text) IN
         /\ new # <<>> /\ Last(new).text = text
         /\ Rising(new) /\ Below(new, attempt)
<1> DEFINE output == [attempt |-> attempt, text |-> text]
           new == Stored(list, attempt, text)
<1>1. output \in Output /\ output.attempt = attempt /\ output.text = text
  BY DEF Output, Attempt
<1>2. \A i \in DOMAIN list : list[i].attempt \in Nat /\ i \in Nat /\ i <= Len(list)
  <2>1. \A i \in DOMAIN list : list[i] \in Output /\ i \in Nat /\ i <= Len(list)
    OBVIOUS
  <2>2. \A o \in Output : o.attempt \in Nat
    BY Numbers DEF Output
  <2> QED
    BY <2>1, <2>2
<1>3. attempt \in Nat /\ Len(list) \in Nat /\ DOMAIN list = 1..Len(list)
  BY Numbers DEF Attempt
<1>4. CASE \E i \in DOMAIN list : list[i].attempt = attempt
  <2>1. PICK i \in DOMAIN list : list[i].attempt = attempt
    BY <1>4
  <2>2. i = Len(list)
    <3>1. Len(list) \in DOMAIN list /\ list[Len(list)].attempt <= attempt
      BY <1>3, <2>1 DEF Below
    <3>2. ~ (i < Len(list))
      BY <1>2, <1>3, <2>1, <3>1 DEF Rising
    <3> QED
      BY <1>2, <1>3, <2>1, <3>2
  <2>3. new = [j \in DOMAIN list |-> IF list[j].attempt = attempt THEN output ELSE list[j]]
    BY <1>4 DEF Stored
  <2>4. new \in Seq(Output) /\ Len(new) = Len(list) /\ DOMAIN new = DOMAIN list
    BY <1>1, <1>3, <2>3, StoredTypes
  <2>5. \A j \in DOMAIN list : new[j].attempt = list[j].attempt
    BY <1>1, <2>3
  <2>6. Rising(new) /\ Below(new, attempt)
    BY <2>4, <2>5 DEF Rising, Below
  <2>7. new # <<>> /\ Last(new) = new[Len(list)]
    BY <1>3, <2>1, <2>4 DEF Last
  <2> QED
    BY <1>1, <2>1, <2>2, <2>3, <2>6, <2>7
<1>5. CASE ~ \E i \in DOMAIN list : list[i].attempt = attempt
  <2>1. new = Append(list, output)
    BY <1>5 DEF Stored
  <2>2. /\ new \in Seq(Output) /\ Len(new) = Len(list) + 1 /\ new[Len(list) + 1] = output
        /\ DOMAIN new = 1..(Len(list) + 1)
        /\ \A j \in DOMAIN list : new[j] = list[j]
    BY <1>1, <2>1
  <2>3. \A j \in DOMAIN list : list[j].attempt < attempt
    BY <1>2, <1>3, <1>5 DEF Below
  <2>4. Below(new, attempt)
    BY <1>1, <1>3, <2>2 DEF Below
  <2>5. Rising(new)
    BY <1>1, <1>2, <1>3, <2>2, <2>3 DEF Rising
  <2>6. new # <<>> /\ Last(new) = output
    BY <1>3, <2>2 DEF Last
  <2> QED
    BY <1>1, <2>4, <2>5, <2>6
<1> QED
  BY <1>4, <1>5

\* A step that does nothing to a chunk, though it may fail the stage.
Untouched(c) ==
  /\ states'[c] = states[c] /\ outputs'[c] = outputs[c]
  /\ calls'[c] = calls[c] /\ cache'[c] = cache[c]
  /\ \A t \in Text : <<c, t>> \in rejected' => <<c, t>> \in rejected
  /\ \A e \in Runs :
       /\ \/ exec'[e].stage = exec[e].stage
          \/ exec[e].stage = "translate" /\ exec'[e].stage = "failing"
       /\ exec'[e].mem[c] = exec[e].mem[c]
       /\ exec'[e].worker[c] = exec[e].worker[c]
       /\ exec'[e].pending[c] = exec[e].pending[c]
       /\ exec[e].stage # "over" =>
            exec'[e].snap[c] = exec[e].snap[c] /\ (c \in exec'[e].seen <=> c \in exec[e].seen)

LEMMA UntouchedKept ==
  ASSUME TypeOK, NEW c \in Chunks, Kept(c), Untouched(c)
  PROVE  Kept(c)'
<1>1. states'[c] = states[c] /\ outputs'[c] = outputs[c] /\ LastText(c)' = LastText(c)
      /\ calls'[c] = calls[c] /\ cache'[c] = cache[c]
  BY DEF Untouched, LastText
<1>2. outputs[c] # <<>> => LastText(c) \in Text
  BY Types, LastOutput DEF LastText
<1>3. Filed(c)'
  BY <1>1, <1>2 DEF Kept, Filed, Untouched
<1>4. ASSUME NEW e \in Runs PROVE Underway(e, c)' /\ Staged(e, c)'
  <2>1. /\ \/ exec'[e].stage = exec[e].stage
           \/ exec[e].stage = "translate" /\ exec'[e].stage = "failing"
        /\ exec'[e].mem[c] = exec[e].mem[c]
        /\ exec'[e].worker[c] = exec[e].worker[c]
        /\ exec'[e].pending[c] = exec[e].pending[c]
        /\ exec[e].stage # "over" =>
             exec'[e].snap[c] = exec[e].snap[c] /\ (c \in exec'[e].seen <=> c \in exec[e].seen)
    BY DEF Untouched
  <2>2. \A d \in Runs : exec[d].stage = "new" => exec'[d].stage = "new"
    BY DEF Untouched
  <2>3. Underway(e, c) /\ Staged(e, c)
    BY DEF Kept
  <2>4. Underway(e, c)'
    BY <1>1, <2>1, <2>2, <2>3 DEF Underway, Alive
  <2>5. Staged(e, c)'
    BY <1>1, <2>1, <2>3 DEF Staged, Alive
  <2> QED
    BY <2>4, <2>5
<1> QED
  BY <1>3, <1>4 DEF Kept

LEMMA OthersUntouched ==
  ASSUME TypeOK, NEW e \in Runs, NEW c \in Chunks, NEW k \in Chunks \ {c},
         NEW state, NEW w, NEW p, WorkerStep(e, c, state, w, p),
         states'[k] = states[k], outputs'[k] = outputs[k], calls'[k] = calls[k],
         UNCHANGED <<cache, rejected>>
  PROVE  Untouched(k)
<1>1. PICK y \in Execution : Moved(exec[e], y, c, state, w, p) /\ exec' = [exec EXCEPT ![e] = y]
  BY DEF WorkerStep
<1>2. exec'[e] = y /\ \A d \in Runs \ {e} : exec'[d] = exec[d]
  BY <1>1, Types
<1>3. y.stage = exec[e].stage \/ (exec[e].stage = "translate" /\ y.stage = "failing")
  BY <1>1 DEF Moved
<1>4. /\ y.mem[k] = exec[e].mem[k] /\ y.worker[k] = exec[e].worker[k]
      /\ y.pending[k] = exec[e].pending[k]
      /\ exec[e].stage # "over" => y.seen = exec[e].seen /\ y.snap = exec[e].snap
  BY <1>1 DEF Moved
<1> QED
  BY <1>2, <1>3, <1>4 DEF Untouched

\* An execution at work on a chunk that is not astray is alone with it.
LEMMA Alone ==
  ASSUME Structure, NEW c \in Chunks, Kept(c), NEW e \in Runs,
         Alive(e, c) \/ exec[e].stage \notin {"new", "over"}
  PROVE  \A d \in Runs \ {e} : ~Alive(d, c) /\ exec[d].stage \in {"new", "over"}
<1> TAKE d \in Runs \ {e}
<1>1. exec[e].stage # "new" /\ (exec[d].stage = "new" => ~Alive(d, c))
  BY DEF Structure, Shape, Shaped, Alive
<1>2. d < e \/ e < d
  BY DEF Runs
<1>3. CASE d < e
  BY <1>1, <1>3 DEF Structure, InOrder, Kept, Underway
<1>4. CASE e < d
  BY <1>1, <1>4 DEF Structure, InOrder, Kept, Underway
<1> QED
  BY <1>2, <1>3, <1>4

LEMMA AloneKept ==
  ASSUME Structure, NEW c \in Chunks, Kept(c), NEW e \in Runs,
         Alive(e, c) \/ exec[e].stage \notin {"new", "over"},
         NEW y \in Execution, exec' = [exec EXCEPT ![e] = y],
         Filed(c)', Underway(e, c)', Staged(e, c)'
  PROVE  Kept(c)'
<1>1. \A d \in Runs \ {e} : exec'[d] = exec[d]
  BY Types DEF Structure
<1>2. \A d \in Runs \ {e} : Underway(d, c)' /\ Staged(d, c)'
  BY <1>1, Alone DEF Underway, Staged, Alive
<1> QED
  BY <1>2 DEF Kept

\* A step of a worker that leaves its chunk in some state: a call under way or
\* to come, a failure, or a text that is the last output of the chunk.
LEMMA WorkerKeeps ==
  ASSUME Structure, NEW c \in Chunks, Kept(c), NEW e \in Runs, Alive(e, c),
         NEW state \in ChunkState, NEW w \in Worker, NEW p \in Text,
         WorkerStep(e, c, state, w, p),
         states'[c] = state, state.status # "none",
         outputs'[c] \in Seq(Output), Rising(outputs'[c]), Below(outputs'[c], state.attempt),
         calls'[c] <= state.attempt, UNCHANGED <<cache, rejected>>,
         \/ w.pc \in {"ready", "calling"} /\ state.status # "translated" /\ p = exec[e].pending[c]
         \/ w = Off /\ state.status # "translated"
         \/ /\ w.pc = "done" /\ state.status = "translated"
            /\ outputs'[c] # <<>> /\ Last(outputs'[c]).text = w.text
            /\ p \in {exec[e].pending[c], w.text}
            /\ <<c, w.text>> \in rejected => w.text = cache[c]
  PROVE  Kept(c)'
<1>1. PICK y \in Execution : Moved(exec[e], y, c, state, w, p) /\ exec' = [exec EXCEPT ![e] = y]
  BY DEF WorkerStep
<1>2. exec'[e] = y /\ \A d \in Runs \ {e} : exec'[d] = exec[d]
  BY <1>1, Types DEF Structure
<1>3. exec[e].stage \in {"translate", "failing", "handled", "over"}
  BY DEF Structure, Shape, Shaped, Alive
<1>4. /\ y.stage = IF w = Off /\ exec[e].stage = "translate" THEN "failing" ELSE exec[e].stage
      /\ exec[e].stage # "over" => y.seen = exec[e].seen /\ y.snap = exec[e].snap
      /\ IF exec[e].stage = "over" /\ w.pc \notin {"ready", "calling"}
         THEN y.mem[c] = NoState /\ y.worker[c] = Off
         ELSE y.mem[c] = state /\ y.worker[c] = w
      /\ y.pending[c] = IF exec[e].stage = "over" THEN NoText ELSE p
  BY <1>1 DEF Moved
<1>5. /\ \A d \in Runs : e < d => exec[d].stage = "new"
      /\ exec[e].stage = "translate" => exec[e].pending[c] = NoText /\ c \notin exec[e].seen
      /\ exec[e].stage = "handled" => exec[e].snap[c].status # "translated"
  BY DEF Kept, Underway, Staged
<1>6. Off.pc = "off"
  BY DEF Off
<1>7. Filed(c)'
  BY DEF Filed, LastText
<1>8. Underway(e, c)'
  <2>1. ASSUME y.worker[c].pc \in {"ready", "calling"}
        PROVE  w.pc \in {"ready", "calling"} /\ y.mem[c] = state
    BY <1>4, <1>6, <2>1
  <2>2. \A d \in Runs : e < d => d # e
    BY DEF Runs
  <2> QED
    BY <1>2, <1>4, <1>5, <1>6, <2>1, <2>2 DEF Underway, Alive
<1>9. Staged(e, c)'
  <2>1. CASE exec[e].stage = "over"
    BY <1>2, <1>4, <2>1 DEF Staged
  <2>2. CASE exec[e].stage = "handled"
    BY <1>2, <1>4, <1>5, <2>2 DEF Staged
  <2>3. CASE exec[e].stage = "failing"
    BY <1>2, <1>4, <2>3 DEF Staged
  <2>4. CASE exec[e].stage = "translate"
    <3>1. y.mem[c] = state /\ y.worker[c] = w /\ y.seen = exec[e].seen
          /\ y.stage \in {"translate", "failing"}
      BY <1>4, <2>4
    <3>2. ASSUME y.stage = "translate", w.pc \notin {"ready", "calling"}
          PROVE  /\ outputs'[c] # <<>> /\ w.text = Last(outputs'[c]).text
                 /\ y.pending[c] \in {NoText, w.text} /\ state.status = "translated"
      BY <1>4, <1>5, <2>4, <3>2
    <3> QED
      BY <1>2, <1>5, <2>4, <3>1, <3>2 DEF Staged, Alive, LastText
  <2> QED
    BY <1>3, <2>1, <2>2, <2>3, <2>4
<1> QED
  BY <1>1, <1>7, <1>8, <1>9, AloneKept

LEMMA PauseKeeps ==
  ASSUME Structure, NEW c \in Chunks, Kept(c), NEW e \in Runs, Pause(e, c)
  PROVE  Kept(c)'
<1>1. /\ Alive(e, c) /\ UNCHANGED <<states, outputs, cache, calls, rejected>>
      /\ WorkerStep(e, c, exec[e].mem[c], Off, exec[e].pending[c])
  BY PauseMoves DEF Pause, Alive, files, history, Structure, Typed
<1>2. PICK y \in Execution : /\ Moved(exec[e], y, c, exec[e].mem[c], Off, exec[e].pending[c])
                             /\ exec' = [exec EXCEPT ![e] = y]
  BY <1>1 DEF WorkerStep
<1>3. exec'[e] = y
  BY <1>2, Types DEF Structure
<1>4. exec[e].stage \in {"translate", "failing", "handled", "over"}
  BY <1>1 DEF Structure, Shape, Shaped, Alive
<1>5. /\ y.stage = IF exec[e].stage = "translate" THEN "failing" ELSE exec[e].stage
      /\ exec[e].stage # "over" => y.snap = exec[e].snap /\ y.mem[c] = exec[e].mem[c]
      /\ y.worker[c] = Off
  BY <1>2 DEF Moved
<1>6. Filed(c)'
  BY <1>1 DEF Filed, LastText, Kept
<1>7. Underway(e, c)'
  BY <1>3, <1>5 DEF Underway, Alive, Off
<1>8. Staged(e, c)'
  BY <1>1, <1>3, <1>4, <1>5 DEF Staged, Kept
<1> QED
  BY <1>1, <1>2, <1>6, <1>7, <1>8, AloneKept

\* What is known of a chunk whose worker is to store a state and a text.
LEMMA StoringKeeps ==
  ASSUME Structure, NEW c \in Chunks, Kept(c), NEW e \in Runs, Alive(e, c),
         NEW state \in ChunkState, state.attempt = exec[e].mem[c].attempt
  PROVE  /\ state.attempt \in Attempt /\ calls[c] <= state.attempt
         /\ outputs[c] \in Seq(Output) /\ Rising(outputs[c]) /\ Below(outputs[c], state.attempt)
         /\ \A text \in Text : SavesOutput(c, exec[e].mem[c].attempt, text) =>
              /\ outputs'[c] \in Seq(Output) /\ outputs'[c] # <<>>
              /\ Last(outputs'[c]).text = text
              /\ Rising(outputs'[c]) /\ Below(outputs'[c], state.attempt)
<1>1. state.attempt \in Attempt
  BY DEF ChunkState, Attempt
<1>2. calls[c] <= state.attempt /\ Rising(outputs[c]) /\ Below(outputs[c], state.attempt)
  BY DEF Kept, Filed, Underway
<1>3. outputs \in [Chunks -> Seq(Output)]
  BY DEF Structure, TypeOK
<1>4. ASSUME NEW text \in Text, SavesOutput(c, exec[e].mem[c].attempt, text)
      PROVE  outputs'[c] = Stored(outputs[c], state.attempt, text)
  BY <1>3, <1>4 DEF SavesOutput
<1> QED
  BY <1>1, <1>2, <1>3, <1>4, StoredIs, StoredTypes

LEMMA CacheHitKeeps ==
  ASSUME Structure, NEW c \in Chunks, Kept(c), NEW e \in Runs, CacheHit(e, c)
  PROVE  Kept(c)'
<1> DEFINE state == Translated(e, c)
           w == [pc |-> "done", text |-> cache[c]]
<1>1. Typed /\ TypeOK
  BY DEF Structure, Typed
<1>2. /\ state \in ChunkState /\ w \in Worker /\ exec[e].pending[c] \in Text /\ cache[c] \in Text
      /\ state.attempt = exec[e].mem[c].attempt /\ state.status = "translated"
  <2>1. w \in Worker
    BY <1>1, Types DEF Worker
  <2> QED
    BY <1>1, <2>1, Types, TranslatedIs
<1>3. /\ Alive(e, c) /\ UNCHANGED <<cache, calls, rejected>>
      /\ states' = [states EXCEPT ![c] = state]
      /\ SavesOutput(c, exec[e].mem[c].attempt, cache[c])
      /\ WorkerStep(e, c, state, w, exec[e].pending[c])
  BY <1>1, <1>2, CacheHitMoves
     DEF CacheHit, Persists, Selects, Alive, history, Translated
<1>4. states'[c] = state /\ calls'[c] = calls[c]
  BY <1>1, <1>3 DEF TypeOK
<1>5. /\ calls[c] <= state.attempt
      /\ outputs'[c] \in Seq(Output) /\ outputs'[c] # <<>> /\ Last(outputs'[c]).text = cache[c]
      /\ Rising(outputs'[c]) /\ Below(outputs'[c], state.attempt)
  BY <1>2, <1>3, StoringKeeps
<1>6. w.pc = "done" /\ w.text = cache[c]
  OBVIOUS
<1> HIDE DEF state, w
<1> QED
  BY <1>2, <1>3, <1>4, <1>5, <1>6, WorkerKeeps

LEMMA FailureKeeps ==
  ASSUME Structure, NEW c \in Chunks, Kept(c), NEW e \in Runs, Alive(e, c),
         NEW status \in {"failed", "needs_retry"}, NEW w \in {Ready, Off},
         WorkerStep(e, c, [exec[e].mem[c] EXCEPT !.status = status], w, exec[e].pending[c]),
         states' = [states EXCEPT ![c] = [exec[e].mem[c] EXCEPT !.status = status]],
         UNCHANGED <<outputs, cache, calls, rejected>>
  PROVE  Kept(c)'
<1> DEFINE state == [exec[e].mem[c] EXCEPT !.status = status]
<1>1. /\ state \in ChunkState /\ exec[e].pending[c] \in Text /\ w \in Worker
      /\ state.attempt = exec[e].mem[c].attempt /\ state.status = status
  <2>1. TypeOK /\ status \in Status
    BY DEF Structure, Status
  <2>2. w \in Worker /\ exec[e].pending[c] \in Text
    BY <2>1, Types, BasicTypes
  <2> QED
    BY <2>1, <2>2, WorkerStates
<1>2. states'[c] = state
  BY DEF Structure, TypeOK
<1>3. WorkerStep(e, c, state, w, exec[e].pending[c])
  OBVIOUS
<1> HIDE DEF state
<1>4. /\ calls'[c] <= state.attempt /\ outputs'[c] \in Seq(Output)
      /\ Rising(outputs'[c]) /\ Below(outputs'[c], state.attempt)
  BY <1>1, StoringKeeps
<1>5. w.pc \in {"ready", "calling"} \/ w = Off
  BY DEF Ready
<1> QED
  BY <1>1, <1>2, <1>3, <1>4, <1>5, WorkerKeeps

LEMMA CallKeeps ==
  ASSUME Structure, NEW c \in Chunks, Kept(c), NEW e \in Runs, Call(e, c)
  PROVE  Kept(c)'
<1> DEFINE state == Attempting(exec[e].mem[c])
           w == [pc |-> "calling", text |-> calls[c] + 1]
<1>1. Typed /\ TypeOK
  BY DEF Structure, Typed
<1>2. exec[e].mem[c] \in ChunkState /\ exec[e].pending[c] \in Text /\ exec[e].mem[c].attempt \in Nat
      /\ calls[c] \in Nat
  BY <1>1, Types, Numbers DEF ChunkState
<1>3. /\ Alive(e, c) /\ UNCHANGED <<outputs, cache, rejected>> /\ calls[c] < MaxCalls
      /\ states' = [states EXCEPT ![c] = state] /\ calls' = [calls EXCEPT ![c] = @ + 1]
      /\ WorkerStep(e, c, state, w, exec[e].pending[c]) /\ ~Spent(exec[e].mem[c])
  BY <1>1, CallMoves DEF Call, Persists, Selects, Alive
<1>4. /\ state \in ChunkState /\ state.status = "translating"
      /\ state.attempt = exec[e].mem[c].attempt + 1
  BY <1>1, <1>2, <1>3, WorkerStates DEF Attempting, ChunkState
<1>5. w \in Worker /\ w.pc = "calling"
  BY <1>2, <1>3, Numbers DEF Worker, Text
<1>6. states'[c] = state /\ calls'[c] = calls[c] + 1
  BY <1>1, <1>3 DEF TypeOK
<1>7. /\ calls[c] <= exec[e].mem[c].attempt /\ outputs[c] \in Seq(Output)
      /\ Rising(outputs[c]) /\ Below(outputs[c], exec[e].mem[c].attempt)
  BY <1>2, <1>3, StoringKeeps
<1>8. Below(outputs[c], exec[e].mem[c].attempt + 1)
  <2>1. \A i \in DOMAIN outputs[c] : outputs[c][i].attempt \in Nat
    <3>1. \A o \in Output : o.attempt \in Nat
      BY Numbers DEF Output
    <3> QED
      BY <1>7, <3>1
  <2> QED
    BY <1>2, <1>7, <2>1 DEF Below
<1> HIDE DEF state, w
<1>9. calls'[c] <= state.attempt /\ Below(outputs'[c], state.attempt)
  BY <1>2, <1>3, <1>4, <1>6, <1>7, <1>8
<1> QED
  BY <1>2, <1>3, <1>4, <1>5, <1>6, <1>7, <1>9, WorkerKeeps

LEMMA AnswerKeeps ==
  ASSUME Structure, NEW c \in Chunks, Kept(c), NEW e \in Runs, Answer(e, c),
         <<c, exec[e].worker[c].text>> \notin rejected
  PROVE  Kept(c)'
<1> DEFINE state == Translated(e, c)
           text == exec[e].worker[c].text
           w == [pc |-> "done", text |-> text]
<1>1. Typed /\ TypeOK
  BY DEF Structure, Typed
<1>2. /\ state \in ChunkState /\ w \in Worker /\ text \in Text
      /\ state.attempt = exec[e].mem[c].attempt /\ state.status = "translated"
  <2>1. w \in Worker
    BY <1>1, Types DEF Worker
  <2> QED
    BY <1>1, <2>1, Types, TranslatedIs
<1>3. /\ Alive(e, c) /\ UNCHANGED <<cache, calls, rejected>>
      /\ states' = [states EXCEPT ![c] = state]
      /\ SavesOutput(c, exec[e].mem[c].attempt, text)
      /\ WorkerStep(e, c, state, w, text)
  BY <1>1, AnswerMoves DEF Answer, Alive, history
<1>4. states'[c] = state /\ calls'[c] = calls[c]
  BY <1>1, <1>3 DEF TypeOK
<1>5. /\ calls[c] <= state.attempt
      /\ outputs'[c] \in Seq(Output) /\ outputs'[c] # <<>> /\ Last(outputs'[c]).text = text
      /\ Rising(outputs'[c]) /\ Below(outputs'[c], state.attempt)
  <2>1. Alive(e, c) /\ SavesOutput(c, exec[e].mem[c].attempt, text)
    BY <1>3
  <2> HIDE DEF state, text
  <2> QED
    BY <1>2, <2>1, StoringKeeps
<1>6. w.pc = "done" /\ w.text = text
  OBVIOUS
<1> HIDE DEF state, w
<1> QED
  BY <1>2, <1>3, <1>4, <1>5, <1>6, WorkerKeeps

LEMMA CheckKeeps ==
  ASSUME Structure, NEW e \in Runs, NEW c \in Chunks, Check(e, c), NEW k \in Chunks, Kept(k)
  PROVE  Kept(k)'
<1>1. TypeOK
  BY DEF Structure
<1>2. PICK verdict \in ChunkState, y \in Execution : Checked(e, c, verdict, y)
  BY <1>1, CheckMoves
<1>3. /\ exec' = [exec EXCEPT ![e] = y] /\ exec[e].stage = "qa" /\ c \notin exec[e].seen
      /\ states' = [states EXCEPT ![c] = verdict]
      /\ verdict.attempt = exec[e].mem[c].attempt
      /\ verdict.status = "translated" \/ verdict.status \in Marked
      /\ y.stage = "qa" /\ y.worker = exec[e].worker /\ y.seen = exec[e].seen \cup {c}
      /\ y.snap = exec[e].snap
      /\ y.mem = [exec[e].mem EXCEPT ![c] = verdict]
      /\ y.pending = [exec[e].pending EXCEPT
                        ![c] = IF verdict.status \in Marked THEN NoText ELSE @]
      /\ rejected' = IF verdict.status \in Marked
                     THEN rejected \cup {<<c, exec[e].worker[c].text>>} ELSE rejected
  BY <1>2 DEF Checked
<1>4. UNCHANGED <<outputs, cache, calls>>
  BY DEF Check
<1>5. exec'[e] = y /\ \A d \in Runs \ {e} : exec'[d] = exec[d]
  BY <1>1, <1>3, Types
<1>6. exec[e].mem \in [Chunks -> ChunkState] /\ exec[e].pending \in [Chunks -> Text]
  BY <1>1, Types DEF Execution
<1>7. CASE k # c
  <2>1. /\ y.mem[k] = exec[e].mem[k] /\ y.pending[k] = exec[e].pending[k]
        /\ k \in y.seen <=> k \in exec[e].seen
        /\ states'[k] = states[k]
    BY <1>1, <1>3, <1>6, <1>7 DEF TypeOK
  <2>2. \A t \in Text : <<k, t>> \in rejected' => <<k, t>> \in rejected
    BY <1>3, <1>7
  <2>3. \A d \in Runs :
          /\ exec'[d].stage = exec[d].stage
          /\ exec'[d].mem[k] = exec[d].mem[k]
          /\ exec'[d].worker[k] = exec[d].worker[k]
          /\ exec'[d].pending[k] = exec[d].pending[k]
          /\ exec'[d].snap[k] = exec[d].snap[k]
          /\ k \in exec'[d].seen <=> k \in exec[d].seen
    BY <1>3, <1>5, <2>1
  <2>4. Untouched(k)
    BY <1>4, <2>1, <2>2, <2>3 DEF Untouched
  <2> QED
    BY <1>1, <2>4, UntouchedKept
<1>8. CASE k = c
  <2>1. ~Alive(e, c) /\ Underway(e, c) /\ Staged(e, c) /\ Filed(c)
    BY <1>3, <1>8 DEF Structure, Shape, Shaped, Alive, Kept
  <2>2. /\ exec[e].mem[c] = states[c] /\ states[c].status = "translated"
        /\ outputs[c] # <<>> /\ exec[e].worker[c].text = LastText(c)
        /\ exec[e].pending[c] \in {NoText, exec[e].worker[c].text}
    BY <1>3, <2>1 DEF Staged
  <2>3. states'[c] = verdict /\ y.mem[c] = verdict
        /\ y.pending[c] = IF verdict.status \in Marked THEN NoText ELSE exec[e].pending[c]
    BY <1>1, <1>3, <1>6 DEF TypeOK
  <2>4. verdict.status # "none" /\ (verdict.status = "translated" => verdict.status \notin Marked)
    BY <1>3 DEF Marked
  <2>5. Filed(c)'
    BY <1>3, <1>4, <2>1, <2>2, <2>3, <2>4 DEF Filed, LastText
  <2>6. ~Alive(e, c)'
    BY <1>3, <1>5, <2>1 DEF Alive
  <2>7. Underway(e, c)'
    BY <2>6 DEF Underway
  <2>8. y.pending[c] \in {NoText, exec[e].worker[c].text}
    BY <2>2, <2>3
  <2>9. /\ exec'[e].stage = "qa" /\ exec'[e].mem[c] = states'[c] /\ c \in exec'[e].seen
        /\ outputs'[c] # <<>> /\ exec'[e].worker[c].text = Last(outputs'[c]).text
        /\ exec'[e].pending[c] \in {NoText, exec'[e].worker[c].text}
        /\ states'[c].status # "translated" => exec'[e].pending[c] = NoText
    BY <1>3, <1>4, <1>5, <2>2, <2>3, <2>8 DEF LastText
  <2>10. Staged(e, c)'
    BY <2>9 DEF Staged, LastText
  <2> QED
    BY <1>3, <1>8, <2>5, <2>7, <2>10, AloneKept
<1> QED
  BY <1>7, <1>8

\* The beginning of a stage: what it takes from the files.
LEMMA StartedKeeps ==
  ASSUME Structure, NEW c \in Chunks, Filed(c), NEW e \in Runs, NEW x \in Execution,
         exec' = [exec EXCEPT ![e] = Started(x)],
         UNCHANGED <<states, outputs, calls>>,
         \A d \in Runs : e < d => exec[d].stage = "new",
         x.mem[c] \in {states[c], NoState},
         \/ x.pending[c] = NoText
         \/ states[c].status = "translated" /\ x.pending[c] = LastText(c)
  PROVE  Underway(e, c)' /\ Staged(e, c)'
<1>1. TypeOK /\ states[c] \in ChunkState /\ outputs[c] \in Seq(Output) /\ x.mem[c] \in ChunkState
  BY Types DEF Structure, Execution
<1>2. Merged(x.mem[c], states[c]) = states[c]
  BY <1>1, MergedType DEF Filed
<1>3. PICK y : y = Started(x)
  OBVIOUS
<1>4. /\ y.stage = "translate" /\ y.seen = {} /\ y.pending = x.pending
      /\ y.mem[c] = states[c] /\ y.worker[c] = Resumed(states[c], outputs[c])
  BY <1>1, <1>2, <1>3, StartedIs
<1>5. exec'[e] = y /\ \A d \in Runs \ {e} : exec'[d] = exec[d]
  BY <1>1, <1>3, Types
<1>6. IF states[c].status = "translated"
      THEN /\ outputs[c] # <<>> /\ y.worker[c].pc = "resumed"
           /\ y.worker[c].text = LastText(c)
      ELSE y.worker[c].pc = "ready" /\ x.pending[c] = NoText
  BY <1>1, <1>4, ResumedType DEF Filed, Ready, LastText
<1>7. Underway(e, c)'
  <2>1. \A d \in Runs : e < d => d # e
    BY DEF Runs
  <2> QED
    BY <1>4, <1>5, <1>6, <2>1 DEF Underway, Alive, Filed
<1>8. Staged(e, c)'
  BY <1>4, <1>5, <1>6 DEF Staged, Alive, LastText
<1> QED
  BY <1>7, <1>8

LEMMA BeginKeeps ==
  ASSUME Structure, NEW e \in Runs, Begin(e), NEW c \in Chunks \ astray', Kept(c)
  PROVE  Kept(c)'
<1>1. /\ exec' = [exec EXCEPT ![e] = Started(NoExecution)] /\ exec[e].stage = "new"
      /\ \A d \in 1..(e - 1) : ~Alive(d, c)
      /\ UNCHANGED <<states, outputs, cache, calls, rejected>>
  BY DEF Begin, files
<1>2. \A d \in Runs \ {e} : exec'[d] = exec[d]
  BY <1>1, Types DEF Structure
<1>3. \A d \in Runs : e < d => exec[d].stage = "new"
  BY <1>1 DEF Structure, InOrder
<1>4. Filed(c)'
  BY <1>1 DEF Kept, Filed, LastText
<1>5. Underway(e, c)' /\ Staged(e, c)'
  <2>1. NoExecution \in Execution /\ NoExecution.mem[c] = NoState /\ NoExecution.pending[c] = NoText
    BY BasicTypes DEF NoExecution
  <2> QED
    BY <1>1, <1>3, <2>1, StartedKeeps DEF Kept
<1>6. ASSUME NEW d \in Runs \ {e} PROVE Underway(d, c)' /\ Staged(d, c)'
  <2>1. ~Alive(d, c)
    <3>1. d \in 1..(e - 1) \/ e < d
      BY DEF Runs
    <3> QED
      BY <1>1, <1>3, <3>1 DEF Structure, Shape, Shaped, Alive
  <2>2. Staged(d, c)
    BY DEF Kept
  <2> QED
    BY <1>1, <1>2, <2>1, <2>2 DEF Underway, Staged, Alive, LastText
<1> QED
  BY <1>4, <1>5, <1>6 DEF Kept

LEMMA TranslateEndsKeeps ==
  ASSUME Structure, NEW e \in Runs, TranslateEnds(e), NEW c \in Chunks, Kept(c)
  PROVE  Kept(c)'
<1> DEFINE y == [exec[e] EXCEPT !.stage = "qa"]
<1>1. exec[e] \in Execution
  BY Types DEF Structure
<1>2. /\ y \in Execution /\ y.stage = "qa" /\ y.mem = exec[e].mem /\ y.worker = exec[e].worker
      /\ y.pending = exec[e].pending /\ y.seen = exec[e].seen
  BY <1>1 DEF Execution, Stages
<1>3. /\ exec' = [exec EXCEPT ![e] = y] /\ exec[e].stage = "translate" /\ ~Alive(e, c)
      /\ UNCHANGED <<states, outputs, cache, calls, rejected>>
  BY DEF TranslateEnds, Finished, Alive, files, history
<1> HIDE DEF y
<1>4. exec'[e] = y
  BY <1>3, Types DEF Structure
<1>5. Filed(c)'
  BY <1>3 DEF Kept, Filed, LastText
<1>6. Underway(e, c)'
  BY <1>2, <1>3, <1>4 DEF Underway, Alive
<1>7. Staged(e, c)'
  BY <1>2, <1>3, <1>4 DEF Staged, Alive, LastText, Kept
<1> QED
  BY <1>2, <1>3, <1>5, <1>6, <1>7, AloneKept

LEMMA QaEndsKeeps ==
  ASSUME Structure, NEW e \in Runs, QaEnds(e), NEW c \in Chunks, Kept(c)
  PROVE  Kept(c)'
<1>1. exec[e] \in Execution /\ exec \in [Runs -> Execution] /\ TypeOK
  BY Types DEF Structure
<1>2. PICK x \in Execution : x = exec[e]
  BY <1>1
<1>3. /\ x.stage = "qa" /\ c \in x.seen
      /\ UNCHANGED <<states, outputs, cache, calls, rejected>>
  BY <1>2 DEF QaEnds, files, history
<1>4. ~Alive(e, c) /\ x.worker[c].pc \notin {"ready", "calling"} /\ exec[e].stage \notin {"new", "over"}
  BY <1>2, <1>3 DEF Structure, Shape, Shaped, Alive
<1>5. /\ x.mem[c] = states[c] /\ outputs[c] # <<>> /\ x.worker[c].text = LastText(c)
      /\ x.pending[c] \in {NoText, x.worker[c].text}
      /\ states[c].status # "translated" => x.pending[c] = NoText
  BY <1>2, <1>3, <1>4 DEF Kept, Staged
<1>6. Filed(c)'
  BY <1>3 DEF Kept, Filed, LastText
<1>7. PICK y : /\ exec' = [exec EXCEPT ![e] = y]
               /\ \/ y = [x EXCEPT !.stage = "failing"]
                  \/ x.loops < MaxRetries /\ y = Started([x EXCEPT !.loops = @ + 1])
                  \/ y = [x EXCEPT !.stage = "flush"]
  BY <1>2 DEF QaEnds
<1>8. CASE y = [x EXCEPT !.stage = "failing"] \/ y = [x EXCEPT !.stage = "flush"]
  <2>1. /\ y \in Execution /\ y.stage \in {"failing", "flush"}
        /\ y.mem = x.mem /\ y.worker = x.worker /\ y.pending = x.pending
    BY <1>8 DEF Execution, Stages
  <2>2. exec'[e] = y
    BY <1>1, <1>7
  <2>3. Underway(e, c)'
    BY <1>4, <2>1, <2>2 DEF Underway, Alive
  <2>4. Staged(e, c)'
    BY <1>3, <1>5, <2>1, <2>2 DEF Staged, LastText
  <2> QED
    BY <1>4, <1>6, <1>7, <2>1, <2>3, <2>4, AloneKept
<1>9. CASE x.loops < MaxRetries /\ y = Started([x EXCEPT !.loops = @ + 1])
  <2>1. PICK z : z = [x EXCEPT !.loops = @ + 1]
    OBVIOUS
  <2>2. z \in Execution /\ z.mem = x.mem /\ z.pending = x.pending
    <3>1. x.loops + 1 \in 0..MaxRetries
      BY <1>9, Numbers DEF Execution
    <3> QED
      BY <2>1, <3>1 DEF Execution
  <2>3. \A d \in Runs : e < d => exec[d].stage = "new"
    BY <1>4 DEF Structure, InOrder
  <2>4. Underway(e, c)' /\ Staged(e, c)'
    BY <1>3, <1>5, <1>7, <1>9, <2>1, <2>2, <2>3, StartedKeeps DEF Kept
  <2>5. y \in Execution
    BY <1>1, <1>9, <2>1, <2>2, StartedIs
  <2> QED
    BY <1>4, <1>6, <1>7, <2>4, <2>5, AloneKept
<1> QED
  BY <1>7, <1>8, <1>9

LEMMA QaRaisesKeeps ==
  ASSUME Structure, NEW e \in Runs, QaRaises(e), NEW c \in Chunks, Kept(c)
  PROVE  Kept(c)'
<1>1. exec[e] \in Execution /\ exec \in [Runs -> Execution] /\ TypeOK
  BY Types DEF Structure
<1>2. PICK x \in Execution : x = exec[e]
  BY <1>1
<1>3. PICK y : y = [x EXCEPT !.stage = "failing"]
  OBVIOUS
<1>4. /\ x.stage = "qa" /\ exec' = [exec EXCEPT ![e] = y]
      /\ UNCHANGED <<states, outputs, cache, calls, rejected>>
  BY <1>1, <1>2, <1>3 DEF QaRaises, files, history, Execution
<1>5. ~Alive(e, c) /\ x.worker[c].pc \notin {"ready", "calling"} /\ exec[e].stage \notin {"new", "over"}
  BY <1>2, <1>4 DEF Structure, Shape, Shaped, Alive
<1>6. x.mem[c] = states[c]
  BY <1>2, <1>4 DEF Kept, Staged
<1>7. y \in Execution /\ y.stage = "failing" /\ y.mem = x.mem /\ y.worker = x.worker
  BY <1>3 DEF Execution, Stages
<1>8. exec'[e] = y
  BY <1>1, <1>4
<1>9. Filed(c)'
  BY <1>4 DEF Kept, Filed, LastText
<1>10. Underway(e, c)'
  BY <1>5, <1>7, <1>8 DEF Underway, Alive
<1>11. Staged(e, c)'
  BY <1>4, <1>6, <1>7, <1>8 DEF Staged, LastText
<1> QED
  BY <1>4, <1>5, <1>7, <1>9, <1>10, <1>11, AloneKept

LEMMA FlushKeeps ==
  ASSUME Structure, NEW e \in Runs, Flush(e), NEW c \in Chunks, Kept(c)
  PROVE  Kept(c)'
<1> DEFINE y == [exec[e] EXCEPT !.stage = "save"]
<1>1. exec[e] \in Execution
  BY Types DEF Structure
<1>2. y \in Execution /\ y.stage = "save" /\ y.worker = exec[e].worker
  BY <1>1 DEF Execution, Stages
<1>3. /\ exec' = [exec EXCEPT ![e] = y] /\ exec[e].stage = "flush"
      /\ cache'[c] = IF Flushable(exec[e], c) = NoText THEN cache[c] ELSE Flushable(exec[e], c)
      /\ UNCHANGED <<states, outputs, calls, rejected>>
  BY DEF Flush, files, history
<1> HIDE DEF y
<1>4. exec'[e] = y
  BY <1>3, Types DEF Structure
<1>5. ~Alive(e, c)
  BY <1>3 DEF Structure, Shape, Shaped, Alive
<1>6. cache'[c] = cache[c] \/ cache'[c] = LastText(c)
  BY <1>3, <1>5 DEF Flushable, Kept, Staged
<1>7. Filed(c)'
  BY <1>3, <1>6 DEF Kept, Filed, LastText
<1>8. Underway(e, c)' /\ Staged(e, c)'
  BY <1>2, <1>4, <1>5 DEF Underway, Staged, Alive
<1> QED
  BY <1>2, <1>3, <1>7, <1>8, AloneKept

LEMMA HandleKeeps ==
  ASSUME Structure, NEW e \in Runs, Handle(e), NEW c \in Chunks, Kept(c)
  PROVE  Kept(c)'
<1> DEFINE y == [exec[e] EXCEPT !.stage = "handled", !.snap = exec[e].mem]
<1>1. exec[e] \in Execution
  BY Types DEF Structure
<1>2. /\ y \in Execution /\ y.stage = "handled" /\ y.snap = exec[e].mem /\ y.mem = exec[e].mem
      /\ y.worker = exec[e].worker
  BY <1>1 DEF Execution, Stages
<1>3. /\ exec' = [exec EXCEPT ![e] = y] /\ exec[e].stage = "failing"
      /\ UNCHANGED <<states, outputs, cache, calls, rejected>>
  BY <1>1 DEF Handle, files, history, Execution
<1> HIDE DEF y
<1>4. exec'[e] = y /\ \A d \in Runs \ {e} : exec'[d] = exec[d]
  BY <1>3, Types DEF Structure
<1>5. Filed(c)'
  BY <1>3 DEF Kept, Filed, LastText
<1>6. exec[e].mem[c] = states[c] /\ Underway(e, c)
  BY <1>3 DEF Kept, Staged
<1>7. Underway(e, c)'
  <2>1. \A d \in Runs : e < d => d # e
    BY DEF Runs
  <2> QED
    BY <1>2, <1>3, <1>4, <1>6, <2>1 DEF Underway, Alive
<1>8. Staged(e, c)'
  BY <1>2, <1>3, <1>4, <1>6 DEF Staged
<1> QED
  BY <1>2, <1>3, <1>5, <1>7, <1>8, AloneKept

LEMMA HandlerKeeps ==
  ASSUME Structure, NEW e \in Runs, HandlerWrites(e), NEW c \in Chunks \ astray', Kept(c)
  PROVE  Kept(c)'
<1>1. TypeOK /\ exec[e] \in Execution
  BY Types DEF Structure
<1>2. PICK y \in Execution : y = Remains(exec[e])
  BY <1>1, RemainsType
<1>3. /\ exec' = [exec EXCEPT ![e] = y] /\ exec[e].stage = "handled"
      /\ states'[c] = IF exec[e].snap[c].status = "none" THEN states[c] ELSE exec[e].snap[c]
      /\ c \notin TakenBack
      /\ UNCHANGED <<outputs, cache, calls, rejected>>
  BY <1>2 DEF HandlerWrites
<1>4. exec'[e] = y /\ \A d \in Runs \ {e} : exec'[d] = exec[d]
  BY <1>1, <1>3, Types
<1>5. states'[c].attempt \in Nat /\ states[c].attempt \in Nat /\ states'[c].attempt >= states[c].attempt
  <2>1. states[c] \in ChunkState /\ states'[c] \in ChunkState
    BY <1>1, <1>3, Types
  <2> QED
    BY <1>3, <2>1, Numbers DEF TakenBack, ChunkState
<1>6. Filed(c) /\ Underway(e, c) /\ Staged(e, c)
  BY DEF Kept
<1>7. calls[c] \in Nat /\ \A i \in DOMAIN outputs[c] : outputs[c][i].attempt \in Nat
  <2>1. \A o \in Output : o.attempt \in Nat
    BY Numbers DEF Output
  <2> QED
    BY <1>1, <2>1, Types
<1>8. Filed(c)'
  <2>1. states'[c].status = "none" => states'[c] = NoState
    BY <1>3, <1>6 DEF Filed
  <2>2. calls[c] <= states'[c].attempt /\ Below(outputs[c], states'[c].attempt)
    BY <1>5, <1>6, <1>7 DEF Filed, Below
  <2>3. states'[c].status = "translated" => states[c].status = "translated"
    BY <1>3, <1>6 DEF Staged
  <2> QED
    BY <1>3, <1>6, <2>1, <2>2, <2>3 DEF Filed, LastText
<1>9. /\ y.stage = "over"
      /\ y.worker[c].pc \in {"ready", "calling"} => Alive(e, c) /\ y.mem[c] = exec[e].mem[c]
  BY <1>1, <1>2, RemainsType DEF Alive, Off
<1>10. Underway(e, c)'
  <2>1. \A d \in Runs : e < d => d # e
    BY DEF Runs
  <2> QED
    BY <1>3, <1>4, <1>6, <1>9, <2>1 DEF Underway, Alive
<1>11. Staged(e, c)'
  BY <1>4, <1>9 DEF Staged
<1> QED
  BY <1>3, <1>8, <1>10, <1>11, AloneKept

\* An execution that ends, and the end of all of them.
LEMMA EndKeeps ==
  ASSUME Structure, NEW e \in Runs, Save(e) \/ Cancel(e), NEW c \in Chunks, Kept(c)
  PROVE  Kept(c)'
<1>1. PICK s \in {"done", "over"} : exec' = [exec EXCEPT ![e] = [NoExecution EXCEPT !.stage = s]]
  BY DEF Save, Cancel
<1>2. /\ exec[e].stage \notin {"new", "over"}
      /\ UNCHANGED <<states, outputs, cache, calls, rejected>>
  BY DEF Save, Cancel, Running, files, history
<1>3. PICK y \in Execution : /\ y = [NoExecution EXCEPT !.stage = s] /\ y.stage = s
                             /\ y.worker[c] = Off
  BY EmptyShape, BasicTypes DEF NoExecution, Stages
<1>4. exec' = [exec EXCEPT ![e] = y] /\ exec'[e] = y
  BY <1>1, <1>3, Types DEF Structure
<1>5. Filed(c)'
  BY <1>2 DEF Kept, Filed, LastText
<1>6. exec'[e].stage \in {"done", "over"} /\ ~Alive(e, c)'
  <2>1. y.stage \in {"done", "over"} /\ y.worker[c] = Off /\ exec'[e] = y
    BY <1>3, <1>4
  <2> QED
    BY <2>1 DEF Alive, Off
<1>7. Underway(e, c)'
  BY <1>6 DEF Underway
<1>8. Staged(e, c)'
  BY <1>6 DEF Staged
<1> QED
  BY <1>2, <1>4, <1>5, <1>7, <1>8, AloneKept

LEMMA EndedKeeps ==
  ASSUME Structure, exec' = Ended, NEW c \in Chunks, Kept(c),
         UNCHANGED <<outputs, cache, calls, rejected>>, states'[c] = states[c]
  PROVE  Kept(c)'
<1>1. Filed(c)'
  BY DEF Kept, Filed, LastText
<1>2. ASSUME NEW e \in Runs PROVE Underway(e, c)' /\ Staged(e, c)'
  <2>1. /\ exec'[e].stage = IF Running(exec[e]) THEN "over" ELSE exec[e].stage
        /\ exec'[e].worker[c] = Off
    BY EndedIs DEF Structure
  <2>2. ~Alive(e, c)'
    BY <2>1 DEF Alive, Off
  <2>3. exec'[e].stage \in {"new", "over", "done"}
    BY <2>1 DEF Running
  <2> QED
    BY <2>2, <2>3 DEF Underway, Staged
<1> QED
  BY <1>1, <1>2 DEF Kept
-----------------------------------------------------------------------------
(* Where texts are: that of a call under way is nowhere but with its       *)
(* worker, and one that waits to be cached has not been rejected.          *)

Clear(c, t) ==
  /\ \A i \in DOMAIN outputs[c] : outputs[c][i].text # t
  /\ \A i \in DOMAIN foreign.outputs[c] : foreign.outputs[c][i].text # t
  /\ cache[c] # t
  /\ <<c, t>> \notin rejected /\ <<c, t>> \notin scored

\* Nothing but the workers of some executions has the text t.
Owned(c, t, owners) ==
  /\ t # NoText
  /\ Clear(c, t)
  /\ \A d \in Runs : exec[d].pending[c] # t
  /\ \A d \in Runs \ owners : exec[d].worker[c].text # t

\* A text of an execution that may yet write it to the cache.
Unrejected(x, c) ==
  x.pending[c] # NoText =>
    /\ <<c, x.pending[c]>> \notin rejected
    /\ x.stage \in {"translate", "qa", "flush"} => <<c, x.pending[c]>> \notin scored

Fresh(c) ==
  /\ \A t \in Text : t > calls[c] => Owned(c, t, {})
  /\ \A e \in Runs : exec[e].worker[c].pc = "calling" => Owned(c, exec[e].worker[c].text, {e})
  /\ \A e \in Runs : Unrejected(exec[e], c)

\* A text that is nowhere but with calls under way stays so.
Flows(c) ==
  \A t \in Text, owners \in SUBSET Runs :
    /\ Owned(c, t, owners)
    /\ \A e \in owners : exec'[e].worker[c].pc = "calling"
    => Owned(c, t, owners)'

\* Every call under way was under way before.
NoCall(c) ==
  \A e \in Runs : exec'[e].worker[c].pc = "calling" => exec'[e].worker[c] = exec[e].worker[c]

LEMMA FlowFresh ==
  ASSUME TypeOK, NEW c \in Chunks, Fresh(c), Flows(c), NoCall(c), calls'[c] = calls[c],
         \A e \in Runs : Unrejected(exec[e], c)'
  PROVE  Fresh(c)'
<1>1. ASSUME NEW t \in Text, t > calls'[c] PROVE Owned(c, t, {})'
  BY <1>1 DEF Fresh, Flows
<1>2. ASSUME NEW e \in Runs, exec'[e].worker[c].pc = "calling"
      PROVE  Owned(c, exec[e].worker[c].text, {e})' /\ exec'[e].worker[c] = exec[e].worker[c]
  BY <1>2, Types DEF Fresh, Flows, NoCall
<1> QED
  BY <1>1, <1>2 DEF Fresh

\* Steps of the stages: a worker keeps its text, is gone, or resumes from an
\* output, and what waits to be cached stays or goes.
Quiet(c) ==
  \A e \in Runs :
    /\ \/ exec'[e].worker[c] = exec[e].worker[c]
       \/ /\ exec'[e].worker[c].pc # "calling"
          /\ \/ exec'[e].worker[c].text = NoText
             \/ \E i \in DOMAIN outputs[c] : exec'[e].worker[c].text = outputs[c][i].text
    /\ exec'[e].pending[c] \in {exec[e].pending[c], NoText}

LEMMA QuietFresh ==
  ASSUME TypeOK, NEW c \in Chunks, Fresh(c), Quiet(c), calls'[c] = calls[c], rejected' = rejected,
         \A e \in Runs :
           exec'[e].stage \in {"translate", "qa", "flush"} /\ exec'[e].pending[c] # NoText
           => <<c, exec'[e].pending[c]>> \notin scored',
         \A t \in Text : /\ t # NoText /\ Clear(c, t)
                         /\ \A d \in Runs : exec[d].pending[c] # t
                         /\ \A d \in Runs : exec[d].worker[c].pc # "calling" => exec[d].worker[c].text # t
                         => /\ \A i \in DOMAIN outputs'[c] : outputs'[c][i].text # t
                            /\ \A i \in DOMAIN foreign'.outputs[c] : foreign'.outputs[c][i].text # t
                            /\ cache'[c] # t
                            /\ <<c, t>> \notin scored'
  PROVE  Fresh(c)'
<1>1. ASSUME NEW t \in Text, NEW owners \in SUBSET Runs, Owned(c, t, owners)
      PROVE  /\ \A d \in Runs : exec'[d].pending[c] # t
             /\ \A d \in Runs \ owners : exec'[d].worker[c].text # t
  BY <1>1 DEF Owned, Clear, Quiet
<1>2. Flows(c)
  <2> SUFFICES ASSUME NEW t \in Text, NEW owners \in SUBSET Runs, Owned(c, t, owners),
                      \A d \in owners : exec'[d].worker[c].pc = "calling"
               PROVE  Owned(c, t, owners)'
    BY DEF Flows
  <2>1. \A d \in Runs : exec[d].worker[c].pc # "calling" => exec[d].worker[c].text # t
    BY DEF Owned, Quiet
  <2>2. t # NoText /\ Clear(c, t) /\ \A d \in Runs : exec[d].pending[c] # t
    BY DEF Owned
  <2>3. Clear(c, t)'
    BY <2>1, <2>2 DEF Clear
  <2> QED
    BY <1>1, <2>2, <2>3 DEF Owned
<1>3. NoCall(c)
  BY DEF Quiet, NoCall
<1>4. \A e \in Runs : Unrejected(exec[e], c)'
  BY DEF Quiet, Fresh, Unrejected
<1> QED
  BY <1>2, <1>3, <1>4, FlowFresh

LEMMA ScoredStays ==
  ASSUME NEW e \in Runs,
         \/ Begin(e) \/ TranslateEnds(e) \/ QaRaises(e) \/ Flush(e) \/ Save(e)
         \/ Handle(e) \/ HandlerWrites(e) \/ Cancel(e)
  PROVE  scored' = scored
BY DEF Begin, TranslateEnds, QaRaises, Flush, Save, Handle, HandlerWrites, Cancel, history

\* What waits in an execution that goes on has not been rejected by its score:
\* QA fails when it rejects one, and no other execution has a text that waits.
LEMMA StageAccepts ==
  ASSUME Structure, NEW c \in Chunks, Fresh(c), Quiet(c), NEW e \in Runs,
         \/ Begin(e) \/ TranslateEnds(e) \/ QaRaises(e) \/ QaEnds(e) \/ Flush(e) \/ Save(e)
         \/ Handle(e) \/ HandlerWrites(e) \/ Cancel(e),
         NEW d \in Runs, exec'[d].stage \in {"translate", "qa", "flush"},
         exec'[d].pending[c] # NoText
  PROVE  <<c, exec'[d].pending[c]>> \notin scored'
<1>1. exec \in [Runs -> Execution] /\ exec[e] \in Execution
  BY Types DEF Structure
<1>2. exec'[d].pending[c] = exec[d].pending[c] /\ exec[d].pending[c] # NoText
  BY DEF Quiet
<1>3. exec[d].stage \notin {"new", "over", "done"}
  BY <1>2 DEF Structure, Shape, Shaped
<1>4. PICK y : exec' = [exec EXCEPT ![e] = y]
  BY DEF Begin, TranslateEnds, QaRaises, QaEnds, Flush, Save, Handle, HandlerWrites, Cancel
<1>5. exec[e].stage = "new" => Begin(e)
  BY DEF TranslateEnds, QaRaises, QaEnds, Flush, Save, Handle, HandlerWrites, Cancel, Running
<1>6. d = e
  <2>1. ASSUME d # e PROVE FALSE
    <3>1. d < e \/ e < d
      BY <2>1 DEF Runs
    <3>2. exec[e].stage \notin {"new", "over"} => exec[d].stage \in {"new", "over"}
      BY <3>1 DEF Structure, InOrder
    <3>3. exec[e].stage = "new" => exec[d].stage \in {"new", "over"}
      BY <1>5, <3>1 DEF Begin, Runs, Structure, InOrder
    <3>4. exec[e].stage # "over"
      BY DEF Begin, TranslateEnds, QaRaises, QaEnds, Flush, Save, Handle, HandlerWrites, Cancel,
             Running
    <3> QED
      BY <1>3, <3>2, <3>3, <3>4
  <2> QED
    BY <2>1
<1>7. CASE QaEnds(e)
  <2>1. scored' = scored
    BY <1>6, <1>7, QaScores DEF Structure
  <2> QED
    BY <1>2, <1>6, <1>7, <2>1 DEF QaEnds, Fresh, Unrejected
<1>8. CASE TranslateEnds(e)
  BY <1>2, <1>6, <1>8, ScoredStays DEF TranslateEnds, Fresh, Unrejected
<1>9. CASE Begin(e)
  BY <1>3, <1>6, <1>9 DEF Begin
<1>10. CASE QaRaises(e) \/ Flush(e) \/ Handle(e)
  <2>1. exec'[e].stage \in {"failing", "save", "handled"}
    BY <1>1, <1>10 DEF QaRaises, Flush, Handle, Execution
  <2> QED
    BY <1>6, <2>1
<1>11. CASE Save(e) \/ Cancel(e) \/ HandlerWrites(e)
  <2>1. exec'[e].stage \in {"done", "over"}
    BY <1>1, <1>11 DEF Save, Cancel, HandlerWrites, Remains, NoExecution
  <2> QED
    BY <1>6, <2>1
<1> QED
  BY <1>7, <1>8, <1>9, <1>10, <1>11

LEMMA StageFresh ==
  ASSUME Structure, NEW c \in Chunks, Fresh(c), NEW e \in Runs,
         \/ Begin(e) \/ TranslateEnds(e) \/ QaRaises(e) \/ QaEnds(e) \/ Flush(e) \/ Save(e)
         \/ Handle(e) \/ HandlerWrites(e) \/ Cancel(e)
  PROVE  Fresh(c)'
<1>1. TypeOK /\ exec \in [Runs -> Execution]
  BY Types DEF Structure
<1>2. PICK x \in Execution : x = exec[e]
  BY <1>1
<1>3. ASSUME NEW y, exec' = [exec EXCEPT ![e] = y],
             \/ y.worker[c] = x.worker[c]
             \/ /\ y.worker[c].pc # "calling"
                /\ \/ y.worker[c].text = NoText
                   \/ \E i \in DOMAIN outputs[c] : y.worker[c].text = outputs[c][i].text,
             y.pending[c] \in {x.pending[c], NoText}
      PROVE  Quiet(c)
  BY <1>1, <1>2, <1>3 DEF Quiet
<1>4. ASSUME NEW z \in Execution
      PROVE  LET y == Started(z) IN
             /\ y.pending = z.pending
             /\ y.worker[c].pc # "calling"
             /\ \/ y.worker[c].text = NoText
                \/ \E i \in DOMAIN outputs[c] : y.worker[c].text = outputs[c][i].text
  <2>1. /\ Started(z).pending = z.pending
        /\ Merged(z.mem[c], states[c]) \in ChunkState
        /\ Started(z).worker[c] = Resumed(Merged(z.mem[c], states[c]), outputs[c])
    BY <1>1, StartedIs
  <2>2. outputs[c] \in Seq(Output)
    BY <1>1, Types
  <2> QED
    BY <2>1, <2>2, ResumedType, LastOutput DEF Ready
<1>5. ASSUME NEW s \in Stages
      PROVE  LET y == [NoExecution EXCEPT !.stage = s] IN
             y.worker[c] = Off /\ y.pending[c] = NoText
  BY DEF NoExecution
<1>6. Off.pc # "calling" /\ Off.text = NoText
  BY DEF Off
<1>7. Quiet(c)
  <2>1. CASE Begin(e)
    <3>1. NoExecution \in Execution /\ NoExecution.pending[c] = NoText
      BY BasicTypes DEF NoExecution
    <3> QED
      BY <1>3, <1>4, <2>1, <3>1 DEF Begin
  <2>2. CASE TranslateEnds(e) \/ Handle(e) \/ Flush(e)
    <3>1. PICK y : /\ exec' = [exec EXCEPT ![e] = y]
                   /\ \/ y = [x EXCEPT !.stage = "qa"]
                      \/ y = [x EXCEPT !.stage = "handled", !.snap = x.mem]
                      \/ y = [x EXCEPT !.stage = "save"]
      BY <1>1, <1>2, <2>2 DEF TranslateEnds, Handle, Flush, Execution
    <3>2. y.worker = x.worker /\ y.pending = x.pending
      BY <3>1 DEF Execution
    <3> QED
      BY <1>3, <3>1, <3>2
  <2>3. CASE QaRaises(e) \/ QaEnds(e)
    <3>1. PICK y : /\ exec' = [exec EXCEPT ![e] = y]
                   /\ \/ y = [x EXCEPT !.stage = "failing"]
                      \/ x.loops < MaxRetries /\ y = Started([x EXCEPT !.loops = @ + 1])
                      \/ y = [x EXCEPT !.stage = "flush"]
      BY <1>1, <1>2, <2>3, QaMoves
    <3>2. CASE x.loops < MaxRetries /\ y = Started([x EXCEPT !.loops = @ + 1])
      <4>1. PICK z : z = [x EXCEPT !.loops = @ + 1]
        OBVIOUS
      <4>2. z \in Execution /\ z.pending = x.pending
        <5>1. x.loops + 1 \in 0..MaxRetries
          BY <3>2, Numbers DEF Execution
        <5> QED
          BY <4>1, <5>1 DEF Execution
      <4> QED
        BY <1>3, <1>4, <3>1, <3>2, <4>1, <4>2
    <3>3. CASE y = [x EXCEPT !.stage = "failing"] \/ y = [x EXCEPT !.stage = "flush"]
      <4>1. y.worker = x.worker /\ y.pending = x.pending
        BY <3>3 DEF Execution
      <4> QED
        BY <1>3, <3>1, <4>1
    <3> QED
      BY <3>1, <3>2, <3>3
  <2>4. CASE Save(e) \/ Cancel(e)
    <3>1. PICK s \in Stages : exec' = [exec EXCEPT ![e] = [NoExecution EXCEPT !.stage = s]]
      BY <2>4 DEF Save, Cancel, Stages
    <3> QED
      BY <1>3, <1>5, <1>6, <3>1
  <2>5. CASE HandlerWrites(e)
    <3>1. exec' = [exec EXCEPT ![e] = Remains(x)]
      BY <1>2, <2>5 DEF HandlerWrites
    <3> QED
      BY <1>3, <1>6, <3>1, RemainsType
  <2> QED
    BY <2>1, <2>2, <2>3, <2>4, <2>5
<1>8. UNCHANGED <<outputs, foreign, calls, rejected>>
  BY DEF Begin, TranslateEnds, QaRaises, QaEnds, Flush, Save, Handle, HandlerWrites, Cancel, files, history
<1>9. cache'[c] \in {cache[c], exec[e].pending[c]}
  <2>1. CASE Flush(e)
    BY <2>1 DEF Flush, Flushable
  <2>2. CASE ~Flush(e)
    BY <2>2 DEF Begin, TranslateEnds, QaRaises, QaEnds, Save, Handle, HandlerWrites, Cancel
  <2> QED
    BY <2>1, <2>2
<1>10. ASSUME NEW t \in Text, <<c, t>> \notin scored,
              \A d \in Runs : exec[d].worker[c].pc # "calling" => exec[d].worker[c].text # t
       PROVE  <<c, t>> \notin scored'
  <2>1. CASE QaEnds(e)
    <3>1. exec[e].worker[c].pc # "calling"
      BY <2>1 DEF QaEnds, Structure, Shape, Shaped
    <3> QED
      BY <1>1, <1>10, <2>1, <3>1, QaScores
  <2>2. CASE ~QaEnds(e)
    BY <1>10, <2>2, ScoredStays
  <2> QED
    BY <2>1, <2>2
<1>11. ASSUME NEW d \in Runs, exec'[d].stage \in {"translate", "qa", "flush"},
              exec'[d].pending[c] # NoText
       PROVE  <<c, exec'[d].pending[c]>> \notin scored'
  BY <1>7, <1>11, StageAccepts
<1> QED
  BY <1>1, <1>7, <1>8, <1>9, <1>10, <1>11, QuietFresh DEF Clear

LEMMA EndedFresh ==
  ASSUME Structure, NEW c \in Chunks, Fresh(c), exec' = Ended,
         UNCHANGED <<outputs, cache, foreign, calls, rejected, scored>>
  PROVE  Fresh(c)'
<1>1. Quiet(c)
  BY EndedIs DEF Structure, Quiet, Off
<1>2. \A d \in Runs : exec'[d].stage \notin {"translate", "qa", "flush"}
  BY EndedIs DEF Structure, Running
<1> QED
  BY <1>1, <1>2, QuietFresh DEF Structure, Clear

LEMMA ForeignFresh ==
  ASSUME Structure, NEW c \in Chunks, Fresh(c), ForeignRead \/ ForeignWrite
  PROVE  Fresh(c)'
<1>1. Quiet(c) /\ UNCHANGED <<calls, rejected, scored, cache>>
  BY DEF ForeignRead, ForeignWrite, Quiet, files, history
<1>2. outputs'[c] = outputs[c] \/ outputs'[c] = foreign.outputs[c]
  BY DEF ForeignRead, ForeignWrite, files
<1>3. \/ foreign'.outputs[c] = <<>> \/ foreign'.outputs[c] = outputs[c]
  <2>1. PICK n \in Foreign : /\ n = NotRead
                             /\ n.outputs = [k \in Chunks |-> <<>>]
    BY NotReadType
  <2>2. \/ foreign' = n \/ foreign' = [n EXCEPT !.file = "states", !.states = states]
        \/ foreign' = [n EXCEPT !.file = "outputs", !.outputs = outputs]
    BY <2>1 DEF ForeignRead, ForeignWrite
  <2> QED
    BY <2>1, <2>2 DEF Foreign
<1>4. UNCHANGED exec
  BY DEF ForeignRead, ForeignWrite
<1>5. \A d \in Runs :
        exec'[d].stage \in {"translate", "qa", "flush"} /\ exec'[d].pending[c] # NoText
        => <<c, exec'[d].pending[c]>> \notin scored'
  BY <1>1, <1>4 DEF Fresh, Unrejected
<1>6. ASSUME NEW t \in Text, Clear(c, t)
      PROVE  /\ \A i \in DOMAIN outputs'[c] : outputs'[c][i].text # t
             /\ \A i \in DOMAIN foreign'.outputs[c] : foreign'.outputs[c][i].text # t
             /\ cache'[c] # t /\ <<c, t>> \notin scored'
  <2>1. \A i \in DOMAIN outputs'[c] : outputs'[c][i].text # t
    BY <1>2, <1>6 DEF Clear
  <2>2. \A i \in DOMAIN foreign'.outputs[c] : foreign'.outputs[c][i].text # t
    BY <1>3, <1>6 DEF Clear
  <2> QED
    BY <1>1, <1>6, <2>1, <2>2 DEF Clear
<1> QED
  BY <1>1, <1>5, <1>6, QuietFresh DEF Structure

\* Steps of a worker.
LEMMA WorkerOwned ==
  ASSUME TypeOK, NEW e \in Runs, NEW c \in Chunks, NEW state, NEW w \in Worker, NEW p \in Text,
         WorkerStep(e, c, state, w, p),
         NEW k \in Chunks, NEW t \in Text, NEW owners \in SUBSET Runs, Owned(k, t, owners),
         UNCHANGED <<foreign, cache, rejected, scored>>,
         k # c => outputs'[k] = outputs[k],
         k = c => /\ w.text # t \/ e \in owners
                  /\ p # t
                  /\ \A i \in DOMAIN outputs'[c] : outputs'[c][i].text # t
  PROVE  Clear(k, t)' /\ Owned(k, t, owners)'
<1>1. PICK y \in Execution : Moved(exec[e], y, c, state, w, p) /\ exec' = [exec EXCEPT ![e] = y]
  BY DEF WorkerStep
<1>2. exec'[e] = y /\ \A d \in Runs \ {e} : exec'[d] = exec[d]
  BY <1>1, Types
<1>3. /\ k # c => y.worker[k] = exec[e].worker[k] /\ y.pending[k] = exec[e].pending[k]
      /\ y.worker[c] \in {w, Off} /\ y.pending[c] \in {NoText, p}
  BY <1>1 DEF Moved
<1>4. Clear(k, t)'
  BY DEF Owned, Clear
<1>5. \A d \in Runs : exec'[d].pending[k] # t
  BY <1>2, <1>3 DEF Owned
<1>6. \A d \in Runs \ owners : exec'[d].worker[k].text # t
  BY <1>2, <1>3 DEF Owned, Off
<1> QED
  BY <1>4, <1>5, <1>6 DEF Owned

LEMMA WorkerNoCall ==
  ASSUME TypeOK, NEW e \in Runs, NEW c \in Chunks, NEW state, NEW w, NEW p,
         WorkerStep(e, c, state, w, p), NEW k \in Chunks, w.pc # "calling" \/ k # c
  PROVE  NoCall(k)
<1>1. PICK y \in Execution : Moved(exec[e], y, c, state, w, p) /\ exec' = [exec EXCEPT ![e] = y]
  BY DEF WorkerStep
<1>2. exec'[e] = y /\ \A d \in Runs \ {e} : exec'[d] = exec[d]
  BY <1>1, Types
<1>3. /\ k # c => y.worker[k] = exec[e].worker[k]
      /\ y.worker[c] \in {w, Off}
  BY <1>1 DEF Moved
<1> QED
  BY <1>2, <1>3 DEF NoCall, Off

LEMMA WorkerAccepts ==
  ASSUME TypeOK, NEW e \in Runs, NEW c \in Chunks, NEW state, NEW w, NEW p,
         WorkerStep(e, c, state, w, p), NEW k \in Chunks, Fresh(k), UNCHANGED <<rejected, scored>>,
         p = exec[e].pending[c] \/ (<<c, p>> \notin rejected /\ <<c, p>> \notin scored)
  PROVE  \A d \in Runs : Unrejected(exec[d], k)'
<1>1. PICK y \in Execution : Moved(exec[e], y, c, state, w, p) /\ exec' = [exec EXCEPT ![e] = y]
  BY DEF WorkerStep
<1>2. exec'[e] = y /\ \A d \in Runs \ {e} : exec'[d] = exec[d]
  BY <1>1, Types
<1>3. /\ k # c => y.pending[k] = exec[e].pending[k]
      /\ y.pending[c] \in {NoText, p}
      /\ y.stage = exec[e].stage \/ y.stage = "failing"
  BY <1>1 DEF Moved
<1> QED
  BY <1>2, <1>3 DEF Fresh, Unrejected

\* An output is that of the step or was there before.
LEMMA StoredTexts ==
  ASSUME TypeOK, NEW c \in Chunks, NEW attempt \in Attempt, NEW text \in Text,
         SavesOutput(c, attempt, text)
  PROVE  /\ \A k \in Chunks \ {c} : outputs'[k] = outputs[k]
         /\ \A i \in DOMAIN outputs'[c] :
              \/ outputs'[c][i].text = text
              \/ \E j \in DOMAIN outputs[c] : outputs'[c][i].text = outputs[c][j].text
<1> DEFINE output == [attempt |-> attempt, text |-> text]
<1>1. PICK list \in Seq(Output) : list = outputs[c]
  BY Types
<1>2. outputs'[c] = Stored(list, attempt, text) /\ \A k \in Chunks \ {c} : outputs'[k] = outputs[k]
  BY <1>1 DEF SavesOutput, TypeOK
<1>3. output.text = text
  OBVIOUS
<1>4. CASE \E i \in DOMAIN list : list[i].attempt = attempt
  <2>1. Stored(list, attempt, text)
          = [j \in DOMAIN list |-> IF list[j].attempt = attempt THEN output ELSE list[j]]
    BY <1>4 DEF Stored
  <2> HIDE DEF output
  <2> QED
    BY <1>1, <1>2, <1>3, <2>1
<1>5. CASE ~ \E i \in DOMAIN list : list[i].attempt = attempt
  <2>1. Stored(list, attempt, text) = Append(list, output)
    BY <1>5 DEF Stored
  <2>2. output \in Output
    BY DEF Output, Attempt
  <2> HIDE DEF output
  <2>3. /\ DOMAIN Append(list, output) = 1..(Len(list) + 1)
        /\ Append(list, output)[Len(list) + 1] = output
        /\ \A j \in DOMAIN list : Append(list, output)[j] = list[j]
        /\ DOMAIN list = 1..Len(list) /\ Len(list) \in Nat
    BY <2>2
  <2>4. ASSUME NEW i \in DOMAIN outputs'[c]
        PROVE  i = Len(list) + 1 \/ i \in DOMAIN list
    BY <1>2, <2>1, <2>3, <2>4
  <2> QED
    BY <1>1, <1>2, <1>3, <2>1, <2>3, <2>4
<1> QED
  BY <1>2, <1>4, <1>5

\* The texts a worker may leave in a chunk: none, one that is stored, and the
\* one of the call it makes.
Known(e, c, t) ==
  \/ t = NoText \/ t = cache[c]
  \/ \E j \in DOMAIN outputs[c] : t = outputs[c][j].text
  \/ exec[e].worker[c].pc = "calling" /\ t = exec[e].worker[c].text

LEMMA WorkerFresh ==
  ASSUME TypeOK, NEW e \in Runs, NEW c \in Chunks, NEW state, NEW w \in Worker, NEW p \in Text,
         WorkerStep(e, c, state, w, p), w.pc # "calling",
         NEW k \in Chunks, Fresh(k), Fresh(c),
         UNCHANGED <<foreign, cache, calls, rejected, scored>>,
         k # c => outputs'[k] = outputs[k],
         \/ p = exec[e].pending[c]
         \/ exec[e].worker[c].pc = "calling" /\ p = exec[e].worker[c].text,
         Known(e, c, w.text),
         \A i \in DOMAIN outputs'[c] : Known(e, c, outputs'[c][i].text)
  PROVE  Fresh(k)'
<1>1. PICK y \in Execution : Moved(exec[e], y, c, state, w, p) /\ exec' = [exec EXCEPT ![e] = y]
  BY DEF WorkerStep
<1>2. exec'[e] = y /\ (y.worker[c] = w \/ y.worker[c] = Off)
  BY <1>1, Types DEF Moved
<1>3. exec'[e].worker[c].pc # "calling"
  BY <1>2 DEF Off
<1>4. Flows(k)
  <2> SUFFICES ASSUME NEW t \in Text, NEW owners \in SUBSET Runs, Owned(k, t, owners),
                      \A d \in owners : exec'[d].worker[k].pc = "calling"
               PROVE  Owned(k, t, owners)'
    BY DEF Flows
  <2>1. k = c => e \notin owners
    BY <1>3
  <2>2. k = c => /\ t # NoText /\ cache[c] # t /\ exec[e].pending[c] # t
                 /\ exec[e].worker[c].text # t
                 /\ \A j \in DOMAIN outputs[c] : outputs[c][j].text # t
    BY <2>1 DEF Owned, Clear
  <2>3. k = c => /\ w.text # t /\ p # t
                 /\ \A i \in DOMAIN outputs'[c] : outputs'[c][i].text # t
    BY <2>2 DEF Known
  <2> QED
    BY <2>3, WorkerOwned
<1>5. NoCall(k)
  BY WorkerNoCall
<1>6. p = exec[e].pending[c] \/ (<<c, p>> \notin rejected /\ <<c, p>> \notin scored)
  BY DEF Fresh, Owned, Clear
<1> QED
  BY <1>4, <1>5, <1>6, WorkerAccepts, FlowFresh

LEMMA EndsFresh ==
  ASSUME Structure, NEW e \in Runs, NEW c \in Chunks, NEW k \in Chunks, Fresh(k), Fresh(c),
         \/ Pause(e, c) \/ CacheHit(e, c) \/ GiveUp(e, c) \/ Answer(e, c) \/ CallFails(e, c)
         \/ AnswerLost(e, c)
  PROVE  Fresh(k)'
<1>1. Typed /\ TypeOK
  BY DEF Structure, Typed
<1>2. /\ exec[e].pending[c] \in Text /\ cache[c] \in Text /\ exec[e].worker[c].text \in Text
      /\ Off \in Worker /\ Ready \in Worker /\ exec[e].mem[c].attempt \in Attempt
  BY <1>1, Types, BasicTypes DEF ChunkState, Attempt
<1>3. Off.pc # "calling" /\ Off.text = NoText /\ Ready.pc # "calling" /\ Ready.text = NoText
  BY DEF Off, Ready
<1>4. ASSUME NEW state, NEW w \in {Ready, Off}, WorkerStep(e, c, state, w, exec[e].pending[c]),
             UNCHANGED <<outputs, foreign, cache, calls, rejected, scored>>
      PROVE  Fresh(k)'
  <2>1. w \in Worker /\ w.pc # "calling" /\ w.text = NoText
    BY <1>2, <1>3, <1>4
  <2>2. Known(e, c, w.text) /\ \A i \in DOMAIN outputs'[c] : Known(e, c, outputs'[c][i].text)
    BY <1>4, <2>1 DEF Known
  <2> QED
    BY <1>1, <1>2, <1>4, <2>1, <2>2, WorkerFresh
<1>5. CASE Pause(e, c)
  BY <1>1, <1>4, <1>5, PauseMoves DEF Pause, files, history
<1>6. CASE GiveUp(e, c)
  BY <1>1, <1>4, <1>6, GiveUpMoves DEF GiveUp, history
<1>7. CASE CallFails(e, c)
  BY <1>1, <1>4, <1>7, CallFailsMoves DEF CallFails, history
<1>8. CASE AnswerLost(e, c)
  <2>1. UNCHANGED <<outputs, foreign, cache, calls, rejected, scored>>
    BY <1>8 DEF AnswerLost
  <2>2. CASE exec' = Ended
    BY <2>1, <2>2, EndedFresh
  <2>3. CASE PersistsAndRaises(e, c, Translated(e, c))
    BY <1>1, <1>4, <2>1, <2>3, RaisesMoves
  <2> QED
    BY <1>8, <2>2, <2>3 DEF AnswerLost
<1>9. CASE CacheHit(e, c)
  <2> DEFINE w == [pc |-> "done", text |-> cache[c]]
  <2>1. SavesOutput(c, exec[e].mem[c].attempt, cache[c])
        /\ UNCHANGED <<foreign, cache, calls, rejected, scored>>
    BY <1>2, <1>9 DEF CacheHit, history, Attempt, Translated
  <2>2. w \in Worker /\ w.pc # "calling" /\ w.text = cache[c]
    BY <1>2 DEF Worker
  <2>3. WorkerStep(e, c, Translated(e, c), w, exec[e].pending[c])
    BY <1>1, <1>9, CacheHitMoves
  <2>4. /\ \A i \in DOMAIN outputs'[c] :
             \/ outputs'[c][i].text = cache[c]
             \/ \E j \in DOMAIN outputs[c] : outputs'[c][i].text = outputs[c][j].text
        /\ k # c => outputs'[k] = outputs[k]
    BY <1>1, <1>2, <2>1, StoredTexts
  <2> HIDE DEF w
  <2>5. Known(e, c, w.text) /\ \A i \in DOMAIN outputs'[c] : Known(e, c, outputs'[c][i].text)
    BY <2>2, <2>4 DEF Known
  <2>6. /\ w \in Worker /\ w.pc # "calling" /\ UNCHANGED <<foreign, cache, calls, rejected, scored>>
        /\ k # c => outputs'[k] = outputs[k]
    BY <2>1, <2>2, <2>4
  <2> QED
    BY <1>1, <1>2, <2>3, <2>5, <2>6, WorkerFresh
<1>10. CASE Answer(e, c)
  <2> DEFINE text == exec[e].worker[c].text
             w == [pc |-> "done", text |-> text]
  <2>1. SavesOutput(c, exec[e].mem[c].attempt, text)
        /\ UNCHANGED <<foreign, cache, calls, rejected, scored>> /\ exec[e].worker[c].pc = "calling"
    BY <1>10 DEF Answer, history
  <2>2. w \in Worker /\ w.pc # "calling" /\ w.text = text
    BY <1>2 DEF Worker
  <2>3. WorkerStep(e, c, Translated(e, c), w, text)
    BY <1>1, <1>10, AnswerMoves
  <2>4. /\ \A i \in DOMAIN outputs'[c] :
             \/ outputs'[c][i].text = text
             \/ \E j \in DOMAIN outputs[c] : outputs'[c][i].text = outputs[c][j].text
        /\ k # c => outputs'[k] = outputs[k]
    BY <1>1, <1>2, <2>1, StoredTexts
  <2> HIDE DEF w
  <2>5. Known(e, c, w.text) /\ \A i \in DOMAIN outputs'[c] : Known(e, c, outputs'[c][i].text)
    BY <2>1, <2>2, <2>4 DEF Known
  <2>6. /\ w \in Worker /\ w.pc # "calling" /\ UNCHANGED <<foreign, cache, calls, rejected, scored>>
        /\ k # c => outputs'[k] = outputs[k]
    BY <2>1, <2>2, <2>4
  <2>7. exec[e].worker[c].pc = "calling" /\ text = exec[e].worker[c].text
    BY <2>1
  <2> HIDE DEF text
  <2> QED
    BY <1>1, <1>2, <2>3, <2>5, <2>6, <2>7, WorkerFresh
<1> QED
  BY <1>5, <1>6, <1>7, <1>8, <1>9, <1>10

LEMMA CallFresh ==
  ASSUME Structure, NEW e \in Runs, NEW c \in Chunks, Call(e, c), NEW k \in Chunks, Fresh(k)
  PROVE  Fresh(k)'
<1> DEFINE n == calls[c] + 1
           w == [pc |-> "calling", text |-> n]
<1>1. Typed /\ TypeOK
  BY DEF Structure, Typed
<1>2. /\ exec[e].pending[c] \in Text /\ calls[c] \in Nat /\ calls[c] < MaxCalls
      /\ calls' = [calls EXCEPT ![c] = @ + 1]
      /\ UNCHANGED <<outputs, foreign, cache, rejected, scored>>
  BY <1>1, Types DEF Call
<1>3. n \in Text /\ w \in Worker /\ w.text = n
  BY <1>2, Numbers DEF Text, Worker
<1>4. WorkerStep(e, c, Attempting(exec[e].mem[c]), w, exec[e].pending[c])
  BY <1>1, CallMoves
<1>5. \A d \in Runs : Unrejected(exec[d], k)'
  BY <1>1, <1>2, <1>4, WorkerAccepts
<1>6. CASE k # c
  <2>1. Flows(k)
    BY <1>1, <1>2, <1>3, <1>4, <1>6, WorkerOwned DEF Flows
  <2>2. NoCall(k)
    BY <1>1, <1>4, <1>6, WorkerNoCall
  <2>3. calls'[k] = calls[k]
    BY <1>1, <1>2, <1>6 DEF TypeOK
  <2> QED
    BY <1>1, <1>5, <2>1, <2>2, <2>3, FlowFresh
<1>7. CASE k = c
  <2>1. calls'[c] = n
    BY <1>1, <1>2 DEF TypeOK
  <2>2. PICK y \in Execution : /\ Moved(exec[e], y, c, Attempting(exec[e].mem[c]), w, exec[e].pending[c])
                               /\ exec' = [exec EXCEPT ![e] = y]
    BY <1>4 DEF WorkerStep
  <2>3. /\ exec'[e].worker[c] = w /\ \A d \in Runs \ {e} : exec'[d] = exec[d]
    BY <1>1, <2>2, Types DEF Moved
  <2>4. ASSUME NEW t \in Text, NEW owners \in SUBSET Runs, Owned(c, t, owners), t # n \/ e \in owners
        PROVE  Owned(c, t, owners)'
    <3>1. exec[e].pending[c] # t /\ \A i \in DOMAIN outputs[c] : outputs[c][i].text # t
      BY <2>4 DEF Owned, Clear
    <3> HIDE DEF w, n
    <3> QED
      BY <1>1, <1>2, <1>3, <1>4, <2>4, <3>1, WorkerOwned
  <2>5. Owned(c, n, {})
    BY <1>2, <1>3, <1>7 DEF Fresh
  <2>6. ASSUME NEW t \in Text, t > calls'[c] PROVE Owned(c, t, {})'
    <3>1. t > calls[c] /\ t # n
      BY <1>2, <2>1, <2>6 DEF Text
    <3> QED
      BY <1>7, <2>4, <3>1 DEF Fresh
  <2>7. PICK m \in Text : m = n
    BY <1>3
  <2>8. Owned(c, m, {e})'
    <3>1. Owned(c, m, {e})
      BY <2>5, <2>7 DEF Owned
    <3> QED
      BY <2>4, <3>1
  <2>9. ASSUME NEW d \in Runs \ {e}, exec[d].worker[c].pc = "calling",
               NEW t \in Text, t = exec[d].worker[c].text
        PROVE  Owned(c, t, {d})'
    <3>1. Owned(c, t, {d}) /\ t # n
      BY <1>7, <2>5, <2>9 DEF Fresh, Owned
    <3> QED
      BY <2>4, <3>1
  <2>10. ASSUME NEW d \in Runs, exec'[d].worker[c].pc = "calling"
         PROVE  Owned(c, exec[d].worker[c].text, {d})'
    <3>1. CASE d = e
      <4>1. exec'[d].worker[c].text = m
        BY <1>3, <2>3, <2>7, <3>1
      <4> QED
        BY <2>8, <3>1, <4>1
    <3>2. CASE d # e
      <4>1. PICK t \in Text : t = exec[d].worker[c].text
        BY <1>1, Types
      <4>2. exec'[d].worker[c].text = t /\ exec[d].worker[c].pc = "calling"
        BY <2>3, <2>10, <3>2, <4>1
      <4>3. Owned(c, t, {d})'
        BY <2>9, <3>2, <4>1, <4>2
      <4> QED
        BY <4>2, <4>3
    <3> QED
      BY <3>1, <3>2
  <2> QED
    BY <1>5, <1>7, <2>6, <2>10 DEF Fresh
<1> QED
  BY <1>6, <1>7

LEMMA CheckFresh ==
  ASSUME Structure, NEW e \in Runs, NEW c \in Chunks, Check(e, c), NEW k \in Chunks, Fresh(k)
  PROVE  Fresh(k)'
<1>1. TypeOK
  BY DEF Structure
<1>2. PICK verdict \in ChunkState, y \in Execution : Checked(e, c, verdict, y)
  BY <1>1, CheckMoves
<1>3. /\ exec' = [exec EXCEPT ![e] = y] /\ exec[e].stage = "qa" /\ y.worker = exec[e].worker
      /\ y.pending = [exec[e].pending EXCEPT
                        ![c] = IF verdict.status \in Marked THEN NoText ELSE @]
      /\ rejected' = IF verdict.status \in Marked
                     THEN rejected \cup {<<c, exec[e].worker[c].text>>} ELSE rejected
      /\ UNCHANGED <<outputs, foreign, cache, calls, scored>>
  BY <1>2 DEF Checked, Check
<1>4. exec'[e] = y /\ \A d \in Runs \ {e} : exec'[d] = exec[d]
  BY <1>1, <1>3, Types
<1>5. \A d \in Runs : exec'[d].worker[k] = exec[d].worker[k]
  BY <1>3, <1>4
<1>6. /\ y.pending[k] \in {exec[e].pending[k], NoText}
      /\ k = c /\ verdict.status \in Marked => y.pending[k] = NoText
  BY <1>1, <1>3, Types DEF Execution
<1>7. exec[e].worker[c].pc # "calling"
  BY <1>3 DEF Structure, Shape, Shaped
<1>8. Flows(k)
  <2> SUFFICES ASSUME NEW t \in Text, NEW owners \in SUBSET Runs, Owned(k, t, owners),
                      \A d \in owners : exec'[d].worker[k].pc = "calling"
               PROVE  Owned(k, t, owners)'
    BY DEF Flows
  <2>1. k = c => exec[e].worker[c].text # t
    BY <1>5, <1>7 DEF Owned
  <2>2. Clear(k, t)'
    BY <1>3, <2>1 DEF Owned, Clear
  <2>3. \A d \in Runs : exec'[d].pending[k] # t
    BY <1>4, <1>6 DEF Owned
  <2> QED
    BY <1>5, <2>2, <2>3 DEF Owned
<1>9. \A d \in Runs : Unrejected(exec[d], k)'
  <2>1. ASSUME NEW d \in Runs \ {e} PROVE exec[d].pending[k] = NoText
    <3>1. d < e \/ e < d
      BY DEF Runs
    <3>2. exec[d].stage \in {"new", "over"}
      BY <1>3, <3>1 DEF Structure, InOrder
    <3> QED
      BY <3>2 DEF Structure, Shape, Shaped
  <2>2. y.pending[k] # NoText => <<k, y.pending[k]>> \notin rejected' /\ <<k, y.pending[k]>> \notin scored'
    BY <1>3, <1>6 DEF Fresh, Unrejected
  <2> QED
    BY <1>4, <2>1, <2>2 DEF Unrejected
<1>10. NoCall(k) /\ calls'[k] = calls[k]
  BY <1>3, <1>5 DEF NoCall
<1> QED
  BY <1>1, <1>8, <1>9, <1>10, FlowFresh
-----------------------------------------------------------------------------
(* The inductive invariant, and what follows from it.                      *)

Sound ==
  /\ Structure
  /\ \A c \in Chunks : Fresh(c)
  /\ \A c \in Chunks \ astray : Kept(c)

LEMMA WorkerOthersKept ==
  ASSUME Structure, NEW e \in Runs, NEW c \in Chunks, NEW k \in Chunks \ {c}, Kept(k),
         \/ Pause(e, c) \/ CacheHit(e, c) \/ GiveUp(e, c) \/ Call(e, c)
         \/ Answer(e, c) \/ CallFails(e, c)
         \/ AnswerLost(e, c)
  PROVE  Kept(k)'
<1>1. Typed /\ TypeOK
  BY DEF Structure, Typed
<1>2. UNCHANGED <<cache, rejected>>
  BY DEF Pause, CacheHit, GiveUp, Call, Answer, CallFails, AnswerLost, history
<1>3. states'[k] = states[k]
  BY <1>1 DEF Pause, CacheHit, GiveUp, Call, Answer, CallFails, AnswerLost, Persists,
              PersistsAndRaises, files, TypeOK
<1>4. outputs'[k] = outputs[k]
  BY <1>1 DEF Pause, CacheHit, GiveUp, Call, Answer, CallFails, AnswerLost, SavesOutput,
              files, TypeOK
<1>5. calls'[k] = calls[k]
  BY <1>1 DEF Pause, CacheHit, GiveUp, Call, Answer, CallFails, AnswerLost, history, TypeOK
<1>6. ASSUME NEW state, NEW w, NEW p, WorkerStep(e, c, state, w, p) PROVE Kept(k)'
  BY <1>1, <1>2, <1>3, <1>4, <1>5, <1>6, OthersUntouched, UntouchedKept
<1>7. CASE Pause(e, c) \/ CacheHit(e, c) \/ GiveUp(e, c)
  BY <1>1, <1>6, <1>7, PauseMoves, CacheHitMoves, GiveUpMoves
<1>8. CASE Call(e, c) \/ Answer(e, c) \/ CallFails(e, c)
  BY <1>1, <1>6, <1>8, CallMoves, AnswerMoves, CallFailsMoves
<1>9. CASE AnswerLost(e, c)
  <2>1. UNCHANGED <<outputs, cache, calls, rejected>>
    BY <1>9 DEF AnswerLost
  <2>2. CASE exec' = Ended
    BY <1>3, <2>1, <2>2, EndedKeeps
  <2>3. CASE PersistsAndRaises(e, c, Translated(e, c))
    BY <1>1, <1>6, <2>3, RaisesMoves
  <2> QED
    BY <1>9, <2>2, <2>3 DEF AnswerLost
<1> QED
  BY <1>7, <1>8, <1>9

LEMMA WorkerKept ==
  ASSUME Structure, NEW e \in Runs, NEW c \in Chunks, Kept(c), Fresh(c),
         \/ Pause(e, c) \/ CacheHit(e, c) \/ GiveUp(e, c) \/ Call(e, c)
         \/ Answer(e, c) \/ CallFails(e, c)
  PROVE  Kept(c)'
<1>1. Typed /\ TypeOK
  BY DEF Structure, Typed
<1>2. CASE Pause(e, c) \/ CacheHit(e, c) \/ Call(e, c)
  BY <1>2, PauseKeeps, CacheHitKeeps, CallKeeps
<1>3. CASE GiveUp(e, c)
  <2>1. /\ Alive(e, c) /\ UNCHANGED <<outputs, cache, calls, rejected>>
        /\ states' = [states EXCEPT ![c] = [exec[e].mem[c] EXCEPT !.status = "failed"]]
    BY <1>3 DEF GiveUp, PersistsAndRaises, Selects, Alive, history
  <2> QED
    BY <1>1, <1>3, <2>1, GiveUpMoves, FailureKeeps
<1>4. CASE CallFails(e, c)
  <2>1. /\ Alive(e, c) /\ UNCHANGED <<outputs, cache, calls, rejected>>
        /\ states' = [states EXCEPT ![c] = [exec[e].mem[c] EXCEPT !.status = "needs_retry"]]
    BY <1>4 DEF CallFails, Persists, PersistsAndRaises, Alive, history
  <2>2. PICK w \in {Ready, Off} :
          WorkerStep(e, c, [exec[e].mem[c] EXCEPT !.status = "needs_retry"], w, exec[e].pending[c])
    BY <1>1, <1>4, CallFailsMoves
  <2> QED
    BY <2>1, <2>2, FailureKeeps
<1>5. CASE Answer(e, c)
  <2>1. <<c, exec[e].worker[c].text>> \notin rejected
    BY <1>5 DEF Answer, Fresh, Owned, Clear
  <2> QED
    BY <1>5, <2>1, AnswerKeeps
<1> QED
  BY <1>2, <1>3, <1>4, <1>5

LEMMA KeptNext ==
  ASSUME Sound, [Next]_vars, NEW k \in Chunks \ astray'
  PROVE  Kept(k)'
<1>1. /\ Structure /\ TypeOK /\ \A c \in Chunks : Fresh(c)
      /\ \A c \in Chunks \ astray : Kept(c)
  BY DEF Sound, Structure
<1>2. ASSUME NEW e \in Runs, NEW c \in Chunks,
             \/ Pause(e, c) \/ CacheHit(e, c) \/ GiveUp(e, c) \/ Call(e, c)
             \/ Answer(e, c) \/ CallFails(e, c)
      PROVE  Kept(k)'
  <2>1. Kept(k)
    BY <1>1, <1>2 DEF Pause, CacheHit, GiveUp, Call, Answer, CallFails, history
  <2> QED
    BY <1>1, <1>2, <2>1, WorkerKept, WorkerOthersKept
<1>3. ASSUME NEW e \in Runs, NEW c \in Chunks, AnswerLost(e, c)
      PROVE  Kept(k)'
  <2>1. k # c /\ Kept(k)
    BY <1>1, <1>3 DEF AnswerLost
  <2> QED
    BY <1>1, <1>3, <2>1, WorkerOthersKept
<1>4. ASSUME NEW e \in Runs, NEW c \in Chunks, Check(e, c)
      PROVE  Kept(k)'
  <2>1. Kept(k)
    BY <1>1, <1>4 DEF Check
  <2> QED
    BY <1>1, <1>4, <2>1, CheckKeeps
<1>5. ASSUME NEW e \in Runs, Begin(e) \/ HandlerWrites(e)
      PROVE  Kept(k)'
  <2>1. Kept(k)
    BY <1>1, <1>5 DEF Begin, HandlerWrites
  <2> QED
    BY <1>1, <1>5, <2>1, BeginKeeps, HandlerKeeps
<1>6. ASSUME NEW e \in Runs,
             \/ TranslateEnds(e) \/ QaRaises(e) \/ QaEnds(e) \/ Flush(e) \/ Save(e) \/ Handle(e) \/ Cancel(e)
      PROVE  Kept(k)'
  <2>1. Kept(k)
    BY <1>1, <1>6 DEF TranslateEnds, QaRaises, QaEnds, Flush, Save, Handle, Cancel, history
  <2> QED
    BY <1>1, <1>6, <2>1, TranslateEndsKeeps, QaRaisesKeeps, QaEndsKeeps,
       FlushKeeps, HandleKeeps, EndKeeps
<1>7. CASE Crash
  <2>1. /\ exec' = Ended /\ UNCHANGED <<states, outputs, cache, calls, rejected, astray>>
    BY <1>7 DEF Crash, files, history
  <2> QED
    BY <1>1, <2>1, EndedKeeps
<1>8. CASE ForeignRead \/ UNCHANGED vars
  <2>1. UNCHANGED <<states, outputs, cache, exec, calls, rejected, astray>>
    BY <1>8 DEF ForeignRead, vars, files, history
  <2>2. Untouched(k)
    BY <2>1 DEF Untouched
  <2> QED
    BY <1>1, <2>1, <2>2, UntouchedKept
<1>9. CASE ForeignWrite
  <2>1. /\ UNCHANGED <<cache, exec, calls, rejected>> /\ k \notin astray
        /\ states'[k] = states[k] /\ outputs'[k] = outputs[k]
    BY <1>9 DEF ForeignWrite
  <2>2. Untouched(k)
    BY <2>1 DEF Untouched
  <2> QED
    BY <1>1, <2>1, <2>2, UntouchedKept
<1> QED
  BY <1>2, <1>3, <1>4, <1>5, <1>6, <1>7, <1>8, <1>9 DEF Next

LEMMA FreshNext ==
  ASSUME Sound, [Next]_vars, NEW k \in Chunks
  PROVE  Fresh(k)'
<1>1. Structure /\ \A c \in Chunks : Fresh(c)
  BY DEF Sound
<1>2. ASSUME NEW e \in Runs, NEW c \in Chunks,
             \/ Pause(e, c) \/ CacheHit(e, c) \/ GiveUp(e, c) \/ Answer(e, c)
             \/ CallFails(e, c) \/ AnswerLost(e, c)
      PROVE  Fresh(k)'
  BY <1>1, <1>2, EndsFresh
<1>3. ASSUME NEW e \in Runs, NEW c \in Chunks, Call(e, c) \/ Check(e, c)
      PROVE  Fresh(k)'
  BY <1>1, <1>3, CallFresh, CheckFresh
<1>4. ASSUME NEW e \in Runs,
             \/ Begin(e) \/ TranslateEnds(e) \/ QaRaises(e) \/ QaEnds(e) \/ Flush(e) \/ Save(e)
             \/ Handle(e) \/ HandlerWrites(e) \/ Cancel(e)
      PROVE  Fresh(k)'
  BY <1>1, <1>4, StageFresh
<1>5. CASE Crash
  <2>1. exec' = Ended /\ UNCHANGED <<outputs, cache, foreign, calls, rejected, scored>>
    BY <1>5 DEF Crash, files, history
  <2> QED
    BY <1>1, <2>1, EndedFresh
<1>6. CASE ForeignRead \/ ForeignWrite
  BY <1>1, <1>6, ForeignFresh
<1>7. CASE UNCHANGED vars
  <2>1. UNCHANGED <<outputs, cache, foreign, calls, rejected, scored, exec>>
    BY <1>7 DEF vars, files, history
  <2> QED
    BY <1>1, <2>1 DEF Fresh, Owned, Clear, Unrejected
<1> QED
  BY <1>2, <1>3, <1>4, <1>5, <1>6, <1>7 DEF Next

LEMMA SoundInvariant == Spec => []Sound
<1>1. Init => Sound
  <2> SUFFICES ASSUME Init PROVE Sound
    OBVIOUS
  <2>1. Structure
    BY StructureInit
  <2>2. ASSUME NEW e \in Runs, NEW c \in Chunks
        PROVE  /\ exec[e].stage = "new" /\ exec[e].worker[c] = Off
               /\ exec[e].pending[c] = NoText
    BY DEF Init, NoExecution
  <2>3. ASSUME NEW c \in Chunks PROVE Fresh(c)
    <3>1. /\ outputs[c] = <<>> /\ foreign.outputs[c] = <<>> /\ cache[c] = NoText
          /\ calls[c] = 0 /\ rejected = {} /\ scored = {}
      BY NotReadType DEF Init
    <3> QED
      BY <2>2, <3>1 DEF Fresh, Owned, Clear, Unrejected, Off, NoText, Text
  <2>4. ASSUME NEW c \in Chunks PROVE Kept(c)
    <3>1. /\ outputs[c] = <<>> /\ states[c] = NoState /\ calls[c] = 0
      BY DEF Init
    <3>2. Filed(c)
      BY <3>1 DEF Filed, Rising, Below, NoState
    <3>3. \A e \in Runs : Underway(e, c) /\ Staged(e, c)
      BY <2>2 DEF Underway, Staged, Alive, Off
    <3> QED
      BY <3>2, <3>3 DEF Kept
  <2> QED
    BY <2>1, <2>3, <2>4 DEF Sound
<1>2. Sound /\ [Next]_vars => Sound'
  BY StructureNext, FreshNext, KeptNext DEF Sound
<1> QED
  BY <1>1, <1>2, PTL DEF Spec

\* The provider is called for a chunk at most max_attempts times by all the
\* executions of a run, crashed, cancelled and failed ones included, unless an
\* orphan works beside them or the files of the chunk have lost a write.
THEOREM AttemptsBounded == Spec => []CallsBounded
<1>1. Sound => CallsBounded
  <2> SUFFICES ASSUME Sound, NEW c \in Chunks, c \notin astray PROVE calls[c] <= MaxAttempts
    BY DEF CallsBounded
  <2>1. /\ calls[c] <= states[c].attempt /\ calls[c] \in Nat /\ states[c] \in ChunkState
    BY Types DEF Sound, Structure, Kept, Filed
  <2> QED
    BY <2>1, Numbers DEF ChunkState
<1> QED
  BY <1>1, SoundInvariant, PTL

-----------------------------------------------------------------------------
(* What executions resume from, and what they write to the cache.          *)

Resumes(e, c) == exec'[e].worker[c].pc = "resumed" /\ exec'[e].worker[c] # exec[e].worker[c]

\* No step of a worker makes one resume.
LEMMA WorkersDoNotResume ==
  ASSUME Typed, NEW e \in Runs, NEW c \in Chunks,
         \/ Pause(e, c) \/ CacheHit(e, c) \/ GiveUp(e, c) \/ Call(e, c)
         \/ Answer(e, c) \/ CallFails(e, c) \/ AnswerLost(e, c),
         NEW d \in Runs, NEW k \in Chunks
  PROVE  ~Resumes(d, k)
<1>1. ASSUME NEW state, NEW w, NEW p, w.pc # "resumed", WorkerStep(e, c, state, w, p)
      PROVE  ~Resumes(d, k)
  <2>1. PICK y \in Execution : Moved(exec[e], y, c, state, w, p) /\ exec' = [exec EXCEPT ![e] = y]
    BY <1>1 DEF WorkerStep
  <2>2. exec'[e] = y /\ \A r \in Runs \ {e} : exec'[r] = exec[r]
    BY <2>1, Types DEF Typed
  <2>3. Off.pc # "resumed"
    BY DEF Off
  <2> QED
    BY <1>1, <2>1, <2>2, <2>3 DEF Moved, Resumes
<1>2. Off.pc # "resumed" /\ Ready.pc # "resumed"
  BY DEF Off, Ready
<1>3. CASE Pause(e, c) \/ GiveUp(e, c)
  BY <1>1, <1>2, <1>3, PauseMoves, GiveUpMoves
<1>4. CASE CacheHit(e, c) \/ Call(e, c) \/ Answer(e, c)
  <2>1. /\ [pc |-> "done", text |-> cache[c]].pc # "resumed"
        /\ [pc |-> "calling", text |-> calls[c] + 1].pc # "resumed"
        /\ [pc |-> "done", text |-> exec[e].worker[c].text].pc # "resumed"
    OBVIOUS
  <2>2. CASE CacheHit(e, c)
    <3>1. WorkerStep(e, c, Translated(e, c), [pc |-> "done", text |-> cache[c]],
                     exec[e].pending[c])
      BY <2>2, CacheHitMoves
    <3> QED
      BY <1>1, <2>1, <3>1
  <2>3. CASE Call(e, c)
    <3>1. WorkerStep(e, c, Attempting(exec[e].mem[c]),
                     [pc |-> "calling", text |-> calls[c] + 1], exec[e].pending[c])
      BY <2>3, CallMoves
    <3> QED
      BY <1>1, <2>1, <3>1
  <2>4. CASE Answer(e, c)
    <3>1. WorkerStep(e, c, Translated(e, c), [pc |-> "done", text |-> exec[e].worker[c].text],
                     exec[e].worker[c].text)
      BY <2>4, AnswerMoves
    <3> QED
      BY <1>1, <2>1, <3>1
  <2> QED
    BY <1>4, <2>2, <2>3, <2>4
<1>5. CASE CallFails(e, c)
  BY <1>1, <1>2, <1>5, CallFailsMoves
<1>6. CASE AnswerLost(e, c)
  <2>1. CASE exec' = Ended
    BY <1>2, <2>1, EndedIs DEF Typed, Resumes
  <2>2. CASE PersistsAndRaises(e, c, Translated(e, c))
    BY <1>1, <1>2, <2>2, RaisesMoves
  <2> QED
    BY <1>6, <2>1, <2>2 DEF AnswerLost
<1> QED
  BY <1>3, <1>4, <1>5, <1>6

\* A worker that resumes does so from the last output of a chunk whose file says
\* it is translated.
LEMMA StartedResumes ==
  ASSUME Structure, NEW c \in Chunks, Filed(c), NEW x \in Execution,
         x.mem[c] \in {states[c], NoState}, Started(x).worker[c].pc = "resumed"
  PROVE  states[c].status = "translated" /\ Started(x).worker[c].text = LastText(c)
<1>1. TypeOK /\ states[c] \in ChunkState /\ outputs[c] \in Seq(Output) /\ x.mem[c] \in ChunkState
  BY Types DEF Structure, Execution
<1>2. Merged(x.mem[c], states[c]) = states[c]
  BY <1>1, MergedType DEF Filed
<1>3. Started(x).worker[c] = Resumed(states[c], outputs[c])
  BY <1>1, <1>2, StartedIs
<1> QED
  BY <1>1, <1>3, ResumedType DEF Ready, LastText

LEMMA StageResumes ==
  ASSUME Structure, NEW c \in Chunks, Kept(c), NEW d \in Runs, Resumes(d, c), NEW e \in Runs,
         \/ Begin(e) \/ TranslateEnds(e) \/ QaRaises(e) \/ QaEnds(e) \/ Flush(e) \/ Save(e)
         \/ Handle(e) \/ HandlerWrites(e) \/ Cancel(e)
  PROVE  states[c].status = "translated" /\ exec'[d].worker[c].text = LastText(c)
<1>1. TypeOK /\ exec \in [Runs -> Execution] /\ Filed(c) /\ Staged(e, c)
  BY Types DEF Structure, Kept
<1>2. PICK x \in Execution : x = exec[e]
  BY <1>1
<1>3. ASSUME NEW y, exec' = [exec EXCEPT ![e] = y]
      PROVE  /\ d = e /\ exec'[d] = y
             /\ y.worker[c] # x.worker[c] /\ y.worker[c].pc = "resumed"
  BY <1>1, <1>2, <1>3 DEF Resumes
<1>4. Off.pc # "resumed"
  BY DEF Off
<1>5. CASE Begin(e)
  <2>1. NoExecution \in Execution /\ NoExecution.mem[c] = NoState
    BY BasicTypes DEF NoExecution
  <2> QED
    BY <1>1, <1>3, <1>5, <2>1, StartedResumes DEF Begin
<1>6. CASE TranslateEnds(e) \/ Handle(e) \/ Flush(e)
  <2>1. PICK y : /\ exec' = [exec EXCEPT ![e] = y]
                 /\ \/ y = [x EXCEPT !.stage = "qa"]
                    \/ y = [x EXCEPT !.stage = "handled", !.snap = x.mem]
                    \/ y = [x EXCEPT !.stage = "save"]
    BY <1>1, <1>2, <1>6 DEF TranslateEnds, Handle, Flush, Execution
  <2>2. y.worker = x.worker
    BY <2>1 DEF Execution
  <2> QED
    BY <1>3, <2>1, <2>2
<1>7. CASE QaRaises(e) \/ QaEnds(e)
  <2>1. PICK y : /\ exec' = [exec EXCEPT ![e] = y]
                 /\ \/ y = [x EXCEPT !.stage = "failing"]
                    \/ x.loops < MaxRetries /\ y = Started([x EXCEPT !.loops = @ + 1])
                    \/ y = [x EXCEPT !.stage = "flush"]
    BY <1>1, <1>2, <1>7, QaMoves
  <2>2. CASE x.loops < MaxRetries /\ y = Started([x EXCEPT !.loops = @ + 1])
    <3>1. PICK z : z = [x EXCEPT !.loops = @ + 1]
      OBVIOUS
    <3>2. z \in Execution /\ z.mem = x.mem
      <4>1. x.loops + 1 \in 0..MaxRetries
        BY <2>2, Numbers DEF Execution
      <4> QED
        BY <3>1, <4>1 DEF Execution
    <3>3. x.mem[c] = states[c]
      BY <1>1, <1>2, <1>7 DEF QaRaises, QaEnds, Staged
    <3>4. Started(z) = y /\ exec'[d] = y /\ y.worker[c].pc = "resumed"
      BY <1>3, <2>1, <2>2, <3>1
    <3> QED
      BY <1>1, <3>2, <3>3, <3>4, StartedResumes
  <2>3. CASE y = [x EXCEPT !.stage = "failing"] \/ y = [x EXCEPT !.stage = "flush"]
    <3>1. y.worker = x.worker
      BY <2>3 DEF Execution
    <3> QED
      BY <1>3, <2>1, <3>1
  <2> QED
    BY <2>1, <2>2, <2>3
<1>8. CASE Save(e) \/ Cancel(e)
  <2>1. PICK s \in Stages : exec' = [exec EXCEPT ![e] = [NoExecution EXCEPT !.stage = s]]
    BY <1>8 DEF Save, Cancel, Stages
  <2>2. [NoExecution EXCEPT !.stage = s].worker[c] = Off
    BY DEF NoExecution
  <2> QED
    BY <1>3, <1>4, <2>1, <2>2
<1>9. CASE HandlerWrites(e)
  <2>1. exec' = [exec EXCEPT ![e] = Remains(x)]
    BY <1>2, <1>9 DEF HandlerWrites
  <2>2. Remains(x).worker[c] = x.worker[c] \/ Remains(x).worker[c] = Off
    BY RemainsType
  <2> QED
    BY <1>3, <1>4, <2>1, <2>2
<1> QED
  BY <1>5, <1>6, <1>7, <1>8, <1>9

LEMMA StaysAstray == [Next]_vars => astray \subseteq astray'
<1>1. ASSUME NEW e \in Runs, NEW c \in Chunks,
             \/ Pause(e, c) \/ CacheHit(e, c) \/ GiveUp(e, c) \/ Call(e, c)
             \/ Answer(e, c) \/ CallFails(e, c) \/ AnswerLost(e, c) \/ Check(e, c)
      PROVE  astray \subseteq astray'
  BY <1>1 DEF Pause, CacheHit, GiveUp, Call, Answer, CallFails, AnswerLost, Check, history
<1>2. ASSUME NEW e \in Runs,
             \/ Begin(e) \/ TranslateEnds(e) \/ QaRaises(e) \/ QaEnds(e) \/ Flush(e) \/ Save(e)
             \/ Handle(e) \/ HandlerWrites(e) \/ Cancel(e)
      PROVE  astray \subseteq astray'
  BY <1>2 DEF Begin, TranslateEnds, QaRaises, QaEnds, Flush, Save, Handle, HandlerWrites, Cancel, history
<1>3. Crash \/ ForeignRead \/ ForeignWrite \/ UNCHANGED vars => astray \subseteq astray'
  BY DEF Crash, ForeignRead, ForeignWrite, vars, history
<1> QED
  BY <1>1, <1>2, <1>3 DEF Next

LEMMA ResumesLast ==
  ASSUME Sound, [Next]_vars, NEW d \in Runs, NEW c \in Chunks \ astray', Resumes(d, c)
  PROVE  states[c].status = "translated" /\ exec'[d].worker[c].text = LastText(c)
<1>1. Structure /\ Typed /\ exec \in [Runs -> Execution]
  BY Types DEF Sound, Structure, Typed
<1>2. ASSUME NEW e \in Runs, NEW k \in Chunks, Check(e, k)
      PROVE  FALSE
  <2>1. PICK verdict \in ChunkState, y \in Execution : Checked(e, k, verdict, y)
    BY <1>1, <1>2, CheckMoves DEF Typed
  <2>2. exec' = [exec EXCEPT ![e] = y] /\ y.worker = exec[e].worker
    BY <2>1 DEF Checked
  <2> QED
    BY <1>1, <2>2 DEF Resumes
<1>3. ASSUME NEW e \in Runs, NEW k \in Chunks,
             \/ Pause(e, k) \/ CacheHit(e, k) \/ GiveUp(e, k) \/ Call(e, k)
             \/ Answer(e, k) \/ CallFails(e, k) \/ AnswerLost(e, k)
      PROVE  FALSE
  BY <1>1, <1>3, WorkersDoNotResume
<1>4. ASSUME NEW e \in Runs,
             \/ Begin(e) \/ TranslateEnds(e) \/ QaRaises(e) \/ QaEnds(e) \/ Flush(e) \/ Save(e)
             \/ Handle(e) \/ HandlerWrites(e) \/ Cancel(e)
      PROVE  states[c].status = "translated" /\ exec'[d].worker[c].text = LastText(c)
  <2>1. Kept(c)
    BY StaysAstray DEF Sound
  <2> QED
    BY <1>1, <1>4, <2>1, StageResumes
<1>5. ~Crash
  <2>1. exec' = Ended => ~Resumes(d, c)
    BY <1>1, EndedIs DEF Resumes, Off, Typed
  <2> QED
    BY <2>1 DEF Crash
<1>6. ~ForeignRead /\ ~ForeignWrite /\ ~UNCHANGED vars
  BY DEF ForeignRead, ForeignWrite, vars, Resumes
<1> QED
  BY <1>2, <1>3, <1>4, <1>5, <1>6 DEF Next

LEMMA CachedIsPending ==
  ASSUME Sound, [Next]_vars, NEW c \in Chunks, cache'[c] # cache[c]
  PROVE  \E e \in Runs : /\ exec[e].stage = "flush"
                         /\ exec[e].pending[c] # NoText /\ cache'[c] = exec[e].pending[c]
<1>1. PICK e \in Runs : Flush(e)
  <2>1. ASSUME NEW e \in Runs, NEW k \in Chunks,
               \/ Pause(e, k) \/ CacheHit(e, k) \/ GiveUp(e, k) \/ Call(e, k)
               \/ Answer(e, k) \/ CallFails(e, k) \/ AnswerLost(e, k) \/ Check(e, k)
        PROVE  FALSE
    BY <2>1 DEF Pause, CacheHit, GiveUp, Call, Answer, CallFails, AnswerLost, Check
  <2>2. ASSUME NEW e \in Runs,
               \/ Begin(e) \/ TranslateEnds(e) \/ QaRaises(e) \/ QaEnds(e) \/ Save(e)
               \/ Handle(e) \/ HandlerWrites(e) \/ Cancel(e)
        PROVE  FALSE
    BY <2>2 DEF Begin, TranslateEnds, QaRaises, QaEnds, Save, Handle, HandlerWrites, Cancel
  <2>3. ~Crash /\ ~ForeignRead /\ ~ForeignWrite /\ ~UNCHANGED vars
    BY DEF Crash, ForeignRead, ForeignWrite, vars
  <2> QED
    BY <2>1, <2>2, <2>3 DEF Next
<1>2. cache'[c] = IF Flushable(exec[e], c) = NoText THEN cache[c] ELSE Flushable(exec[e], c)
  BY <1>1 DEF Flush
<1> QED
  BY <1>1, <1>2 DEF Flush, Flushable

\* A text QA has rejected, by its score or otherwise, is not written to the cache
\* any more, and no execution resumes from one whose chunk was marked unless the
\* cache holds it or the files of the chunk have lost a write or were written by
\* an orphan.
THEOREM RejectedNeverReturns == Spec => RejectedStaysOut
<1> DEFINE StaysOut(c) ==
      /\ cache'[c] # cache[c] => <<c, cache'[c]>> \notin rejected \cup scored
      /\ \A e \in Runs : LET worker == exec'[e].worker[c] IN
           /\ worker.pc = "resumed"
           /\ worker # exec[e].worker[c]
           => \/ c \in astray' \/ worker.text = cache[c]
              \/ <<c, worker.text>> \notin rejected
<1>1. ASSUME Sound, [Next]_vars, NEW c \in Chunks PROVE StaysOut(c)
  <2>1. ASSUME cache'[c] # cache[c] PROVE <<c, cache'[c]>> \notin rejected \cup scored
    BY <1>1, <2>1, CachedIsPending DEF Sound, Fresh, Unrejected
  <2>2. ASSUME NEW e \in Runs, Resumes(e, c), c \notin astray'
        PROVE  \/ exec'[e].worker[c].text = cache[c]
               \/ <<c, exec'[e].worker[c].text>> \notin rejected
    <3>1. c \notin astray
      BY <1>1, <2>2, StaysAstray
    <3>2. Filed(c)
      BY <1>1, <3>1 DEF Sound, Kept
    <3> QED
      BY <1>1, <2>2, <3>2, ResumesLast DEF Filed
  <2> QED
    BY <2>1, <2>2 DEF Resumes
<1>2. Sound /\ [Next]_vars => [\A c \in Chunks : StaysOut(c)]_vars
  BY <1>1
<1>3. Sound /\ [Next]_vars => [\A c \in Chunks :
       /\ cache'[c] # cache[c] => <<c, cache'[c]>> \notin rejected \cup scored
       /\ \A e \in Runs : LET worker == exec'[e].worker[c] IN
            /\ worker.pc = "resumed"
            /\ worker # exec[e].worker[c]
            => \/ c \in astray' \/ worker.text = cache[c]
               \/ <<c, worker.text>> \notin rejected]_vars
  BY <1>2
<1> QED
  BY <1>3, SoundInvariant, PTL DEF Spec, RejectedStaysOut
=============================================================================
