------------------------- MODULE GeminiQuotaProofs -------------------------
(***************************************************************************)
(* For any number of coroutines, credentials and calls and for any limits: *)
(* the type invariant of GeminiQuota, and, until a lock expires inside of  *)
(* a critical section, that slots are owned, that what runs is charged to  *)
(* both budgets, and that it fits into the slots.                          *)
(***************************************************************************)
EXTENDS GeminiQuota, FiniteSetTheorems, TLAPS

List == [Calls -> EventType]
Coroutine ==
  [pc : {"idle", "reserve", "reserving", "calling", "settle", "settling"},
   call : 0..MaxCalls, cred : Controllers, at : Controllers,
   upto : Controllers, outcome : EventType, list : List]

Section == {"reserving", "settling"}
Settled == {"success", "failure"}

\* What a coroutine of each stage carries.
StageOK(x) ==
  /\ x.pc = "idle" <=> x.call = 0
  /\ x.call # 0 => x.call <= started
  /\ x.pc # "idle" => x.cred \in Credentials /\ x.at \in {Project, x.cred}
  /\ x.pc \in {"settle", "settling"} =>
       /\ x.outcome.status \in Settled
       /\ x.upto \in {Project, x.cred} /\ x.at \in {Project, x.upto}
  /\ x.call # 0 /\ x.call \in running => x.pc = "calling"

\* Coroutines under way have calls of their own.
Stages ==
  /\ \A w \in Workers : StageOK(worker[w])
  /\ \A v, w \in Workers : v # w /\ worker[v].call # 0 => worker[v].call # worker[w].call
  /\ \A c \in running : c <= started

\* The lock protects the list its holder has read.
Locked ==
  \A w \in Workers, k \in Controllers :
    InSection(w, k) => lock[k] = w /\ worker[w].list = events[k]

\* The controllers on which a coroutine has a reservation.
MayHold(x) ==
  IF x.pc \in {"reserve", "reserving"} THEN {Project} \ {x.at}
  ELSE IF x.pc = "calling" THEN {Project, x.cred}
  ELSE IF x.pc \in {"settle", "settling"} THEN {x.at, x.upto}
  ELSE {}

\* A reservation that was not cut off is one its coroutine will settle.
Owned ==
  \A k \in Controllers, c \in Calls :
    events[k][c].status = "reserved" =>
      c \in leaked \/ \E w \in Workers : worker[w].call = c /\ k \in MayHold(worker[w])

\* Calls are charged to the project and to one credential.
Reserving(x) ==
  x.pc \in {"reserve", "reserving"} /\ x.at # Project =>
    events[Project][x.call].status = "reserved"

Charged ==
  /\ \A k \in Controllers, c \in Calls : c > started => events[k][c] = NoEvent
  /\ \A w \in Workers : Reserving(worker[w])
  /\ \A w \in Workers, k \in Controllers :
       worker[w].call # 0 /\ k \notin {Project, worker[w].cred} =>
         events[k][worker[w].call] = NoEvent
  /\ \A c \in running : /\ events[Project][c] # NoEvent
                        /\ \E k \in Credentials : events[k][c] # NoEvent
  /\ \A c \in running, k \in Controllers :
       events[k][c] # NoEvent => events[k][c].status = "reserved"

\* The reservations that count, and the room a reservation being made has.
Flight(k) ==
  {c \in Calls : events[k][c] # NoEvent /\ events[k][c].status = "reserved" /\ age[c] < 2}

Fits ==
  \A k \in Controllers :
    /\ Cardinality(Flight(k)) <= Slots[k]
    /\ \A w \in Workers : worker[w].pc = "reserving" /\ worker[w].at = k =>
         Cardinality(Flight(k)) < Slots[k]

\* What an overrun breaks.
Quiet == Locked /\ Owned /\ Charged /\ Fits

Types == TypeOK /\ Stages

Inv == Types /\ (~overrun => Quiet)
-----------------------------------------------------------------------------
(* Types.                                                                  *)

LEMMA IdleIsCoroutine == Idle \in Coroutine /\ NoEvent \in EventType /\ Empty \in List
BY QuotaAssumption DEF Idle, Coroutine, Empty, List, NoEvent, EventType, Calls, Controllers

LEMMA OutcomeTypes ==
  /\ Failed \in EventType /\ Failed.status = "failure"
  /\ Event("success", Estimate + 1) \in EventType
  /\ Event("success", Estimate + 1).status = "success"
  /\ Event("reserved", Estimate) \in EventType
  /\ Event("reserved", Estimate).status = "reserved"
BY DEF Failed, Event, Estimate, EventType

\* What follows a refusal or a write is a stage of a coroutine.
LEMMA NextIsCoroutine ==
  ASSUME NEW x \in Coroutine
  PROVE  NextStage(x) \in Coroutine /\ AfterRefusal(x) \in Coroutine
<1>1. NextStage(x) \in Coroutine
  BY IdleIsCoroutine DEF NextStage, Coroutine, List
<1>2. AfterRefusal(x) \in Coroutine
  BY IdleIsCoroutine, OutcomeTypes DEF AfterRefusal, Coroutine, List, Controllers
<1> QED
  BY <1>1, <1>2

\* What is written is a list again.
LEMMA WrittenIsList ==
  ASSUME NEW w \in Workers, worker[w] \in Coroutine
  PROVE  Written(w) \in List
BY OutcomeTypes DEF Written, Coroutine, List

LEMMA WorkersAreCoroutines == TypeOK => worker \in [Workers -> Coroutine]
BY DEF TypeOK, Coroutine, List

-----------------------------------------------------------------------------
(* Stages.                                                                 *)

\* A coroutine that goes on does so with its call, or is idle.
LEMMA StageStep ==
  ASSUME Types, NEW w \in Workers, NEW y \in Coroutine,
         worker' = [worker EXCEPT ![w] = y], started' = started,
         running' \subseteq running \cup ({worker[w].call} \ {0}),
         y.call \in {0, worker[w].call}, StageOK(y)'
  PROVE  Stages'
<1>1. /\ worker \in [Workers -> Coroutine] /\ worker'[w] = y
      /\ \A v \in Workers \ {w} : worker'[v] = worker[v]
  BY WorkersAreCoroutines DEF Types
<1>2. ASSUME NEW v \in Workers PROVE StageOK(worker[v])'
  <2>1. CASE v = w
    BY <1>1, <2>1 DEF StageOK
  <2>2. CASE v # w
    <3>1. worker[v].call # 0 => worker[v].call # worker[w].call
      BY <2>2 DEF Types, Stages
    <3>2. StageOK(worker[v]) /\ worker'[v] = worker[v]
      BY <1>1, <2>2 DEF Types, Stages
    <3> QED
      BY <3>1, <3>2 DEF StageOK
  <2> QED
    BY <2>1, <2>2
<1>3. ASSUME NEW v \in Workers, NEW u \in Workers, v # u, worker'[v].call # 0
      PROVE  worker'[v].call # worker'[u].call
  BY <1>1, <1>3 DEF Types, Stages
<1>4. \A c \in running' : c <= started'
  <2>1. worker[w].call # 0 => worker[w].call <= started
    BY DEF Types, Stages, StageOK
  <2> QED
    BY <2>1 DEF Types, Stages
<1> QED
  BY <1>2, <1>3, <1>4 DEF Stages

\* What follows a refusal or a write belongs to the stage before.
LEMMA NextIsStage ==
  ASSUME NEW x \in Coroutine, StageOK(x), Project \notin Credentials
  PROVE  /\ x.pc = "reserve" =>
              /\ AfterRefusal(x).call \in {0, x.call}
              /\ AfterRefusal(x).pc \in {"idle", "settle"}
              /\ AfterRefusal(x).pc = "idle" => AfterRefusal(x) = Idle
              /\ AfterRefusal(x).pc = "settle" =>
                   /\ x.at = x.cred /\ AfterRefusal(x).cred = x.cred
                   /\ AfterRefusal(x).call = x.call
                   /\ AfterRefusal(x).at = Project /\ AfterRefusal(x).upto = Project
                   /\ AfterRefusal(x).outcome = Failed
         /\ x.pc = "reserving" =>
              /\ NextStage(x).call = x.call /\ NextStage(x).cred = x.cred
              /\ NextStage(x).at = x.cred
              /\ NextStage(x).pc = IF x.at = Project THEN "reserve" ELSE "calling"
         /\ x.pc = "settling" =>
              IF x.at = x.upto THEN NextStage(x) = Idle
              ELSE /\ NextStage(x).call = x.call /\ NextStage(x).cred = x.cred
                   /\ NextStage(x).at = x.upto /\ NextStage(x).upto = x.upto
                   /\ NextStage(x).pc = "settle" /\ NextStage(x).outcome = x.outcome
<1>1. CASE x.pc = "reserve"
  BY <1>1 DEF AfterRefusal, Idle, Coroutine, StageOK, List
<1>2. CASE x.pc = "reserving" /\ x.at = Project
  <2>1. NextStage(x) = [x EXCEPT !.pc = "reserve", !.at = x.cred, !.list = Empty]
    BY <1>2 DEF NextStage
  <2> QED
    BY <1>2, <2>1 DEF Coroutine, List
<1>3. CASE x.pc = "reserving" /\ x.at # Project
  <2>1. NextStage(x) = [x EXCEPT !.pc = "calling", !.list = Empty]
    BY <1>3 DEF NextStage
  <2> QED
    BY <1>3, <2>1 DEF Coroutine, List, StageOK
<1>4. CASE x.pc = "settling" /\ x.at # x.upto
  <2>1. NextStage(x) = [x EXCEPT !.pc = "settle", !.at = x.upto, !.list = Empty]
    BY <1>4 DEF NextStage
  <2> QED
    BY <1>4, <2>1 DEF Coroutine, List
<1>5. CASE x.pc = "settling" /\ x.at = x.upto
  BY <1>5 DEF NextStage
<1> QED
  BY <1>1, <1>2, <1>3, <1>4, <1>5

\* What a coroutine is after each action that lets it go on.
LEMMA StartedIs ==
  ASSUME NEW k \in Credentials, started \in Nat, started < MaxCalls
  PROVE  LET y == [Idle EXCEPT !.pc = "reserve", !.call = started + 1, !.cred = k]
         IN  /\ y \in Coroutine
             /\ y.pc = "reserve" /\ y.call = started + 1 /\ y.cred = k /\ y.at = Project
<1>1. started + 1 \in 0..MaxCalls
  BY QuotaAssumption
<1> QED
  BY <1>1, IdleIsCoroutine DEF Idle, Coroutine, Controllers

LEMMA EnteredIs ==
  ASSUME Types, NEW w \in Workers, Enter(w)
  PROVE  \E y \in Coroutine :
           /\ worker' = [worker EXCEPT ![w] = y]
           /\ y.pc = IF worker[w].pc = "reserve" THEN "reserving" ELSE "settling"
           /\ y.call = worker[w].call /\ y.cred = worker[w].cred /\ y.at = worker[w].at
           /\ y.upto = worker[w].upto /\ y.outcome = worker[w].outcome
           /\ y.list = events[worker[w].at]
<1> DEFINE x == worker[w]
           pc == IF x.pc = "reserve" THEN "reserving" ELSE "settling"
           y == [x EXCEPT !.list = events[x.at], !.pc = pc]
<1>1. worker \in [Workers -> Coroutine] /\ x \in Coroutine /\ events[x.at] \in List
  BY WorkersAreCoroutines DEF Types, TypeOK, Coroutine, List
<1>2. worker' = [worker EXCEPT ![w] = y]
  BY <1>1 DEF Enter
<1>3. /\ y \in Coroutine /\ y.pc = pc /\ y.list = events[x.at]
      /\ y.call = x.call /\ y.cred = x.cred /\ y.at = x.at
      /\ y.upto = x.upto /\ y.outcome = x.outcome
  BY <1>1 DEF Coroutine, List
<1> HIDE DEF y
<1> QED
  BY <1>2, <1>3

LEMMA AnsweredIs ==
  ASSUME Types, NEW w \in Workers, Answered(w)
  PROVE  \E y \in Coroutine :
           /\ worker' = [worker EXCEPT ![w] = y]
           /\ y.pc = "settle" /\ y.call = worker[w].call /\ y.cred = worker[w].cred
           /\ y.at = Project /\ y.upto = worker[w].cred /\ y.outcome.status \in Settled
<1> DEFINE x == worker[w]
<1>1. worker \in [Workers -> Coroutine] /\ x \in Coroutine
  BY WorkersAreCoroutines DEF Types
<1>2. PICK outcome \in {Failed, Event("success", Estimate + 1)} :
        worker' = [worker EXCEPT ![w] = [x EXCEPT !.pc = "settle", !.at = Project,
                                           !.upto = x.cred, !.outcome = outcome]]
  BY DEF Answered
<1>3. outcome \in EventType /\ outcome.status \in Settled
  BY <1>2, OutcomeTypes DEF Settled
<1> DEFINE y == [x EXCEPT !.pc = "settle", !.at = Project, !.upto = x.cred,
                          !.outcome = outcome]
<1>4. /\ y \in Coroutine /\ y.pc = "settle" /\ y.call = x.call /\ y.cred = x.cred
      /\ y.at = Project /\ y.upto = x.cred /\ y.outcome = outcome
  BY <1>1, <1>3 DEF Coroutine, List, Controllers
<1>5. worker' = [worker EXCEPT ![w] = y]
  BY <1>2
<1> HIDE DEF y
<1> QED
  BY <1>3, <1>4, <1>5

\* A coroutine that is idle owns nothing.
LEMMA IdleStage == Idle.pc = "idle" /\ Idle.call = 0 /\ StageOK(Idle)'
BY DEF Idle, StageOK

LEMMA TypesInvariant == Spec => []Types
<1>1. Init => Types
  <2> SUFFICES ASSUME Init PROVE Types
    OBVIOUS
  <2>1. TypeOK
    <3>1. started \in 0..MaxCalls /\ cut \in 0..MaxCutOff
      BY QuotaAssumption DEF Init
    <3>2. events \in [Controllers -> List] /\ worker \in [Workers -> Coroutine]
      BY IdleIsCoroutine DEF Init
    <3>3. age \in [Calls -> 0..2] /\ lock \in [Controllers -> Workers \cup {Nobody}]
      BY DEF Init
    <3>4. running \subseteq Calls /\ leaked \subseteq Calls /\ overrun \in BOOLEAN
      BY DEF Init
    <3> QED
      BY <3>1, <3>2, <3>3, <3>4 DEF TypeOK, Coroutine, List
  <2>2. Stages
    BY DEF Init, Stages, StageOK, Idle
  <2> QED
    BY <2>1, <2>2 DEF Types
<1>2. Types /\ [Next]_vars => Types'
  <2> SUFFICES ASSUME Types, [Next]_vars PROVE Types'
    OBVIOUS
  <2>0. /\ worker \in [Workers -> Coroutine] /\ Idle \in Coroutine
        /\ started \in Nat /\ started <= MaxCalls /\ Project \notin Credentials
    BY WorkersAreCoroutines, IdleIsCoroutine, QuotaAssumption DEF Types, TypeOK
  <2>a. \A y : StageOK(y) => (y.pc # "idle" <=> y.call # 0)
    BY DEF StageOK
  <2>1. ASSUME NEW w \in Workers, StartCall(w) PROVE Types'
    <3>1. PICK k \in Credentials :
            worker' = [worker EXCEPT ![w] = [Idle EXCEPT !.pc = "reserve",
                                           !.call = started + 1, !.cred = k]]
      BY <2>1 DEF StartCall
    <3>2. started' = started + 1 /\ started < MaxCalls /\ running' = running
      BY <2>1 DEF StartCall
    <3>3. PICK y \in Coroutine :
            /\ worker' = [worker EXCEPT ![w] = y] /\ y.pc = "reserve"
            /\ y.call = started + 1 /\ y.cred = k /\ y.at = Project
      BY <2>0, <3>1, <3>2, StartedIs
    <3>4. /\ worker' \in [Workers -> Coroutine] /\ worker'[w] = y
          /\ \A v \in Workers \ {w} : worker'[v] = worker[v]
      BY <2>0, <3>3
    <3>a. started + 1 \in 0..MaxCalls /\ y.call \notin running
      BY <2>0, <3>2, <3>3, QuotaAssumption DEF Types, Stages
    <3>5. TypeOK'
      BY <2>1, <3>2, <3>4, <3>a DEF StartCall, Types, TypeOK, Coroutine, List
    <3>6. ASSUME NEW v \in Workers PROVE StageOK(worker[v])'
      <4>1. CASE v = w
        BY <2>0, <3>2, <3>3, <3>4, <3>a, <4>1 DEF StageOK
      <4>2. CASE v # w
        <5>1. StageOK(worker[v]) /\ worker'[v] = worker[v] /\ worker[v].call \in Nat
          BY <2>0, <3>4, <4>2 DEF Types, Stages, Coroutine
        <5> QED
          BY <2>0, <3>2, <5>1 DEF StageOK
      <4> QED
        BY <4>1, <4>2
    <3>7. \A v \in Workers : worker[v].call < started + 1 /\ worker[v].call \in Nat
      BY <2>0 DEF Types, Stages, StageOK, Coroutine
    <3>8. ASSUME NEW v \in Workers, NEW u \in Workers, v # u, worker'[v].call # 0
          PROVE  worker'[v].call # worker'[u].call
      BY <2>0, <3>3, <3>4, <3>7, <3>8 DEF Types, Stages
    <3>9. \A c \in running' : c <= started'
      BY <2>0, <3>2 DEF Types, Stages, TypeOK, Calls
    <3> QED
      BY <3>5, <3>6, <3>8, <3>9 DEF Types, Stages
  <2>2. ASSUME NEW w \in Workers, Enter(w) PROVE Types'
    <3>1. PICK y \in Coroutine :
            /\ worker' = [worker EXCEPT ![w] = y]
            /\ y.pc = IF worker[w].pc = "reserve" THEN "reserving" ELSE "settling"
            /\ y.call = worker[w].call /\ y.cred = worker[w].cred /\ y.at = worker[w].at
            /\ y.upto = worker[w].upto /\ y.outcome = worker[w].outcome
      BY <2>2, EnteredIs
    <3>2. TypeOK'
      <4>1. worker' \in [Workers -> Coroutine]
        BY <2>0, <3>1
      <4>2. lock' \in [Controllers -> Workers \cup {Nobody}]
        BY <2>2 DEF Enter, Types, TypeOK
      <4> QED
        BY <2>2, <4>1, <4>2 DEF Enter, Types, TypeOK, Coroutine, List
    <3>3. /\ worker[w].pc \in {"reserve", "settle"} /\ StageOK(worker[w])
          /\ started' = started /\ running' = running
      BY <2>2 DEF Enter, Types, Stages
    <3>4. StageOK(y)'
      BY <3>1, <3>3 DEF StageOK
    <3> QED
      BY <3>1, <3>2, <3>3, <3>4, StageStep DEF Types
  <2>3. ASSUME NEW w \in Workers, Refuse(w) PROVE Types'
    <3>0. worker[w] \in Coroutine /\ StageOK(worker[w])
      BY <2>0 DEF Types, Stages
    <3>1. PICK y \in Coroutine : y = AfterRefusal(worker[w])
      BY <3>0, NextIsCoroutine
    <3>2. /\ worker' = [worker EXCEPT ![w] = y] /\ worker[w].pc = "reserve"
          /\ started' = started /\ running' = running
      BY <2>3, <3>1 DEF Refuse
    <3>3. TypeOK'
      <4>1. worker' \in [Workers -> Coroutine]
        BY <2>0, <3>1, <3>2
      <4> QED
        BY <2>3, <4>1 DEF Refuse, Types, TypeOK, Coroutine, List
    <3>4. CASE y = Idle
      <4>1. y.call = 0 /\ StageOK(y)'
        BY <3>0, <3>2, <3>4, IdleStage DEF Idle
      <4> QED
        BY <3>1, <3>2, <3>3, <4>1, StageStep DEF Types
    <3>5. CASE y # Idle
      <4>1. /\ y.call = worker[w].call /\ y.cred = worker[w].cred /\ y.pc = "settle"
            /\ y.at = Project /\ y.upto = Project /\ y.outcome.status = "failure"
        BY <2>0, <3>0, <3>1, <3>2, <3>5, NextIsStage, OutcomeTypes
      <4>2. StageOK(y)'
        BY <3>0, <3>2, <4>1 DEF StageOK, Settled
      <4> QED
        BY <3>1, <3>2, <3>3, <4>1, <4>2, StageStep DEF Types
    <3> QED
      BY <3>4, <3>5
  <2>4. ASSUME NEW w \in Workers, Leave(w) PROVE Types'
    <3>0. worker[w] \in Coroutine /\ StageOK(worker[w])
      BY <2>0 DEF Types, Stages
    <3>1. PICK y \in Coroutine : y = NextStage(worker[w])
      BY <3>0, NextIsCoroutine
    <3>2. /\ worker' = [worker EXCEPT ![w] = y] /\ started' = started
          /\ running' = IF y.pc = "calling" THEN running \cup {worker[w].call} ELSE running
      BY <2>4, <3>1 DEF Leave
    <3>3. worker[w].pc \in {"reserving", "settling"} /\ worker[w].call \in Calls
      BY <2>4, <3>0 DEF Leave, StageOK, Coroutine, Calls
    <3>4. TypeOK'
      <4>1. worker' \in [Workers -> Coroutine]
        BY <2>0, <3>2
      <4>2. Written(w) \in List
        BY <3>0, WrittenIsList
      <4>3. events' \in [Controllers -> List]
        BY <2>4, <4>2 DEF Leave, Types, TypeOK, List
      <4>4. lock' \in [Controllers -> Workers \cup {Nobody}]
        BY <2>4 DEF Leave, Types, TypeOK
      <4>5. running' \subseteq Calls
        BY <3>2, <3>3 DEF Types, TypeOK
      <4> QED
        BY <2>4, <4>1, <4>3, <4>4, <4>5 DEF Leave, Types, TypeOK, Coroutine, List
    <3>5. worker[w].call # 0 /\ running' \subseteq running \cup ({worker[w].call} \ {0})
      BY <3>2, <3>3 DEF Calls
    <3>6. CASE y = Idle
      BY <3>2, <3>4, <3>5, <3>6, IdleStage, StageStep DEF Types
    <3>7. CASE worker[w].pc = "reserving"
      <4>1. /\ y.call = worker[w].call /\ y.cred = worker[w].cred /\ y.at = worker[w].cred
            /\ y.pc \in {"reserve", "calling"}
        BY <2>0, <3>0, <3>1, <3>7, NextIsStage
      <4>2. worker[w].call \notin running
        BY <3>0, <3>5, <3>7 DEF StageOK
      <4>3. y.call \in running' => y.pc = "calling"
        BY <3>2, <4>1, <4>2
      <4>4. StageOK(y)'
        BY <3>0, <3>2, <3>5, <3>7, <4>1, <4>3 DEF StageOK
      <4> QED
        BY <3>2, <3>4, <3>5, <4>1, <4>4, StageStep DEF Types
    <3>8. CASE worker[w].pc = "settling" /\ y # Idle
      <4>1. /\ y.call = worker[w].call /\ y.cred = worker[w].cred
            /\ y.at = worker[w].upto /\ y.upto = worker[w].upto
            /\ y.pc = "settle" /\ y.outcome = worker[w].outcome
        BY <2>0, <3>0, <3>1, <3>8, NextIsStage
      <4>2. running' = running
        BY <3>2, <4>1
      <4>3. StageOK(y)'
        BY <3>0, <3>2, <3>5, <3>8, <4>1, <4>2 DEF StageOK
      <4> QED
        BY <3>2, <3>4, <3>5, <4>1, <4>3, StageStep DEF Types
    <3> QED
      BY <3>3, <3>6, <3>7, <3>8
  <2>5. ASSUME NEW w \in Workers, Answered(w) PROVE Types'
    <3>1. PICK y \in Coroutine :
            /\ worker' = [worker EXCEPT ![w] = y]
            /\ y.pc = "settle" /\ y.call = worker[w].call /\ y.cred = worker[w].cred
            /\ y.at = Project /\ y.upto = worker[w].cred /\ y.outcome.status \in Settled
      BY <2>5, AnsweredIs
    <3>2. /\ StageOK(worker[w]) /\ worker[w].pc = "calling" /\ started' = started
          /\ running' = running \ {worker[w].call}
      BY <2>5 DEF Answered, Types, Stages
    <3>3. TypeOK'
      <4>1. worker' \in [Workers -> Coroutine]
        BY <2>0, <3>1
      <4> QED
        BY <2>5, <4>1 DEF Answered, Types, TypeOK, Coroutine, List
    <3>4. StageOK(y)'
      BY <3>1, <3>2 DEF StageOK
    <3> QED
      BY <3>1, <3>2, <3>3, <3>4, StageStep DEF Types
  <2>6. ASSUME NEW w \in Workers, Cancelled(w) \/ GiveUp(w) \/ Crash(w) PROVE Types'
    <3>1. /\ worker' = [worker EXCEPT ![w] = Idle] /\ started' = started
          /\ running' \subseteq running
      BY <2>6 DEF Cancelled, GiveUp, Crash
    <3>2. worker' \in [Workers -> Coroutine]
      BY <2>0, <3>1
    <3>3. worker[w].call \in Calls
      <4>1. worker[w] \in Coroutine /\ StageOK(worker[w]) /\ worker[w].pc # "idle"
        BY <2>0, <2>6 DEF Types, Stages, Cancelled, GiveUp, Crash
      <4> QED
        BY <4>1 DEF StageOK, Coroutine, Calls
    <3>4. cut' \in 0..MaxCutOff
      BY <2>6, QuotaAssumption DEF Cancelled, GiveUp, Crash, Types, TypeOK
    <3>5. TypeOK'
      BY <2>6, <3>1, <3>2, <3>3, <3>4
         DEF Cancelled, GiveUp, Crash, Types, TypeOK, Coroutine, List
    <3> QED
      BY <2>0, <3>1, <3>5, IdleStage, StageStep DEF Types
  <2>7. ASSUME NEW k \in Controllers, LockExpires(k) PROVE Types'
    <3>1. TypeOK'
      BY <2>7 DEF LockExpires, Types, TypeOK
    <3> QED
      BY <2>7, <3>1 DEF LockExpires, Types, Stages, StageOK
  <2>8. ASSUME NEW c \in Calls, AbandonedEnds(c) PROVE Types'
    <3>1. TypeOK'
      BY <2>8 DEF AbandonedEnds, Types, TypeOK
    <3> QED
      BY <2>8, <3>1 DEF AbandonedEnds, Types, Stages, StageOK
  <2>9. ASSUME NEW c \in Calls, Ages(c) PROVE Types'
    <3>1. TypeOK'
      BY <2>9 DEF Ages, Types, TypeOK
    <3> QED
      BY <2>9, <3>1 DEF Ages, Types, Stages, StageOK
  <2>10. ASSUME UNCHANGED vars PROVE Types'
    BY <2>10 DEF vars, Types, TypeOK, Stages, StageOK
  <2> QED
    BY <2>1, <2>2, <2>3, <2>4, <2>5, <2>6, <2>7, <2>8, <2>9, <2>10 DEF Next
<1> QED
  BY <1>1, <1>2, PTL DEF Spec

\* Lists, locks and coroutines keep their types, whatever limits, calls, cut
\* offs and expired locks there are.
THEOREM TypeCorrect == Spec => []TypeOK
<1>1. Types => TypeOK
  BY DEF Types
<1> QED
  BY <1>1, TypesInvariant, PTL
-----------------------------------------------------------------------------
(* The lock protects its list until it expires inside of a section.        *)

LEMMA StayQuiet ==
  ASSUME Types, [Next]_vars, ~overrun' PROVE ~overrun
<1>1. ASSUME NEW k \in Controllers, LockExpires(k) PROVE ~overrun
  BY <1>1 DEF LockExpires, Types, TypeOK
<1>2. CASE UNCHANGED overrun
  BY <1>2
<1> QED
  BY <1>1, <1>2 DEF Next, vars, StartCall, Enter, Refuse, Leave, Answered, Cancelled,
                    GiveUp, Crash, AbandonedEnds, Ages

\* A coroutine outside of a section may become anything outside of one.
LEMMA LockedOutside ==
  ASSUME Types, Locked, NEW w \in Workers, NEW y, y.pc \notin Section,
         worker' = [worker EXCEPT ![w] = y], events' = events, lock' = lock
  PROVE  Locked'
<1> SUFFICES ASSUME NEW v \in Workers, NEW k \in Controllers, InSection(v, k)'
             PROVE  lock'[k] = v /\ worker'[v].list = events'[k]
  BY DEF Locked
<1>1. worker'[w] = y /\ \A u \in Workers \ {w} : worker'[u] = worker[u]
  BY WorkersAreCoroutines DEF Types
<1>2. v # w
  BY <1>1 DEF InSection, Section
<1>3. InSection(v, k)
  BY <1>1, <1>2 DEF InSection
<1> QED
  BY <1>1, <1>2, <1>3 DEF Locked

LEMMA LockedStep ==
  ASSUME Types, Locked, [Next]_vars, ~overrun' PROVE Locked'
<1>0. worker \in [Workers -> Coroutine] /\ ~overrun /\ Nobody \notin Workers
  BY WorkersAreCoroutines, StayQuiet, QuotaAssumption DEF Types
<1>1. ASSUME NEW w \in Workers, StartCall(w) PROVE Locked'
  <2>1. PICK k \in Credentials :
          worker' = [worker EXCEPT ![w] = [Idle EXCEPT !.pc = "reserve",
                                         !.call = started + 1, !.cred = k]]
    BY <1>1 DEF StartCall
  <2>2. started \in Nat /\ started < MaxCalls
    <3>1. started \in Nat
      BY DEF Types, TypeOK
    <3>2. started < MaxCalls
      BY <1>1 DEF StartCall
    <3> QED
      BY <3>1, <3>2
  <2>3. PICK y \in Coroutine : worker' = [worker EXCEPT ![w] = y] /\ y.pc = "reserve"
    BY <2>1, <2>2, StartedIs
  <2> QED
    BY <1>1, <2>3, LockedOutside DEF StartCall, Section
<1>2. ASSUME NEW w \in Workers, Enter(w) PROVE Locked'
  <2>1. PICK y \in Coroutine :
          /\ worker' = [worker EXCEPT ![w] = y] /\ y.at = worker[w].at
          /\ y.list = events[worker[w].at]
    BY <1>2, EnteredIs
  <2>2. worker'[w] = y /\ \A u \in Workers \ {w} : worker'[u] = worker[u]
    BY <1>0, <2>1
  <2>3. /\ lock[worker[w].at] = Nobody /\ lock' = [lock EXCEPT ![worker[w].at] = w]
        /\ events' = events /\ lock \in [Controllers -> Workers \cup {Nobody}]
    BY <1>2 DEF Enter, Types, TypeOK
  <2>4. ASSUME NEW v \in Workers, NEW k \in Controllers, InSection(v, k)'
        PROVE  lock'[k] = v /\ worker'[v].list = events'[k]
    <3>1. CASE v = w
      <4>1. k = worker[w].at
        BY <2>1, <2>2, <2>4, <3>1 DEF InSection
      <4> QED
        BY <2>1, <2>2, <2>3, <3>1, <4>1
    <3>2. CASE v # w
      <4>1. worker'[v] = worker[v] /\ InSection(v, k)
        BY <2>2, <2>4, <3>2 DEF InSection
      <4>2. lock[k] = v /\ worker[v].list = events[k]
        BY <4>1 DEF Locked
      <4> QED
        BY <1>0, <2>3, <4>1, <4>2
    <3> QED
      BY <3>1, <3>2
  <2> QED
    BY <2>4 DEF Locked
<1>3. ASSUME NEW w \in Workers, Refuse(w) PROVE Locked'
  <2>1. worker[w] \in Coroutine /\ StageOK(worker[w]) /\ Project \notin Credentials
    BY <1>0, QuotaAssumption DEF Types, Stages
  <2>2. PICK y : y = AfterRefusal(worker[w])
    OBVIOUS
  <2>3. y.pc \in {"idle", "settle"} /\ worker' = [worker EXCEPT ![w] = y]
    BY <1>3, <2>1, <2>2, NextIsStage DEF Refuse
  <2> QED
    BY <1>3, <2>3, LockedOutside DEF Refuse, Section
<1>4. ASSUME NEW w \in Workers, Leave(w) PROVE Locked'
  <2>1. worker[w] \in Coroutine /\ StageOK(worker[w]) /\ Project \notin Credentials
    BY <1>0, QuotaAssumption DEF Types, Stages
  <2>2. PICK y : y = NextStage(worker[w])
    OBVIOUS
  <2>3. worker[w].pc \in {"reserving", "settling"} /\ worker' = [worker EXCEPT ![w] = y]
    BY <1>4, <2>2 DEF Leave
  <2>4. y.pc \notin Section
    BY <2>1, <2>2, <2>3, NextIsStage, IdleStage DEF Section
  <2>5. worker'[w] = y /\ \A u \in Workers \ {w} : worker'[u] = worker[u]
    BY <1>0, <2>3
  <2>6. /\ lock[worker[w].at] = w
        /\ lock' = [lock EXCEPT ![worker[w].at] = IF @ = w THEN Nobody ELSE @]
        /\ events' = [events EXCEPT ![worker[w].at] = Written(w)]
        /\ worker[w].at \in Controllers /\ lock \in [Controllers -> Workers \cup {Nobody}]
        /\ events \in [Controllers -> List]
    BY <1>4, <2>1 DEF Leave, Locked, InSection, Coroutine, Types, TypeOK, List
  <2>7. ASSUME NEW v \in Workers, NEW k \in Controllers, InSection(v, k)'
        PROVE  lock'[k] = v /\ worker'[v].list = events'[k]
    <3>1. v # w /\ worker'[v] = worker[v]
      BY <2>4, <2>5, <2>7 DEF InSection, Section
    <3>2. lock[k] = v /\ worker[v].list = events[k]
      BY <2>7, <3>1 DEF InSection, Locked
    <3>3. k # worker[w].at
      BY <2>6, <3>1, <3>2
    <3> QED
      BY <2>6, <3>1, <3>2, <3>3
  <2> QED
    BY <2>7 DEF Locked
<1>5. ASSUME NEW w \in Workers, Answered(w) PROVE Locked'
  <2>1. PICK y \in Coroutine : worker' = [worker EXCEPT ![w] = y] /\ y.pc = "settle"
    BY <1>5, AnsweredIs
  <2> QED
    BY <1>5, <2>1, LockedOutside DEF Answered, Section
<1>6. ASSUME NEW w \in Workers, Cancelled(w) \/ GiveUp(w) \/ Crash(w) PROVE Locked'
  BY <1>6, IdleStage, LockedOutside DEF Cancelled, GiveUp, Crash, Section
<1>7. ASSUME NEW k \in Controllers, LockExpires(k) PROVE Locked'
  <2>1. ~InSection(lock[k], k) /\ lock' = [lock EXCEPT ![k] = Nobody]
        /\ events' = events /\ worker' = worker
    BY <1>7 DEF LockExpires
  <2>2. ASSUME NEW v \in Workers, NEW l \in Controllers, InSection(v, l)'
        PROVE  lock'[l] = v /\ worker'[v].list = events'[l]
    <3>1. InSection(v, l) /\ lock[l] = v /\ worker[v].list = events[l]
      BY <2>1, <2>2 DEF InSection, Locked
    <3> QED
      BY <2>1, <3>1 DEF Types, TypeOK
  <2> QED
    BY <2>2 DEF Locked
<1>8. ASSUME UNCHANGED <<events, lock, worker>> PROVE Locked'
  BY <1>8 DEF Locked, InSection
<1> QED
  BY <1>1, <1>2, <1>3, <1>4, <1>5, <1>6, <1>7, <1>8 DEF Next, vars, AbandonedEnds, Ages
-----------------------------------------------------------------------------
(* What a write changes, while the lock holds.                             *)

LEMMA LeaveWrites ==
  ASSUME Types, Locked, NEW w \in Workers, Leave(w)
  PROVE  LET x == worker[w] IN
         /\ x \in Coroutine /\ StageOK(x) /\ x.call \in Calls /\ x.at \in Controllers
         /\ x.pc \in {"reserving", "settling"}
         /\ \A k \in Controllers \ {x.at} : events'[k] = events[k]
         /\ \A c \in Calls \ {x.call} : events'[x.at][c] = events[x.at][c]
         /\ events'[x.at][x.call] =
              IF x.pc = "reserving" THEN Event("reserved", Estimate)
              ELSE IF events[x.at][x.call] # NoEvent THEN x.outcome ELSE NoEvent
<1> DEFINE x == worker[w]
<1>1. x \in Coroutine /\ StageOK(x) /\ x.pc \in {"reserving", "settling"}
  BY WorkersAreCoroutines DEF Types, Stages, Leave
<1>2. x.call \in Calls /\ x.at \in Controllers /\ x.list \in List
  BY <1>1 DEF StageOK, Coroutine, Calls
<1>3. x.list = events[x.at] /\ events \in [Controllers -> List]
  BY <1>1, <1>2 DEF Locked, InSection, Types, TypeOK, List
<1>4. events' = [events EXCEPT ![x.at] = Written(w)]
  BY DEF Leave
<1>5. CASE x.pc = "reserving"
  <2>1. Written(w) = [x.list EXCEPT ![x.call] = Event("reserved", Estimate)]
    BY <1>5 DEF Written
  <2> QED
    BY <1>1, <1>2, <1>3, <1>4, <1>5, <2>1 DEF List
<1>6. CASE x.pc = "settling" /\ x.list[x.call] # NoEvent
  <2>1. Written(w) = [x.list EXCEPT ![x.call] = x.outcome]
    BY <1>6 DEF Written
  <2> QED
    BY <1>1, <1>2, <1>3, <1>4, <1>6, <2>1 DEF List
<1>7. CASE x.pc = "settling" /\ x.list[x.call] = NoEvent
  <2>1. Written(w) = x.list
    BY <1>7 DEF Written
  <2> QED
    BY <1>1, <1>2, <1>3, <1>4, <1>7, <2>1 DEF List
<1> QED
  BY <1>1, <1>5, <1>6, <1>7

LEMMA EventKinds ==
  /\ NoEvent.status = "none"
  /\ Event("reserved", Estimate) # NoEvent
  /\ \A status \in Settled : status # "reserved"
BY DEF NoEvent, Event, Settled

\* The actions that change coroutines and no list: what becomes of the one
\* that steps.
LEMMA Steps ==
  ASSUME Types, NEW w \in Workers,
         \/ StartCall(w) \/ Enter(w) \/ Refuse(w) \/ Answered(w)
         \/ Cancelled(w) \/ GiveUp(w) \/ Crash(w)
  PROVE  \E y \in Coroutine :
           /\ worker' = [worker EXCEPT ![w] = y]
           /\ \/ /\ worker[w].call = 0 /\ y.call = started + 1 /\ started' = started + 1
                 /\ y.pc = "reserve" /\ y.at = Project /\ running' = running
              \/ /\ started' = started /\ running' \subseteq running
                 /\ \/ y = Idle /\ (MayHold(worker[w]) = {} \/ worker[w].call \in leaked')
                    \/ /\ y.call = worker[w].call /\ y.cred = worker[w].cred
                       /\ MayHold(worker[w]) \subseteq MayHold(y)
                       /\ y.pc \in {"reserve", "reserving"} =>
                            /\ worker[w].pc \in {"reserve", "reserving"}
                            /\ y.at = worker[w].at
           /\ y.pc = "reserving" => Enter(w) /\ worker[w].pc = "reserve"
           /\ events' = events /\ age' = age /\ leaked \subseteq leaked'
<1>0. worker \in [Workers -> Coroutine] /\ worker[w] \in Coroutine /\ StageOK(worker[w])
  BY WorkersAreCoroutines DEF Types, Stages
<1>1. CASE StartCall(w)
  <2>1. PICK k \in Credentials :
          worker' = [worker EXCEPT ![w] = [Idle EXCEPT !.pc = "reserve",
                                         !.call = started + 1, !.cred = k]]
    BY <1>1 DEF StartCall
  <2>2. started \in Nat /\ started < MaxCalls
    <3>1. started \in Nat
      BY DEF Types, TypeOK
    <3>2. started < MaxCalls
      BY <1>1 DEF StartCall
    <3> QED
      BY <3>1, <3>2
  <2>3. PICK y \in Coroutine :
          /\ worker' = [worker EXCEPT ![w] = y] /\ y.pc = "reserve"
          /\ y.call = started + 1 /\ y.at = Project
    BY <2>1, <2>2, StartedIs
  <2>4. worker[w].call = 0
    BY <1>0, <1>1 DEF StartCall, StageOK
  <2> QED
    BY <1>1, <2>3, <2>4 DEF StartCall
<1>2. CASE Enter(w)
  <2>1. PICK y \in Coroutine :
          /\ worker' = [worker EXCEPT ![w] = y]
          /\ y.pc = IF worker[w].pc = "reserve" THEN "reserving" ELSE "settling"
          /\ y.call = worker[w].call /\ y.cred = worker[w].cred /\ y.at = worker[w].at
          /\ y.upto = worker[w].upto
    BY <1>2, EnteredIs
  <2>2. worker[w].pc \in {"reserve", "settle"}
    BY <1>2 DEF Enter
  <2>3. MayHold(worker[w]) = MayHold(y)
    BY <2>1, <2>2 DEF MayHold
  <2> QED
    BY <1>2, <2>1, <2>2, <2>3 DEF Enter
<1>3. CASE Refuse(w)
  <2>1. PICK y \in Coroutine : y = AfterRefusal(worker[w])
    BY <1>0, NextIsCoroutine
  <2>2. /\ worker' = [worker EXCEPT ![w] = y] /\ worker[w].pc = "reserve"
        /\ started' = started /\ running' = running /\ events' = events /\ age' = age
        /\ leaked' = leaked
    BY <1>3, <2>1 DEF Refuse
  <2>3. CASE worker[w].at = Project
    <3>1. y = Idle /\ MayHold(worker[w]) = {}
      BY <2>1, <2>2, <2>3 DEF AfterRefusal, MayHold
    <3> QED
      BY <2>2, <3>1, IdleStage
  <2>4. CASE worker[w].at # Project
    <3>1. y.pc # "idle"
      BY <1>0, <2>1, <2>4 DEF AfterRefusal, Coroutine, List
    <3>2. /\ y.pc = "settle" /\ y.call = worker[w].call /\ y.cred = worker[w].cred
          /\ y.at = Project
      BY <1>0, <2>1, <2>2, <3>1, NextIsStage, QuotaAssumption
    <3>3. MayHold(worker[w]) \subseteq MayHold(y)
      BY <2>2, <3>2 DEF MayHold
    <3> QED
      BY <2>2, <3>2, <3>3
  <2> QED
    BY <2>3, <2>4
<1>4. CASE Answered(w)
  <2>1. PICK y \in Coroutine :
          /\ worker' = [worker EXCEPT ![w] = y] /\ y.pc = "settle"
          /\ y.call = worker[w].call /\ y.cred = worker[w].cred
          /\ y.at = Project /\ y.upto = worker[w].cred
    BY <1>4, AnsweredIs
  <2>2. MayHold(worker[w]) \subseteq MayHold(y)
    BY <1>4, <2>1 DEF Answered, MayHold
  <2> QED
    BY <1>4, <2>1, <2>2 DEF Answered
<1>5. CASE Cancelled(w) \/ GiveUp(w) \/ Crash(w)
  <2>1. worker' = [worker EXCEPT ![w] = Idle] /\ worker[w].call \in leaked'
    BY <1>5 DEF Cancelled, GiveUp, Crash
  <2> QED
    BY <1>5, <2>1, IdleIsCoroutine, IdleStage DEF Cancelled, GiveUp, Crash
<1> QED
  BY <1>1, <1>2, <1>3, <1>4, <1>5
-----------------------------------------------------------------------------
(* Slots are owned.                                                        *)

LEMMA OwnedStep ==
  ASSUME Types, Locked, Owned, [Next]_vars, ~overrun' PROVE Owned'
<1>0. worker \in [Workers -> Coroutine]
  BY WorkersAreCoroutines DEF Types
<1> SUFFICES ASSUME NEW k \in Controllers, NEW c \in Calls,
                    events'[k][c].status = "reserved"
             PROVE  c \in leaked' \/ \E v \in Workers :
                                       worker'[v].call = c /\ k \in MayHold(worker'[v])
  BY DEF Owned, MayHold
<1> DEFINE Goal == c \in leaked' \/ \E v \in Workers :
                                      worker'[v].call = c /\ k \in MayHold(worker'[v])
<1> SUFFICES Goal
  OBVIOUS
<1>1. ASSUME NEW w \in Workers,
             \/ StartCall(w) \/ Enter(w) \/ Refuse(w) \/ Answered(w)
             \/ Cancelled(w) \/ GiveUp(w) \/ Crash(w)
      PROVE  Goal
  <2>1. PICK y \in Coroutine :
           /\ worker' = [worker EXCEPT ![w] = y]
           /\ \/ worker[w].call = 0
              \/ MayHold(worker[w]) = {} \/ worker[w].call \in leaked'
              \/ y.call = worker[w].call /\ MayHold(worker[w]) \subseteq MayHold(y)
           /\ events' = events /\ leaked \subseteq leaked'
    BY <1>1, Steps
  <2>2. worker'[w] = y /\ \A v \in Workers \ {w} : worker'[v] = worker[v]
    BY <1>0, <2>1
  <2>3. CASE c \in leaked
    BY <2>1, <2>3
  <2>4. ASSUME NEW v \in Workers, worker[v].call = c, k \in MayHold(worker[v]) PROVE Goal
    <3>1. CASE v = w
      BY <2>1, <2>2, <2>4, <3>1 DEF Calls
    <3>2. CASE v # w
      BY <2>2, <2>4, <3>2
    <3> QED
      BY <3>1, <3>2
  <2> QED
    BY <2>1, <2>3, <2>4 DEF Owned
<1>2. ASSUME NEW w \in Workers, Leave(w) PROVE Goal
  <2> DEFINE x == worker[w]
             y == NextStage(x)
  <2>1. /\ x \in Coroutine /\ StageOK(x) /\ x.pc \in {"reserving", "settling"}
        /\ \A l \in Controllers \ {x.at} : events'[l] = events[l]
        /\ \A d \in Calls \ {x.call} : events'[x.at][d] = events[x.at][d]
        /\ x.call \in Calls /\ x.at \in Controllers
    BY <1>2, LeaveWrites
  <2>2. /\ x.pc = "settling" => events'[x.at][x.call].status # "reserved"
    BY <1>2, <2>1, LeaveWrites, EventKinds DEF StageOK
  <2>3. worker'[w] = y /\ (\A v \in Workers \ {w} : worker'[v] = worker[v]) /\ leaked' = leaked
    BY <1>0, <1>2 DEF Leave
  <2>4. x.pc = "reserving" => y.call = x.call /\ MayHold(x) \cup {x.at} \subseteq MayHold(y)
    BY <2>1, NextIsStage, QuotaAssumption DEF MayHold, StageOK
  <2>5. x.pc = "settling" /\ x.at # x.upto =>
          y.call = x.call /\ MayHold(x) \ {x.at} \subseteq MayHold(y)
    BY <2>1, NextIsStage, QuotaAssumption DEF MayHold
  <2>6. x.pc = "settling" /\ x.at = x.upto => MayHold(x) = {x.at}
    BY DEF MayHold
  <2> HIDE DEF x, y, Goal
  <2>7. CASE c = x.call /\ k = x.at
    <3>1. x.pc = "reserving" /\ y.call = c /\ k \in MayHold(y)
      BY <2>1, <2>2, <2>4, <2>7
    <3> QED
      BY <2>3, <3>1 DEF Goal
  <2>8. CASE ~(c = x.call /\ k = x.at)
    <3>1. events[k][c].status = "reserved"
      BY <2>1, <2>8
    <3>2. CASE c \in leaked
      BY <2>3, <3>2 DEF Goal
    <3>3. ASSUME NEW v \in Workers, worker[v].call = c, k \in MayHold(worker[v]) PROVE Goal
      <4>1. CASE v = w
        <5>1. c = x.call /\ k \in MayHold(x) /\ k # x.at
          BY <2>8, <3>3, <4>1 DEF x
        <5>2. y.call = c /\ k \in MayHold(y)
          BY <2>1, <2>4, <2>5, <2>6, <5>1
        <5> QED
          BY <2>3, <5>2 DEF Goal
      <4>2. CASE v # w
        BY <2>3, <3>3, <4>2 DEF Goal
      <4> QED
        BY <4>1, <4>2
    <3> QED
      BY <3>1, <3>2, <3>3 DEF Owned
  <2> QED
    BY <2>7, <2>8
<1>3. ASSUME UNCHANGED <<events, worker, leaked>> PROVE Goal
  BY <1>3 DEF Owned
<1> QED
  BY <1>1, <1>2, <1>3 DEF Next, vars, LockExpires, AbandonedEnds, Ages
-----------------------------------------------------------------------------
(* What runs is charged to both budgets.                                   *)

LEMMA ChargedStep ==
  ASSUME Types, Locked, Charged, [Next]_vars, ~overrun' PROVE Charged'
<1>0. worker \in [Workers -> Coroutine] /\ started \in Nat
  BY WorkersAreCoroutines DEF Types, TypeOK
<1>1. ASSUME NEW w \in Workers,
             \/ StartCall(w) \/ Enter(w) \/ Refuse(w) \/ Answered(w)
             \/ Cancelled(w) \/ GiveUp(w) \/ Crash(w)
      PROVE  Charged'
  <2>1. PICK y \in Coroutine :
           /\ worker' = [worker EXCEPT ![w] = y]
           /\ \/ /\ y.call = started + 1 /\ started' = started + 1
                 /\ y.pc = "reserve" /\ y.at = Project /\ running' = running
              \/ /\ started' = started /\ running' \subseteq running
                 /\ \/ y = Idle
                    \/ /\ y.call = worker[w].call /\ y.cred = worker[w].cred
                       /\ y.pc \in {"reserve", "reserving"} =>
                            /\ worker[w].pc \in {"reserve", "reserving"}
                            /\ y.at = worker[w].at
           /\ events' = events
    BY <1>1, Steps
  <2>2. worker'[w] = y /\ \A v \in Workers \ {w} : worker'[v] = worker[v]
    BY <1>0, <2>1
  <2>3. started' >= started /\ running' \subseteq running
    BY <1>0, <2>1
  <2>4. \A k \in Controllers, c \in Calls : c > started' => events'[k][c] = NoEvent
    BY <1>0, <2>1, <2>3 DEF Charged, Calls
  <2>5. ASSUME NEW v \in Workers PROVE Reserving(worker[v])'
    <3>1. CASE v = w
      BY <2>1, <2>2, <3>1, IdleStage DEF Charged, Reserving
    <3>2. CASE v # w
      BY <2>1, <2>2, <3>2 DEF Charged, Reserving
    <3> QED
      BY <3>1, <3>2
  <2>6. ASSUME NEW v \in Workers, NEW k \in Controllers, worker'[v].call # 0,
               k \notin {Project, worker'[v].cred}
        PROVE  events'[k][worker'[v].call] = NoEvent
    <3>1. CASE v = w /\ y.call = started + 1 /\ started' = started + 1
      <4>1. y.call \in Calls /\ y.call > started
        BY <1>0, <2>2, <2>6, <3>1 DEF Coroutine, Calls
      <4> QED
        BY <2>1, <2>2, <3>1, <4>1 DEF Charged
    <3>2. CASE v = w /\ y.call = worker[w].call /\ y.cred = worker[w].cred
      BY <2>1, <2>2, <2>6, <3>2 DEF Charged
    <3>3. CASE v = w /\ y = Idle
      BY <2>2, <2>6, <3>3, IdleStage
    <3>4. CASE v # w
      BY <2>1, <2>2, <2>6, <3>4 DEF Charged
    <3> QED
      BY <2>1, <3>1, <3>2, <3>3, <3>4
  <2>7. ASSUME NEW c \in running'
        PROVE  /\ events'[Project][c] # NoEvent
               /\ \E k \in Credentials : events'[k][c] # NoEvent
               /\ \A k \in Controllers :
                    events'[k][c] # NoEvent => events'[k][c].status = "reserved"
    BY <2>1, <2>3 DEF Charged
  <2> QED
    BY <2>4, <2>5, <2>6, <2>7 DEF Charged
<1>2. ASSUME NEW w \in Workers, Leave(w) PROVE Charged'
  <2> DEFINE x == worker[w]
             y == NextStage(x)
  <2>1. /\ x \in Coroutine /\ StageOK(x) /\ x.pc \in {"reserving", "settling"}
        /\ \A l \in Controllers \ {x.at} : events'[l] = events[l]
        /\ \A d \in Calls \ {x.call} : events'[x.at][d] = events[x.at][d]
        /\ x.call \in Calls /\ x.at \in Controllers
    BY <1>2, LeaveWrites
  <2>2. x.pc = "reserving" =>
          events'[x.at][x.call].status = "reserved" /\ events'[x.at][x.call] # NoEvent
    BY <1>2, LeaveWrites, EventKinds, OutcomeTypes
  <2>3. /\ worker'[w] = y /\ \A v \in Workers \ {w} : worker'[v] = worker[v]
        /\ started' = started
        /\ running' = IF y.pc = "calling" THEN running \cup {x.call} ELSE running
    BY <1>0, <1>2 DEF Leave
  <2>4. /\ x.at \in {Project, x.cred} /\ x.cred \in Credentials /\ x.call # 0
        /\ x.call <= started /\ x.call \notin running /\ Project \notin Credentials
    BY <2>1, QuotaAssumption DEF StageOK, Calls
  <2>5. \/ /\ x.pc = "reserving" /\ y.call = x.call /\ y.cred = x.cred /\ y.at = x.cred
           /\ y.pc = IF x.at = Project THEN "reserve" ELSE "calling"
        \/ y = Idle
        \/ y.call = x.call /\ y.cred = x.cred /\ y.pc = "settle"
    BY <2>1, <2>4, NextIsStage
  <2>6. /\ \A d \in Calls \ {x.call}, k \in Controllers : events'[k][d] = events[k][d]
        /\ \A v \in Workers \ {w} : worker[v].call # x.call
    BY <2>1, <2>4 DEF Types, Stages
  <2>7. \A v \in Workers : worker[v] \in Coroutine /\ StageOK(worker[v])
    BY <1>0 DEF Types, Stages
  <2>a. Idle.call = 0 /\ Idle.pc = "idle"
    BY IdleStage
  <2>b. Project \in Controllers
    BY DEF Controllers
  <2> HIDE DEF y
  <2>8. \A k \in Controllers, c \in Calls : c > started' => events'[k][c] = NoEvent
    BY <1>0, <2>3, <2>4, <2>6 DEF Charged, Calls
  <2>9. ASSUME NEW v \in Workers PROVE Reserving(worker[v])'
    <3>1. CASE v = w
      BY <2>2, <2>3, <2>5, <2>a, <3>1 DEF Reserving
    <3>2. CASE v # w
      <4>1. ASSUME worker[v].pc \in {"reserve", "reserving"}, worker[v].at # Project
            PROVE  events'[Project][worker[v].call] = events[Project][worker[v].call]
        <5>1. worker[v].call \in Calls \ {x.call}
          BY <2>6, <2>7, <3>2, <4>1 DEF StageOK, Coroutine, Calls
        <5> QED
          BY <2>6, <2>b, <5>1
      <4> QED
        BY <2>3, <3>2, <4>1 DEF Charged, Reserving
    <3> QED
      BY <3>1, <3>2
  <2>10. ASSUME NEW v \in Workers, NEW k \in Controllers, worker'[v].call # 0,
                k \notin {Project, worker'[v].cred}
         PROVE  events'[k][worker'[v].call] = NoEvent
    <3>1. CASE v = w
      <4>1. y.call = x.call /\ y.cred = x.cred
        BY <2>3, <2>5, <2>10, <2>a, <3>1
      <4>2. k # x.at
        BY <2>3, <2>4, <2>10, <3>1, <4>1
      <4>3. events'[k] = events[k]
        BY <2>1, <4>2
      <4> QED
        BY <2>3, <2>4, <2>10, <3>1, <4>1, <4>3 DEF Charged
    <3>2. CASE v # w
      <4>1. worker[v].call \in Calls \ {x.call}
        BY <2>3, <2>6, <2>7, <2>10, <3>2 DEF Coroutine, Calls
      <4> QED
        BY <2>3, <2>6, <2>10, <3>2, <4>1 DEF Charged
    <3> QED
      BY <3>1, <3>2
  <2>11. ASSUME NEW c \in running'
         PROVE  /\ events'[Project][c] # NoEvent
                /\ \E k \in Credentials : events'[k][c] # NoEvent
                /\ \A k \in Controllers :
                     events'[k][c] # NoEvent => events'[k][c].status = "reserved"
    <3>1. CASE c \in running
      <4>1. c \in Calls \ {x.call} /\ Credentials \subseteq Controllers
        BY <2>4, <3>1 DEF Types, TypeOK, Controllers
      <4> QED
        BY <2>6, <2>b, <3>1, <4>1 DEF Charged
    <3>2. CASE c \notin running
      <4>1. c = x.call /\ y.pc = "calling"
        BY <2>3, <2>11, <3>2
      <4>2. x.pc = "reserving" /\ x.at = x.cred /\ x.at # Project
        BY <2>4, <2>5, <2>a, <4>1
      <4>3. events'[x.cred][c].status = "reserved" /\ events'[x.cred][c] # NoEvent
        BY <2>2, <4>1, <4>2
      <4>4. events'[Project][c].status = "reserved" /\ events'[Project][c] # NoEvent
        <5>1. events[Project][c].status = "reserved"
          BY <4>1, <4>2 DEF Charged, Reserving
        <5> QED
          BY <2>1, <2>b, <4>2, <5>1, EventKinds
      <4>5. \A k \in Controllers \ {Project, x.cred} : events'[k][c] = NoEvent
        BY <2>1, <2>4, <4>1, <4>2 DEF Charged
      <4> QED
        BY <2>4, <4>3, <4>4, <4>5
    <3> QED
      BY <3>1, <3>2
  <2> QED
    BY <2>8, <2>9, <2>10, <2>11 DEF Charged
<1>3. ASSUME UNCHANGED <<events, worker, started>>, running' \subseteq running PROVE Charged'
  BY <1>3 DEF Charged, Reserving
<1> QED
  BY <1>1, <1>2, <1>3 DEF Next, vars, LockExpires, AbandonedEnds, Ages
-----------------------------------------------------------------------------
(* What runs fits into the slots.                                          *)

LEMMA FlightCounted ==
  ASSUME NEW k \in Controllers
  PROVE  /\ InFlight(events[k]) = Cardinality(Flight(k))
         /\ IsFiniteSet(Flight(k)) /\ Cardinality(Flight(k)) \in Nat /\ Slots[k] \in Nat
<1>1. InFlight(events[k]) = Cardinality(Flight(k))
  BY DEF InFlight, Count, Flight
<1>2. IsFiniteSet(Calls)
  BY QuotaAssumption, FS_Interval DEF Calls
<1>3. Flight(k) \in SUBSET Calls
  BY DEF Flight
<1>4. IsFiniteSet(Flight(k))
  BY <1>2, <1>3, FS_Subset
<1>5. Slots \in [Controllers -> Nat]
  BY QuotaAssumption
<1> QED
  BY <1>1, <1>4, <1>5, FS_CardinalityType

\* Fewer reservations count no more.
LEMMA FewerFit ==
  ASSUME NEW k \in Controllers, NEW S \in SUBSET Flight(k)
  PROVE  /\ IsFiniteSet(S) /\ Cardinality(S) \in Nat
         /\ Cardinality(S) <= Cardinality(Flight(k))
BY FlightCounted, FS_Subset, FS_CardinalityType

LEMMA FitsStep ==
  ASSUME Types, Locked, Fits, [Next]_vars, ~overrun' PROVE Fits'
<1>0. worker \in [Workers -> Coroutine]
  BY WorkersAreCoroutines DEF Types
<1> DEFINE Kept(k) == Flight(k)' \in SUBSET Flight(k)
<1>a. ASSUME NEW k \in Controllers, Kept(k)
      PROVE  /\ Cardinality(Flight(k)') <= Slots[k]
             /\ Cardinality(Flight(k)) < Slots[k] => Cardinality(Flight(k)') < Slots[k]
  <2>1. /\ Cardinality(Flight(k)') <= Cardinality(Flight(k))
        /\ Cardinality(Flight(k)') \in Nat /\ Cardinality(Flight(k)) \in Nat
        /\ Slots[k] \in Nat
    BY <1>a, FewerFit, FlightCounted
  <2>2. Cardinality(Flight(k)) <= Slots[k]
    BY DEF Fits
  <2> QED
    BY <2>1, <2>2
<1>1. ASSUME NEW w \in Workers,
             \/ StartCall(w) \/ Enter(w) \/ Refuse(w) \/ Answered(w)
             \/ Cancelled(w) \/ GiveUp(w) \/ Crash(w)
      PROVE  Fits'
  <2>1. PICK y \in Coroutine :
           /\ worker' = [worker EXCEPT ![w] = y]
           /\ y.pc = "reserving" => Enter(w) /\ worker[w].pc = "reserve"
           /\ events' = events /\ age' = age
    BY <1>1, Steps
  <2>2. worker'[w] = y /\ \A v \in Workers \ {w} : worker'[v] = worker[v]
    BY <1>0, <2>1
  <2>3. \A k \in Controllers : Flight(k)' = Flight(k)
    BY <2>1 DEF Flight
  <2>4. ASSUME NEW k \in Controllers, NEW v \in Workers,
               worker'[v].pc = "reserving", worker'[v].at = k
        PROVE  Cardinality(Flight(k)) < Slots[k]
    <3>1. CASE v = w
      <4>1. Enter(w) /\ worker[w].pc = "reserve"
        BY <2>1, <2>2, <2>4, <3>1
      <4>2. worker'[w].at = worker[w].at
        <5>1. PICK z \in Coroutine :
                worker' = [worker EXCEPT ![w] = z] /\ z.at = worker[w].at
          BY <4>1, EnteredIs
        <5> QED
          BY <1>0, <5>1
      <4>3. InFlight(events[k]) < Slots[k]
        BY <2>4, <3>1, <4>1, <4>2 DEF Enter, Admits
      <4> QED
        BY <4>3, FlightCounted
    <3>2. CASE v # w
      BY <2>2, <2>4, <3>2 DEF Fits
    <3> QED
      BY <3>1, <3>2
  <2> QED
    BY <2>3, <2>4 DEF Fits
<1>2. ASSUME NEW w \in Workers, Leave(w) PROVE Fits'
  <2> DEFINE x == worker[w]
  <2>1. /\ x \in Coroutine /\ StageOK(x) /\ x.pc \in {"reserving", "settling"}
        /\ \A l \in Controllers \ {x.at} : events'[l] = events[l]
        /\ \A d \in Calls \ {x.call} : events'[x.at][d] = events[x.at][d]
        /\ x.call \in Calls /\ x.at \in Controllers
    BY <1>2, LeaveWrites
  <2>2. x.pc = "settling" =>
          events'[x.at][x.call] = NoEvent \/ events'[x.at][x.call].status # "reserved"
    BY <1>2, <2>1, LeaveWrites, EventKinds DEF StageOK
  <2>3. /\ worker'[w] = NextStage(x) /\ \A v \in Workers \ {w} : worker'[v] = worker[v]
        /\ age' = age
    BY <1>0, <1>2 DEF Leave
  <2>4. NextStage(x).pc # "reserving"
    BY <2>1, NextIsStage, QuotaAssumption, IdleStage
  <2>5. \A k \in Controllers \ {x.at} : Kept(k)
    BY <2>1, <2>3 DEF Flight
  <2>6. ASSUME NEW v \in Workers, NEW k \in Controllers,
               worker'[v].pc = "reserving", worker'[v].at = k
        PROVE  k # x.at /\ Cardinality(Flight(k)) < Slots[k]
    <3>1. v # w /\ worker'[v] = worker[v]
      BY <2>3, <2>4, <2>6
    <3>2. InSection(v, k) /\ InSection(w, x.at)
      BY <2>1, <2>6, <3>1 DEF InSection
    <3>3. k # x.at
      BY <2>1, <3>1, <3>2 DEF Locked
    <3> QED
      BY <2>6, <3>1, <3>3 DEF Fits
  <2>7. ASSUME NEW k \in Controllers, k = x.at PROVE Cardinality(Flight(k)') <= Slots[k]
    <3>1. CASE x.pc = "reserving"
      <4>1. /\ Cardinality(Flight(k)) < Slots[k]
            /\ Cardinality(Flight(k)) \in Nat /\ Slots[k] \in Nat
            /\ IsFiniteSet(Flight(k))
        BY <2>7, <3>1, FlightCounted DEF Fits
      <4>2. PICK T : T = Flight(k) \cup {x.call}
        OBVIOUS
      <4>3. IsFiniteSet(T) /\ Cardinality(T) \in Nat
        BY <4>1, <4>2, FS_AddElement, FS_CardinalityType
      <4>4. Cardinality(T) <= Slots[k]
        <5>1. Cardinality(T) <= Cardinality(Flight(k)) + 1
          <6>1. Cardinality(T) = IF x.call \in Flight(k) THEN Cardinality(Flight(k))
                                 ELSE Cardinality(Flight(k)) + 1
            BY <4>1, <4>2, FS_AddElement
          <6> QED
            BY <4>1, <6>1
        <5> QED
          BY <4>1, <4>3, <5>1
      <4>5. Flight(k)' \in SUBSET T
        BY <2>1, <2>3, <2>7, <4>2 DEF Flight
      <4>6. PICK S : S = Flight(k)'
        OBVIOUS
      <4>7. Cardinality(S) <= Cardinality(T) /\ Cardinality(S) \in Nat
        BY <4>3, <4>5, <4>6, FS_Subset, FS_CardinalityType
      <4> QED
        BY <4>1, <4>3, <4>4, <4>6, <4>7
    <3>2. CASE x.pc = "settling"
      <4>1. Kept(k)
        BY <2>1, <2>2, <2>3, <2>7, <3>2 DEF Flight
      <4> QED
        BY <1>a, <4>1
    <3> QED
      BY <2>1, <3>1, <3>2
  <2>8. ASSUME NEW k \in Controllers PROVE Cardinality(Flight(k)') <= Slots[k]
    <3>1. CASE k = x.at
      BY <2>7, <3>1
    <3>2. CASE k # x.at
      BY <1>a, <2>5, <3>2
    <3> QED
      BY <3>1, <3>2
  <2>9. ASSUME NEW v \in Workers, NEW k \in Controllers,
               worker'[v].pc = "reserving", worker'[v].at = k
        PROVE  Cardinality(Flight(k)') < Slots[k]
    BY <1>a, <2>5, <2>6, <2>9
  <2> QED
    BY <2>8, <2>9 DEF Fits
<1>3. ASSUME NEW c \in Calls, Ages(c) PROVE Fits'
  <2>1. events' = events /\ worker' = worker /\ \A d \in Calls : age'[d] < 2 => age[d] < 2
    BY <1>3 DEF Ages, Types, TypeOK
  <2>2. \A k \in Controllers : Kept(k)
    BY <2>1 DEF Flight
  <2> QED
    BY <1>a, <2>1, <2>2 DEF Fits
<1>4. ASSUME UNCHANGED <<events, worker, age>> PROVE Fits'
  BY <1>4 DEF Fits, Flight
<1> QED
  BY <1>1, <1>2, <1>3, <1>4 DEF Next, vars, LockExpires, AbandonedEnds

-----------------------------------------------------------------------------
(* The theorems.                                                           *)

LEMMA Invariant == Spec => []Inv
<1>1. Init => (~overrun => Quiet)
  <2> SUFFICES ASSUME Init PROVE Quiet
    OBVIOUS
  <2>1. \A w \in Workers : worker[w] = Idle
    BY DEF Init
  <2>2. \A k \in Controllers, c \in Calls : events[k][c] = NoEvent
    BY DEF Init, Empty
  <2>3. Idle.pc = "idle" /\ Idle.call = 0
    BY IdleStage
  <2>4. Locked
    BY <2>1, <2>3 DEF Locked, InSection
  <2>5. Owned
    BY <2>2, EventKinds DEF Owned
  <2>6. Charged
    BY <2>1, <2>2, <2>3 DEF Init, Charged, Reserving
  <2>7. Fits
    <3>1. \A k \in Controllers : Flight(k) = {} /\ Cardinality(Flight(k)) = 0
      BY <2>2, FS_EmptySet DEF Flight
    <3>2. \A k \in Controllers : Slots[k] \in Nat
      BY FlightCounted
    <3> QED
      BY <2>1, <2>3, <3>1, <3>2 DEF Fits
  <2> QED
    BY <2>4, <2>5, <2>6, <2>7 DEF Quiet
<1>2. Types /\ (~overrun => Quiet) /\ [Next]_vars => (~overrun => Quiet)'
  <2> SUFFICES ASSUME Types, ~overrun => Quiet, [Next]_vars, ~overrun' PROVE Quiet'
    OBVIOUS
  <2>1. Locked /\ Owned /\ Charged /\ Fits
    BY StayQuiet DEF Quiet
  <2> QED
    BY <2>1, LockedStep, OwnedStep, ChargedStep, FitsStep DEF Quiet
<1>3. Types /\ (~overrun => Quiet) => Inv
  BY DEF Inv
<1> QED
  BY <1>1, <1>2, <1>3, TypesInvariant, PTL DEF Spec

\* A slot is held for a call under way or one that was cut off only: refusals,
\* failures and answers give back what reserve took, on both controllers.
THEOREM SlotsAreGivenBack == Spec => []SlotsAreOwned
<1>1. Inv => SlotsAreOwned
  BY DEF Inv, Quiet, Owned, SlotsAreOwned
<1> QED
  BY <1>1, Invariant, PTL

\* A request the provider works on is on the project's list and on that of a
\* credential, abandoned or not.
THEOREM RunningIsAlwaysCharged == Spec => []RunningIsCharged
<1>1. Inv => RunningIsCharged
  BY DEF Inv, Quiet, Charged, RunningIsCharged
<1> QED
  BY <1>1, Invariant, PTL

\* No controller's in-flight limit is exceeded by what the provider works on.
THEOREM RunningFitsSlots == Spec => []RunningWithinSlots
<1>1. Inv => RunningWithinSlots
  <2> SUFFICES ASSUME Inv, ~overrun, NEW k \in Controllers
               PROVE  Cardinality({c \in running : age[c] < 2 /\ AdmittedBy(c, k)}) <= Slots[k]
    BY DEF RunningWithinSlots
  <2> DEFINE S == {c \in running : age[c] < 2 /\ AdmittedBy(c, k)}
  <2>1. S \in SUBSET Flight(k)
    BY DEF Inv, Types, TypeOK, Quiet, Charged, Flight, AdmittedBy
  <2>2. Cardinality(Flight(k)) <= Slots[k]
    BY DEF Inv, Quiet, Fits
  <2> HIDE DEF S
  <2>3. /\ Cardinality(S) \in Nat /\ Cardinality(S) <= Cardinality(Flight(k))
        /\ Cardinality(Flight(k)) \in Nat /\ Slots[k] \in Nat
    BY <2>1, FewerFit, FlightCounted
  <2> QED
    BY <2>2, <2>3 DEF S
<1> QED
  BY <1>1, Invariant, PTL
=============================================================================
