---------------------------- MODULE GeminiQuota ----------------------------
(***************************************************************************)
(* Admission of provider calls (services/gemini_request_control.py, and    *)
(* its use in providers/gemini_provider.py): the contributor's composite,  *)
(* which reserves on the project's controller and then on the              *)
(* credential's, over Redis.                                               *)
(*                                                                         *)
(* A controller is one list of events, read and rewritten as a whole under *)
(* a Redis lock that expires after 15 seconds, its holder's critical       *)
(* section over or not.  Asking for the lock gives up after 15 seconds.    *)
(*                                                                         *)
(* Reservations are numbered.  Time is the age of each of them: 0 within   *)
(* the last minute, 1 older than that, 2 past the reservation TTL (which   *)
(* settings keep above a minute).  A behaviour is shorter than the day     *)
(* after which events are pruned.  Both events of a composite reservation  *)
(* have one age.  Estimates are one token.                                 *)
(***************************************************************************)
EXTENDS Naturals, FiniteSets, FiniteSetsExt

CONSTANTS Workers,      \* coroutines that call the provider, one at a time each
          Credentials,  \* contributor credentials
          Project,      \* the shared project's controller
          Rpm, Tpm, Rpd, Slots,  \* the limits of each controller
          MaxCalls,     \* bound on the calls of a behaviour
          MaxCutOff     \* bound on the calls that are cancelled or crash

Controllers == Credentials \cup {Project}
Nobody == "nobody"
Calls == 1..MaxCalls

ASSUME QuotaAssumption ==
  /\ Project \notin Credentials /\ Nobody \notin Workers
  /\ MaxCalls \in Nat /\ MaxCutOff \in Nat
  /\ \A limit \in {Rpm, Tpm, Rpd, Slots} : limit \in [Controllers -> Nat]

VARIABLES events,   \* the list of each controller: what each call left on it
          lock,     \* the holder of each controller's Redis lock
          worker,   \* the state of each coroutine
          age,      \* the age of each call
          running,  \* the calls the provider is working on
          started,  \* how many calls have been started
          cut,      \* how many calls were cancelled or crashed
          leaked,   \* calls that ended without being reconciled (history)
          overrun   \* a lock expired inside of a critical section (history)

vars == <<events, lock, worker, age, running, started, cut, leaked, overrun>>

NoEvent == [status |-> "none", tokens |-> 0]
Event(status, tokens) == [status |-> status, tokens |-> tokens]
Estimate == 1

Empty == [c \in Calls |-> NoEvent]
Idle == [pc |-> "idle", call |-> 0, cred |-> Project, at |-> Project,
         upto |-> Project, outcome |-> NoEvent, list |-> Empty]

\* The events of a list that some condition counts.
Count(list, Cond(_)) == Cardinality({c \in Calls : list[c] # NoEvent /\ Cond(c)})

\* Faulty variants: reservations are counted until they are reconciled; all
\* that is counted is what the provider has finished.
InFlightForever(list) == Count(list, LAMBDA c : list[c].status = "reserved")
FinishedOnly(list) == Count(list, LAMBDA c : list[c].status = "success")

\* _inflight_count: reservations younger than the TTL.
InFlight(list) == Count(list, LAMBDA c : list[c].status = "reserved" /\ age[c] < 2)

\* The checks of reserve, on what the last minute and this day hold.
Admits(k, list) ==
  /\ InFlight(list) < Slots[k]
  /\ Count(list, LAMBDA c : age[c] = 0) + 1 <= Rpm[k]
  /\ MapThenSumSet(LAMBDA c : list[c].tokens, {c \in Calls : age[c] = 0}) + Estimate <= Tpm[k]
  /\ Count(list, LAMBDA c : TRUE) + 1 <= Rpd[k]

\* What the holder of the lock writes: its reservation, or the outcome of it
\* when the list still has the reservation.
Written(w) ==
  LET x == worker[w] IN
  IF x.pc = "reserving" THEN [x.list EXCEPT ![x.call] = Event("reserved", Estimate)]
  ELSE IF x.list[x.call] # NoEvent THEN [x.list EXCEPT ![x.call] = x.outcome]
  ELSE x.list
-----------------------------------------------------------------------------
EventType == [status : {"none", "reserved", "success", "failure"}, tokens : Nat]

TypeOK ==
  /\ events \in [Controllers -> [Calls -> EventType]]
  /\ lock \in [Controllers -> Workers \cup {Nobody}]
  /\ worker \in [Workers ->
       [pc : {"idle", "reserve", "reserving", "calling", "settle", "settling"},
        call : 0..MaxCalls, cred : Controllers, at : Controllers,
        upto : Controllers, outcome : EventType, list : [Calls -> EventType]]]
  /\ age \in [Calls -> 0..2]
  /\ running \subseteq Calls
  /\ started \in 0..MaxCalls
  /\ cut \in 0..MaxCutOff
  /\ leaked \subseteq Calls
  /\ overrun \in BOOLEAN

Init ==
  /\ events = [k \in Controllers |-> Empty]
  /\ lock = [k \in Controllers |-> Nobody]
  /\ worker = [w \in Workers |-> Idle]
  /\ age = [c \in Calls |-> 0]
  /\ running = {}
  /\ started = 0
  /\ cut = 0
  /\ leaked = {}
  /\ overrun = FALSE

\* GeminiProvider.translate with a lease on some credential.  The calls of a
\* behaviour are those before an overrun.
StartCall(w) ==
  /\ worker[w].pc = "idle" /\ started < MaxCalls /\ ~overrun
  /\ started' = started + 1
  /\ \E k \in Credentials :
       worker' = [worker EXCEPT ![w] = [Idle EXCEPT !.pc = "reserve",
                                           !.call = started + 1, !.cred = k]]
  /\ UNCHANGED <<events, lock, age, running, cut, leaked, overrun>>

\* reserve or reconcile gets the lock and reads the list.
Enter(w) ==
  LET x == worker[w] IN
  /\ x.pc \in {"reserve", "settle"}
  /\ lock[x.at] = Nobody
  /\ x.pc = "reserve" => Admits(x.at, events[x.at])
  /\ lock' = [lock EXCEPT ![x.at] = w]
  /\ worker' = [worker EXCEPT ![w].list = events[x.at],
                  ![w].pc = IF x.pc = "reserve" THEN "reserving" ELSE "settling"]
  /\ UNCHANGED <<events, age, running, started, cut, leaked, overrun>>

Failed == Event("failure", Estimate)

\* Faulty variant: a refusal by the credential keeps the project's slot.
RefusedKeepsSlot(x) == Idle

\* A composite reservation the credential refuses is reconciled on the project.
AfterRefusal(x) ==
  IF x.at = Project THEN Idle
  ELSE [x EXCEPT !.pc = "settle", !.at = Project, !.upto = Project, !.outcome = Failed]

\* reserve finds a limit reached; it writes nothing.
Refuse(w) ==
  LET x == worker[w] IN
  /\ x.pc = "reserve" /\ lock[x.at] = Nobody
  /\ ~Admits(x.at, events[x.at])
  /\ worker' = [worker EXCEPT ![w] = AfterRefusal(x)]
  /\ UNCHANGED <<events, lock, age, running, started, cut, leaked, overrun>>

\* Faulty variant: the coroutine goes on in a stage that does not exist.
RetryStage(x) == [x EXCEPT !.pc = "retry"]

\* Faulty variant: the credential's controller is left out.
ProjectOnly(x) ==
  IF x.pc = "reserving" THEN [x EXCEPT !.pc = "calling", !.list = Empty]
  ELSE Idle

\* What follows a write: the other controller, the call, or the end.
NextStage(x) ==
  CASE x.pc = "reserving" /\ x.at = Project ->
         [x EXCEPT !.pc = "reserve", !.at = x.cred, !.list = Empty]
    [] x.pc = "reserving" /\ x.at # Project -> [x EXCEPT !.pc = "calling", !.list = Empty]
    [] x.pc = "settling" /\ x.at # x.upto ->
         [x EXCEPT !.pc = "settle", !.at = x.upto, !.list = Empty]
    [] OTHER -> Idle

\* The list is replaced in one transaction, and the lock released if it is
\* still the worker's own.
Leave(w) ==
  LET x == worker[w] IN
  /\ x.pc \in {"reserving", "settling"}
  /\ events' = [events EXCEPT ![x.at] = Written(w)]
  /\ lock' = [lock EXCEPT ![x.at] = IF @ = w THEN Nobody ELSE @]
  /\ worker' = [worker EXCEPT ![w] = NextStage(x)]
  /\ running' = IF NextStage(x).pc = "calling" THEN running \cup {x.call} ELSE running
  /\ UNCHANGED <<age, started, cut, leaked, overrun>>

\* The provider answers, with its token count or without; the project's
\* reservation is reconciled first.
Answered(w) ==
  LET x == worker[w] IN
  /\ x.pc = "calling"
  /\ \E outcome \in {Failed, Event("success", Estimate + 1)} :
       worker' = [worker EXCEPT ![w] = [x EXCEPT !.pc = "settle", !.at = Project,
                                           !.upto = x.cred, !.outcome = outcome]]
  /\ running' = running \ {x.call}
  /\ UNCHANGED <<events, lock, age, started, cut, leaked, overrun>>

\* wait_for cancels the coroutine at the chunk's deadline, or the activity is
\* cancelled: CancelledError passes every handler that reconciles, and the
\* thread goes on with the request.
Cancelled(w) ==
  /\ worker[w].pc = "calling" /\ cut < MaxCutOff
  /\ cut' = cut + 1
  /\ worker' = [worker EXCEPT ![w] = Idle]
  /\ leaked' = leaked \cup {worker[w].call}
  /\ UNCHANGED <<events, lock, age, running, started, overrun>>

\* The request of a cancelled call ends, and nobody takes the answer.
AbandonedEnds(c) ==
  /\ c \in running /\ \A w \in Workers : worker[w].call # c
  /\ running' = running \ {c}
  /\ UNCHANGED <<events, lock, worker, age, started, cut, leaked, overrun>>

\* The lock stays taken for 15 seconds: reserve raises TimeoutError, and the
\* exceptions of reconcile are suppressed.
GiveUp(w) ==
  LET x == worker[w] IN
  /\ x.pc \in {"reserve", "settle"} /\ lock[x.at] # Nobody
  /\ worker' = [worker EXCEPT ![w] = Idle]
  /\ leaked' = leaked \cup {x.call}
  /\ UNCHANGED <<events, lock, age, running, started, cut, overrun>>

\* The worker process dies; a lock it holds expires.
Crash(w) ==
  /\ worker[w].pc # "idle" /\ cut < MaxCutOff
  /\ cut' = cut + 1
  /\ worker' = [worker EXCEPT ![w] = Idle]
  /\ running' = running \ {worker[w].call}
  /\ leaked' = leaked \cup {worker[w].call}
  /\ UNCHANGED <<events, lock, age, started, overrun>>

InSection(w, k) == worker[w].pc \in {"reserving", "settling"} /\ worker[w].at = k

\* One overrun is enough: what follows it is not claimed to be exact.
LockExpires(k) ==
  /\ lock[k] # Nobody
  /\ ~(overrun /\ InSection(lock[k], k))
  /\ lock' = [lock EXCEPT ![k] = Nobody]
  /\ overrun' = (overrun \/ InSection(lock[k], k))
  /\ UNCHANGED <<events, worker, age, running, started, cut, leaked>>

\* Time passes for a call that has its timestamp, the oldest calls first.
Ages(c) ==
  /\ c <= started /\ age[c] < 2
  /\ \A d \in 1..(c - 1) : age[d] > age[c]
  /\ \A w \in Workers : worker[w].call = c => worker[w].pc # "reserve"
  /\ age' = [age EXCEPT ![c] = @ + 1]
  /\ UNCHANGED <<events, lock, worker, running, started, cut, leaked, overrun>>

Next ==
  \/ \E w \in Workers :
       \/ StartCall(w) \/ Enter(w) \/ Refuse(w) \/ Leave(w) \/ Answered(w)
       \/ Cancelled(w) \/ GiveUp(w) \/ Crash(w)
  \/ \E k \in Controllers : LockExpires(k)
  \/ \E c \in Calls : AbandonedEnds(c) \/ Ages(c)

Spec == Init /\ [][Next]_vars

\* Time passes, locks expire, and a coroutine that can go on does: one that
\* waits for a lock gets it or gives up.
Fairness ==
  /\ \A c \in Calls : WF_vars(Ages(c))
  /\ \A w \in Workers : WF_vars(Enter(w) \/ Refuse(w) \/ Leave(w) \/ GiveUp(w))
  /\ \A k \in Controllers : WF_vars(LockExpires(k))

FairSpec == Spec /\ Fairness
-----------------------------------------------------------------------------
\* The controllers a running call has been admitted by.
AdmittedBy(c, k) ==
  events[Project][c] # NoEvent /\ (k = Project \/ events[k][c] # NoEvent)

\* The in-flight limit holds for what the provider really works on, abandoned
\* requests included, until a request outlives the reservation TTL or a lock
\* expires inside of a critical section.
RunningWithinSlots ==
  ~overrun => \A k \in Controllers :
    Cardinality({c \in running : age[c] < 2 /\ AdmittedBy(c, k)}) <= Slots[k]

\* "Same-project keys do not multiply capacity": a request in progress is on
\* the project's list and on one credential's, so neither budget forgets it.
RunningIsCharged ==
  ~overrun => \A c \in running :
    /\ events[Project][c] # NoEvent
    /\ \E k \in Credentials : events[k][c] # NoEvent

\* A slot is held only for a call under way or one that was cut off: refusals
\* and answers always give it back, on both lists.
SlotsAreOwned ==
  ~overrun => \A k \in Controllers, c \in Calls :
    events[k][c].status = "reserved" =>
      c \in leaked \/ \E w \in Workers : worker[w].call = c

\* "Reservation rejection, provider outcome, cancellation, timeout, and expiry
\* reconcile both controllers": a call whose coroutine was cancelled while the
\* provider worked on it holds no slot of either.
CancelledIsReconciled ==
  \A k \in Controllers, c \in running :
    (\A w \in Workers : worker[w].call # c) => events[k][c].status # "reserved"

\* Whatever is cancelled or crashes, a controller without a free slot gets one.
SlotsReturn ==
  \A k \in Controllers : InFlight(events[k]) >= Slots[k] ~> InFlight(events[k]) < Slots[k]
=============================================================================
