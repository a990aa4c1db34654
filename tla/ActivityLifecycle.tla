-------------------------- MODULE ActivityLifecycle --------------------------
(***************************************************************************)
(* What the queue promises about its activities, without leases, rows or   *)
(* transactions: an activity is with one executor at a time, and only that *)
(* one or its owner brings it forward; it is taken back from an executor   *)
(* only when its time has run out; and what has ended stays so, until the  *)
(* owner asks for it again or it is discarded.                             *)
(*                                                                         *)
(* A queue that is Locked judges an activity as it is when it acts.  One   *)
(* that is not acts on what it found earlier: what it takes back was       *)
(* overdue when the executor looked, and what it discards had ended when   *)
(* it was chosen, but either may have moved on since.  Neither of them     *)
(* brings a deleted activity back.                                         *)
(***************************************************************************)
EXTENDS Naturals

CONSTANTS Activities, Executors,
          Locked    \* does nothing happen between looking and acting?

VARIABLES status,
          holder,   \* who may report on each activity: one executor, or none
          inTime,   \* the running activities whose time has not run out
          found,    \* what each executor found overdue and has not taken back
          chosen,   \* what is to be discarded
          asked     \* how many requests of the owner have been served

vars == <<status, holder, inTime, found, chosen, asked>>

Finished == {"completed", "failed", "cancelled"}
Ended == Finished \cup {"paused"}
Existing(a) == status[a] \notin {"unborn", "deleted"}

Init ==
  /\ status = [a \in Activities |-> "unborn"]
  /\ holder = [a \in Activities |-> {}]
  /\ inTime = {}
  /\ found = [w \in Executors |-> {}]
  /\ chosen = {}
  /\ asked = 0

Becomes(a, s, who) ==
  /\ status' = [status EXCEPT ![a] = s]
  /\ holder' = [holder EXCEPT ![a] = who]

Forgets(w) == found' = [found EXCEPT ![w] = {}]

Enqueue(a) ==
  /\ status[a] = "unborn"
  /\ Becomes(a, "pending", {})
  /\ UNCHANGED <<inTime, found, chosen, asked>>

Overdue == {a \in Activities : status[a] = "running" /\ a \notin inTime}

Look(w) ==
  /\ found' = [found EXCEPT ![w] = Overdue]
  /\ UNCHANGED <<status, holder, inTime, chosen, asked>>

Forget(w) == Forgets(w) /\ UNCHANGED <<status, holder, inTime, chosen, asked>>

\* What w takes back: all that is, or that it found to be, overdue.
Lost(w) == IF Locked THEN Overdue ELSE found[w]
Requeued(T) == [a \in Activities |-> IF a \in T THEN "pending" ELSE status[a]]
Released(T) == [a \in Activities |-> IF a \in T THEN {} ELSE holder[a]]

TakeBack(w) ==
  /\ \A a \in Lost(w) : Existing(a)
  /\ status' = Requeued(Lost(w))
  /\ holder' = Released(Lost(w))
  /\ inTime' = inTime \ Lost(w)
  /\ Forgets(w)
  /\ UNCHANGED <<chosen, asked>>

\* An executor that has none gets an activity, one just taken back perhaps.
Take(w, a) ==
  /\ \A b \in Activities : w \notin holder[b]
  /\ \A b \in Lost(w) : Existing(b)
  /\ Requeued(Lost(w))[a] = "pending"
  /\ status' = [Requeued(Lost(w)) EXCEPT ![a] = "running"]
  /\ holder' = [Released(Lost(w)) EXCEPT ![a] = {w}]
  /\ inTime' = (inTime \ Lost(w)) \cup {a}
  /\ Forgets(w)
  /\ UNCHANGED <<chosen, asked>>

\* What its executor does to an activity.
Start(w, a) ==
  /\ holder[a] = {w} /\ status[a] = "pending"
  /\ Becomes(a, "running", {w})
  /\ inTime' = inTime \cup {a}
  /\ UNCHANGED <<found, chosen, asked>>

Renew(w, a) ==
  /\ holder[a] = {w} /\ status[a] = "running"
  /\ inTime' = inTime \cup {a}
  /\ UNCHANGED <<status, holder, found, chosen, asked>>

Report(w, a, s) ==
  /\ holder[a] = {w} /\ s \in Ended
  /\ Becomes(a, s, {})
  /\ inTime' = inTime \ {a}
  /\ Forgets(w)
  /\ UNCHANGED <<chosen, asked>>

Vanish(w, a) ==
  /\ holder[a] = {w}
  /\ holder' = [holder EXCEPT ![a] = {}]
  /\ Forgets(w)
  /\ UNCHANGED <<status, inTime, chosen, asked>>

TimeRunsOut(a) ==
  /\ status[a] = "running"
  /\ inTime' = inTime \ {a}
  /\ UNCHANGED <<status, holder, found, chosen, asked>>

\* The owner may do anything to an activity that is there but run it; one set
\* back to pending stays with its executor until another takes it.
OwnerSets(a, s) ==
  /\ Existing(a)
  /\ \/ s \in Ended \cup {"deleted"} /\ Becomes(a, s, {})
     \/ s = "pending" /\ Becomes(a, s, holder[a])
  /\ inTime' = inTime \ {a}
  /\ asked' = asked + 1
  /\ UNCHANGED <<found, chosen>>

OwnerAsksElse == asked' = asked + 1 /\ UNCHANGED <<status, holder, inTime, found, chosen>>

Discards(D) ==
  /\ status' = [a \in Activities |-> IF a \in D THEN "deleted" ELSE status[a]]
  /\ holder' = Released(D)
  /\ inTime' = inTime \ D
  /\ UNCHANGED <<found, asked>>

\* Retention discards what has finished ...
Discard(D) ==
  /\ Locked
  /\ \A a \in D : status[a] \in Finished
  /\ Discards(D)
  /\ UNCHANGED chosen

\* ... or had finished when it was chosen.
Choose(D) ==
  /\ ~Locked
  /\ \A a \in D : status[a] \in Finished
  /\ chosen' = D
  /\ UNCHANGED <<status, holder, inTime, found, asked>>

DiscardChosen == Discards(chosen) /\ chosen' = {}

Statuses == Ended \cup {"pending", "deleted"}

Next ==
  \/ \E a \in Activities : Enqueue(a) \/ TimeRunsOut(a) \/ \E s \in Statuses : OwnerSets(a, s)
  \/ \E w \in Executors :
       \/ Look(w) \/ Forget(w) \/ TakeBack(w)
       \/ \E a \in Activities :
            \/ Take(w, a) \/ Start(w, a) \/ Renew(w, a) \/ Vanish(w, a)
            \/ \E s \in Ended : Report(w, a, s)
  \/ OwnerAsksElse
  \/ \E D \in SUBSET Activities : Choose(D) \/ Discard(D)
  \/ DiscardChosen

Spec == Init /\ [][Next]_vars
=============================================================================
