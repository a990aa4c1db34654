------------------------- MODULE ProviderCredential -------------------------
(***************************************************************************)
(* The contributor credentials of one user (services/provider_credentials  *)
(* .py) under concurrent requests and translation workers.                 *)
(*                                                                         *)
(* Every request is an SQLAlchemy session of its own at READ COMMITTED: it *)
(* reads the row without a lock, decides on that snapshot, and its flush   *)
(* writes the attributes that differ from the snapshot, under a row lock   *)
(* that is kept until the commit.  A statement that waits longer for a row *)
(* lock than lock_timeout is aborted with its transaction.                 *)
(*                                                                         *)
(* The requests of the admin application share one event loop: an async    *)
(* handler keeps it from its first statement to its next await, waits for  *)
(* row locks included.  Other handlers run in threads, and so does the     *)
(* commit of every request, once the loop has dispatched it.  Workers are  *)
(* processes of their own.                                                 *)
(*                                                                         *)
(* A row keeps the key encrypted, a ciphertext no second encryption gives  *)
(* again, and beside it the key's fingerprint.  Consent, labels, counters  *)
(* and timestamps are data; the ledger only records.  Owner-managed rows   *)
(* are not modelled.                                                       *)
(***************************************************************************)
EXTENDS Naturals, FiniteSets

CONSTANTS Web,      \* requests the admin application serves at a time
          Workers,  \* translation workers that lease a credential
          Rows,     \* rows that may exist at a time
          Keys,     \* API keys the user may enter
          MaxStarts \* bound on the requests and failure reports of a behaviour

Requests == Web \cup Workers
Nobody == "nobody"
NoKey == "no key"

ASSUME ProviderCredentialAssumption ==
  /\ Web \cap Workers = {}
  /\ Nobody \notin Requests
  /\ NoKey \notin Keys
  /\ MaxStarts \in Nat

VARIABLES rows,     \* the committed rows
          lock,     \* who holds the lock of each row
          loop,     \* who keeps the event loop of the admin application
          req,      \* the state of each request and worker
          lease,    \* the row and the key each worker calls the provider with
          verdict,  \* the key of each row the provider accepted last (history)
          final,    \* the rows revoked while nothing else was under way (history)
          starts    \* how many requests and reports have started

vars == <<rows, lock, loop, req, lease, verdict, final, starts>>

AbsentRow == [status |-> "absent", active |-> FALSE, val |-> "unchecked",
              shared |-> FALSE, key |-> NoKey, print |-> NoKey]

Row == [status : {"absent", "invalid", "active", "paused", "revoked"},
        active : BOOLEAN,
        val    : {"unchecked", "valid", "failed", "revoked", "working"},
        shared : BOOLEAN,
        key    : Keys \cup {NoKey},    \* encrypted_api_key, decrypted
        print  : Keys \cup {NoKey}]    \* the key key_fingerprint is of

Exists(row) == row.status # "absent"

\* Operations of the owner and the contributor on an existing row, each with
\* the handlers that keep the event loop while they wait for the row.
Blocking == {"enable", "disable", "discard", "test_ok", "test_failed", "replace"}
Simple   == {"pause", "resume", "revoke", "share", "unshare", "enable",
             "disable", "discard", "delete"}
Ops == Simple \cup {"none", "unhealthy", "test", "test_ok", "test_failed",
                    "replace", "accepted", "refused", "superseded"}

Idle == [pc |-> "idle", op |-> "none", row |-> Nobody, snap |-> AbsentRow,
         key |-> NoKey, alone |-> FALSE]

\* Faulty variant: a revoked credential may be paused.
PausesRevoked(op, row) ==
  CASE op \in {"replace", "unhealthy"} -> row.status # "revoked"
    [] op = "resume" -> row.status # "revoked" /\ row.val = "valid"
    [] op = "share"  -> row.status = "active" /\ row.val = "valid"
    [] OTHER -> TRUE

\* What each operation refuses, by the snapshot it read.
Allowed(op, row) ==
  CASE op \in {"pause", "replace", "unhealthy"} -> row.status # "revoked"
    [] op = "resume" -> row.status # "revoked" /\ row.val = "valid"
    [] op = "share"  -> row.status = "active" /\ row.val = "valid"
    [] OTHER -> TRUE

\* Faulty variant: a status of its own for credentials the owner switched off.
DisabledStatus(row) == [row EXCEPT !.active = FALSE, !.status = "disabled"]

\* update_metadata with is_active.
Enabled(row) ==
  [row EXCEPT !.active = TRUE,
              !.status = IF @ = "paused" /\ row.val # "failed" THEN "active" ELSE @]
Disabled(row) ==
  [row EXCEPT !.active = FALSE, !.status = IF @ = "active" THEN "paused" ELSE @]

\* The row a request wants, computed from its snapshot.
Wanted(op, row, key) ==
  CASE op = "pause"   -> [row EXCEPT !.status = "paused", !.active = FALSE, !.shared = FALSE]
    [] op = "resume"  -> [row EXCEPT !.status = "active", !.active = TRUE, !.shared = TRUE]
    [] op = "revoke"  -> [row EXCEPT !.status = "revoked", !.active = FALSE,
                                     !.val = "revoked", !.shared = FALSE]
    [] op = "share"   -> [row EXCEPT !.shared = TRUE]
    [] op = "unshare" -> [row EXCEPT !.shared = FALSE]
    [] op = "enable"  -> Enabled(row)
    [] op = "disable" -> Disabled(row)
    [] op = "discard" -> [Disabled(row) EXCEPT !.val = "unchecked"]
    [] op = "test_ok"     -> [row EXCEPT !.val = "working"]
    [] op = "test_failed" -> [row EXCEPT !.val = "failed"]
    [] op = "unhealthy" -> [row EXCEPT !.status = "paused", !.active = FALSE,
                                       !.val = "failed", !.shared = FALSE]
    [] op = "replace"  -> [status |-> "invalid", active |-> FALSE, val |-> "unchecked",
                           shared |-> FALSE, key |-> key, print |-> key]
    [] op = "accepted" -> [row EXCEPT !.status = "active", !.active = TRUE,
                                      !.val = "valid", !.shared = TRUE]
    [] op = "refused"  -> [row EXCEPT !.status = "invalid", !.active = FALSE,
                                      !.val = "failed", !.shared = FALSE]
    [] op = "superseded" -> row
    [] op = "delete"  -> AbsentRow

\* Faulty variant: every attribute is written, as an UPDATE of the row read.
OverwriteAll(now, snap, wanted) == wanted

\* The UPDATE of a flush: attributes the session did not change keep what the
\* row holds by then.
Flushed(now, snap, wanted) ==
  LET Column(n, old, new) == IF new # old THEN new ELSE n
  IN  [status |-> Column(now.status, snap.status, wanted.status),
       active |-> Column(now.active, snap.active, wanted.active),
       val    |-> Column(now.val, snap.val, wanted.val),
       shared |-> Column(now.shared, snap.shared, wanted.shared),
       key    |-> Column(now.key, snap.key, wanted.key),
       print  |-> Column(now.print, snap.print, wanted.print)]

\* The row as the flush of a replacement leaves it: the ciphertext is always
\* new, the other attributes only where the snapshot had another value.
Draft(q) ==
  [Flushed(rows[q.row], q.snap, Wanted("replace", q.snap, q.key)) EXCEPT !.key = q.key]

\* The row a commit leaves.  A verdict is written on the draft, which the
\* refresh before it has read and the session's row lock has kept.
Committed(q) ==
  IF q.op = "delete" THEN AbsentRow
  ELSE IF q.op \in {"accepted", "refused", "superseded"}
       THEN Wanted(q.op, Draft(q), q.key)
  ELSE Flushed(rows[q.row], q.snap, Wanted(q.op, q.snap, q.key))

\* The WHERE clause of acquire_runtime_lease.
Leasable(row) ==
  row.status = "active" /\ row.active /\ row.val = "valid" /\ row.shared
-----------------------------------------------------------------------------
TypeOK ==
  /\ rows \in [Rows -> Row]
  /\ lock \in [Rows -> Requests \cup {Nobody}]
  /\ loop \in Web \cup {Nobody}
  /\ req \in [Requests ->
       [pc : {"idle", "read", "testing", "validating", "flushed", "committing"}, op : Ops,
        row : Rows \cup {Nobody}, snap : Row, key : Keys \cup {NoKey}, alone : BOOLEAN]]
  /\ lease \in [Workers -> [row : Rows \cup {Nobody}, key : Keys \cup {NoKey}]]
  /\ verdict \in [Rows -> Keys \cup {NoKey}]
  /\ final \subseteq Rows
  /\ starts \in 0..MaxStarts

NoLease == [row |-> Nobody, key |-> NoKey]

Init ==
  /\ rows = [i \in Rows |-> AbsentRow]
  /\ lock = [i \in Rows |-> Nobody]
  /\ loop = Nobody
  /\ req = [r \in Requests |-> Idle]
  /\ lease = [w \in Workers |-> NoLease]
  /\ verdict = [i \in Rows |-> NoKey]
  /\ final = {}
  /\ starts = 0

\* A request starts: nothing else is alone any more, and it is if all is idle.
Start(r, pc, op, i, key) ==
  /\ req[r].pc = "idle" /\ starts < MaxStarts
  /\ req' = [q \in Requests |->
       IF q = r THEN [pc |-> pc, op |-> op, row |-> i, snap |-> rows[i], key |-> key,
                      alone |-> \A p \in Requests : req[p].pc = "idle"]
                ELSE [req[q] EXCEPT !.alone = FALSE]]
  /\ starts' = starts + 1

\* A request on one row reads it, and answers 404 or 409 without a change when
\* there is none or the snapshot does not allow the operation.
Read(r, i) ==
  \E op \in Simple :
    /\ op \in Blocking => loop = Nobody
    /\ Exists(rows[i]) /\ Allowed(op, rows[i])
    /\ Start(r, "read", op, i, NoKey)
    /\ loop' = IF op \in Blocking THEN r ELSE loop
    /\ UNCHANGED <<rows, lock, lease, verdict, final>>

\* The owner's test of a stored key reads the row and awaits the provider.
Test(r, i) ==
  /\ loop = Nobody /\ Exists(rows[i])
  /\ Start(r, "testing", "test", i, NoKey)
  /\ UNCHANGED <<rows, lock, loop, lease, verdict, final>>

\* The provider answers; the row is not read again.
Tested(r) ==
  /\ req[r].pc = "testing" /\ loop = Nobody
  /\ \E op \in {"test_ok", "test_failed"} :
       req' = [req EXCEPT ![r].pc = "read", ![r].op = op]
  /\ loop' = r
  /\ UNCHANGED <<rows, lock, lease, verdict, final, starts>>

\* A row id no row has and no request is about to insert.
Fresh(i) == ~Exists(rows[i]) /\ \A q \in Requests : req[q].row # i

\* replace_unvalidated: the user's row, or a new one when there is none.
Replace(r, i, key) ==
  /\ loop = Nobody
  /\ IF \E j \in Rows : Exists(rows[j])
     THEN Exists(rows[i]) /\ Allowed("replace", rows[i])
     ELSE Fresh(i)
  /\ Start(r, "read", "replace", i, key)
  /\ loop' = r
  /\ UNCHANGED <<rows, lock, lease, verdict, final>>

Released(r) == IF loop = r THEN Nobody ELSE loop

\* What follows the flush: the provider's verdict, the commit of a worker's own
\* session, or the end of the handler.
AfterFlush(r) ==
  IF req[r].op = "replace" THEN "validating"
  ELSE IF r \in Workers THEN "committing" ELSE "flushed"

\* The flush gets the row lock, and an async handler comes to its next await.
\* A row deleted since the read makes the flush raise.
Flush(r) ==
  /\ req[r].pc = "read"
  /\ LET i == req[r].row IN
       IF Exists(req[r].snap) /\ ~Exists(rows[i])
       THEN /\ req' = [req EXCEPT ![r] = Idle]
            /\ UNCHANGED lock
       ELSE /\ lock[i] = Nobody
            /\ lock' = [lock EXCEPT ![i] = r]
            /\ req' = [req EXCEPT ![r].pc = AfterFlush(r)]
  /\ loop' = Released(r)
  /\ UNCHANGED <<rows, lease, verdict, final, starts>>

\* Faulty variant: whoever keeps the event loop waits for the row for ever.
TimesOutOffLoop(r) ==
  req[r].pc = "read" /\ loop # r /\ lock[req[r].row] \notin {Nobody, r}

Blocked(r) == req[r].pc = "read" /\ lock[req[r].row] \notin {Nobody, r}

\* lock_timeout aborts the statement and with it the request.
LockTimeout(r) ==
  /\ Blocked(r)
  /\ req' = [req EXCEPT ![r] = Idle]
  /\ loop' = Released(r)
  /\ UNCHANGED <<rows, lock, lease, verdict, final, starts>>

\* The provider's verdict on the key, unless the fingerprint of the row, read
\* again after the call, is another key's.
Verdicts(q) ==
  IF Draft(q).print = q.key THEN {"accepted", "refused"} ELSE {"superseded"}

\* validate_and_activate goes on after the provider's answer.
Validated(r) ==
  /\ req[r].pc = "validating" /\ loop = Nobody
  /\ \E op \in Verdicts(req[r]) :
       req' = [req EXCEPT ![r].pc = "flushed", ![r].op = op]
  /\ UNCHANGED <<rows, lock, loop, lease, verdict, final, starts>>

\* The handler is over, and the loop has the commit run in a thread.
Dispatch(r) ==
  /\ req[r].pc = "flushed" /\ loop = Nobody
  /\ req' = [req EXCEPT ![r].pc = "committing"]
  /\ UNCHANGED <<rows, lock, loop, lease, verdict, final, starts>>

\* The commit at the end of the request, or of a worker's own session.
Commit(r) ==
  LET q == req[r] i == req[r].row IN
  /\ q.pc = "committing"
  /\ rows' = [rows EXCEPT ![i] = Committed(q)]
  /\ lock' = [lock EXCEPT ![i] = Nobody]
  /\ req' = [req EXCEPT ![r] = Idle]
  /\ verdict' = [verdict EXCEPT ![i] = IF q.op = "accepted" THEN q.key
                                       ELSE IF q.op \in {"refused", "delete"} THEN NoKey
                                       ELSE @]
  /\ final' = IF q.op = "revoke" /\ q.alone THEN final \cup {i}
              ELSE IF q.op = "delete" THEN final \ {i} ELSE final
  /\ UNCHANGED <<loop, lease, starts>>

\* A crash, a failing statement, or the database ending a transaction that
\* idles through a slow validation: everything since the read is rolled back.
Abort(r) ==
  /\ req[r].pc # "idle"
  /\ lock' = [i \in Rows |-> IF lock[i] = r THEN Nobody ELSE lock[i]]
  /\ req' = [req EXCEPT ![r] = Idle]
  /\ loop' = Released(r)
  /\ UNCHANGED <<rows, lease, verdict, final, starts>>

\* acquire_runtime_lease: FOR UPDATE SKIP LOCKED takes an eligible row.
Lease(w, i) ==
  /\ lease[w] = NoLease /\ req[w].pc = "idle"
  /\ Leasable(rows[i]) /\ lock[i] = Nobody
  /\ lease' = [lease EXCEPT ![w] = [row |-> i, key |-> rows[i].key]]
  /\ UNCHANGED <<rows, lock, loop, req, verdict, final, starts>>

\* The provider answers, or fails in a way that does not count against the key.
CallEnds(w) ==
  /\ lease[w] # NoLease
  /\ lease' = [lease EXCEPT ![w] = NoLease]
  /\ UNCHANGED <<rows, lock, loop, req, verdict, final, starts>>

\* mark_runtime_unhealthy: the call timed out or the provider refused the key,
\* and the credential it was leased from, if it is still there, is to be paused.
CallFails(w) ==
  /\ lease[w] # NoLease
  /\ LET i == lease[w].row IN
       /\ Exists(rows[i]) /\ Allowed("unhealthy", rows[i])
       /\ Start(w, "read", "unhealthy", i, NoKey)
  /\ lease' = [lease EXCEPT ![w] = NoLease]
  /\ UNCHANGED <<rows, lock, loop, verdict, final>>

Next ==
  \/ \E r \in Web, i \in Rows :
       \/ Read(r, i) \/ Test(r, i)
       \/ \E key \in Keys : Replace(r, i, key)
  \/ \E r \in Web : Tested(r) \/ Validated(r) \/ Dispatch(r)
  \/ \E r \in Requests : Flush(r) \/ LockTimeout(r) \/ Commit(r) \/ Abort(r)
  \/ \E w \in Workers, i \in Rows : Lease(w, i)
  \/ \E w \in Workers : CallEnds(w) \/ CallFails(w)

Spec == Init /\ [][Next]_vars

\* A statement gets its row or times out, the provider's calls have deadlines,
\* and the event loop and the database serve everyone who keeps waiting.
Fairness ==
  \A r \in Requests :
    /\ WF_vars(Flush(r) \/ LockTimeout(r))
    /\ WF_vars(Commit(r))
    /\ SF_vars(Tested(r) \/ Validated(r) \/ Dispatch(r))

FairSpec == Spec /\ Fairness
-----------------------------------------------------------------------------
\* Whatever is read before and written after a replacement of the key, the pool
\* hands out a key only if the provider's last verdict on that row accepted it.
OnlyAcceptedIsLeased ==
  \A i \in Rows : Leasable(rows[i]) => verdict[i] = rows[i].key

\* It does as long as the fingerprint of the row is that of its key.
LeasableIsAccepted ==
  \A i \in Rows :
    Leasable(rows[i]) /\ rows[i].print = rows[i].key => verdict[i] = rows[i].key

\* "Revoked credentials cannot be resumed": a revocation that overlaps no other
\* request is final, whatever operations follow, until the row is deleted.
RevocationIsFinal == \A i \in final : rows[i].status = "revoked"

\* What the messages of pause, resume and replace_unvalidated promise of every
\* revocation: a revoked row is only ever deleted.
RevokedStaysRevoked ==
  [][\A i \in Rows : rows[i].status = "revoked"
                       => rows'[i].status \in {"revoked", "absent"}]_vars

\* Every request ends, although one that waits for a row keeps the event loop
\* the holder of the row needs for its commit.
EveryRequestEnds == \A r \in Requests : req[r].pc # "idle" ~> req[r].pc = "idle"
=============================================================================
