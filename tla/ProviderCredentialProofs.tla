---------------------- MODULE ProviderCredentialProofs ----------------------
(***************************************************************************)
(* For any number of requests, workers, rows and keys: the type invariant  *)
(* of ProviderCredential, that the pool hands out accepted keys only, and  *)
(* that a revocation nothing overlaps is final.                            *)
(***************************************************************************)
EXTENDS ProviderCredential, TLAPS

Request ==
  [pc : {"idle", "read", "testing", "validating", "flushed", "committing"}, op : Ops,
   row : Rows \cup {Nobody}, snap : Row, key : Keys \cup {NoKey}, alone : BOOLEAN]

\* Operations whose commit writes what differs from a snapshot.
Changes == Simple \cup {"test_ok", "test_failed", "unhealthy"}

\* What validation makes of a replacement.
Judged == {"accepted", "refused", "superseded"}

\* What an operation of each stage is, and that a request under way has a row.
StageOK(q) ==
  /\ q.pc # "idle" => q.row \in Rows
  /\ q.pc = "idle" => q.row = Nobody /\ ~q.alone
  /\ q.pc = "testing" => q.op = "test"
  /\ q.pc = "read" => q.op \in Changes \cup {"replace"}
  /\ q.pc = "validating" => q.op = "replace"
  /\ q.pc \in {"flushed", "committing"} => q.op \in Changes \cup Judged
  /\ q.op \in Judged \cup {"replace"} => q.key \in Keys

Types ==
  /\ TypeOK
  /\ \A r \in Requests : StageOK(req[r])
  /\ \A w \in Workers : lease[w] # NoLease => lease[w].row \in Rows

-----------------------------------------------------------------------------
(* The operators.                                                          *)

LEMMA AbsentIsRow == AbsentRow \in Row
BY DEF AbsentRow, Row

LEMMA IdleIsRequest == Idle \in Request /\ StageOK(Idle)
BY AbsentIsRow DEF Idle, Request, Ops, StageOK, Changes, Judged

\* Switching a credential on or off keeps its verdict, its key and a
\* revocation.
LEMMA SwitchedRow ==
  ASSUME NEW row \in Row
  PROVE  /\ Enabled(row) \in Row /\ Disabled(row) \in Row
         /\ Enabled(row).val = row.val /\ Disabled(row).val = row.val
         /\ Enabled(row).key = row.key /\ Disabled(row).key = row.key
         /\ Enabled(row).print = row.print /\ Disabled(row).print = row.print
         /\ row.status = "revoked" => /\ Enabled(row).status = "revoked"
                                      /\ Disabled(row).status = "revoked"
<1>1. /\ Enabled(row) \in Row /\ Enabled(row).val = row.val
      /\ Enabled(row).key = row.key /\ Enabled(row).print = row.print
  BY DEF Enabled, Row
<1>2. /\ Disabled(row) \in Row /\ Disabled(row).val = row.val
      /\ Disabled(row).key = row.key /\ Disabled(row).print = row.print
  BY DEF Disabled, Row
<1>3. row.status = "revoked" => Enabled(row).status = "revoked" /\ Disabled(row).status = "revoked"
  BY DEF Enabled, Disabled, Row
<1> QED
  BY <1>1, <1>2, <1>3

\* What any operation wants is a row; one that is no verdict keeps the key and
\* makes nothing valid, and few take a revoked credential up again.
LEMMA WantedRow ==
  ASSUME NEW row \in Row, NEW op \in Changes, NEW key
  PROVE  /\ Wanted(op, row, key) \in Row
         /\ op # "delete" => /\ Wanted(op, row, key).key = row.key
                             /\ Wanted(op, row, key).print = row.print
                             /\ Wanted(op, row, key).val \in {row.val} \cup
                                  {"unchecked", "failed", "revoked", "working"}
         /\ row.status = "revoked" /\ op \notin {"pause", "resume", "unhealthy", "delete"}
              => Wanted(op, row, key).status = "revoked"
         /\ op = "revoke" => Wanted(op, row, key).status = "revoked"
<1>1. CASE op \in {"pause", "resume", "revoke", "share", "unshare", "unhealthy"}
  <2>1. CASE op \in {"pause", "resume"}
    BY <2>1 DEF Wanted, Row
  <2>2. CASE op \in {"revoke", "unhealthy"}
    BY <2>2 DEF Wanted, Row
  <2>3. CASE op \in {"share", "unshare"}
    BY <2>3 DEF Wanted, Row
  <2> QED
    BY <1>1, <2>1, <2>2, <2>3
<1>2. CASE op \in {"enable", "disable"}
  BY <1>2, SwitchedRow DEF Wanted
<1>3. CASE op = "discard"
  <2>1. Wanted(op, row, key) = [Disabled(row) EXCEPT !.val = "unchecked"]
    BY <1>3 DEF Wanted
  <2>2. Disabled(row) \in Row
    BY SwitchedRow
  <2>3. /\ Wanted(op, row, key) \in Row
        /\ Wanted(op, row, key).key = Disabled(row).key
        /\ Wanted(op, row, key).print = Disabled(row).print
        /\ Wanted(op, row, key).val = "unchecked"
        /\ Wanted(op, row, key).status = Disabled(row).status
    BY <2>1, <2>2 DEF Row
  <2> QED
    BY <1>3, <2>3, SwitchedRow
<1>4. CASE op \in {"test_ok", "test_failed"}
  BY <1>4 DEF Wanted, Row
<1>5. CASE op = "delete"
  BY <1>5, AbsentIsRow DEF Wanted
<1> QED
  BY <1>1, <1>2, <1>3, <1>4, <1>5 DEF Changes, Simple

LEMMA FlushedRow ==
  ASSUME NEW now \in Row, NEW snap \in Row, NEW wanted \in Row
  PROVE  Flushed(now, snap, wanted) \in Row
BY DEF Flushed, Row

\* The draft of a replacement holds its key, and a verdict keeps what it is about.
LEMMA JudgedRow ==
  ASSUME NEW q \in Request, q.row \in Rows, q.key \in Keys, rows[q.row] \in Row,
         NEW op \in Judged
  PROVE  /\ Wanted(op, Draft(q), q.key) \in Row
         /\ Wanted(op, Draft(q), q.key).key = q.key
         /\ Wanted(op, Draft(q), q.key).print = Draft(q).print
<1> DEFINE wanted == Wanted("replace", q.snap, q.key)
<1>1. wanted \in Row /\ q.snap \in Row
  BY DEF Wanted, Row, Request
<1> HIDE DEF wanted
<1>2. Flushed(rows[q.row], q.snap, wanted) \in Row
  BY <1>1, FlushedRow
<1>3. Draft(q) = [Flushed(rows[q.row], q.snap, wanted) EXCEPT !.key = q.key]
  BY DEF Draft, wanted
<1>4. Draft(q) \in Row /\ Draft(q).key = q.key
  BY <1>2, <1>3 DEF Row
<1>5. CASE op \in {"accepted", "refused"}
  BY <1>4, <1>5 DEF Wanted, Row
<1>6. CASE op = "superseded"
  BY <1>4, <1>6 DEF Wanted
<1> QED
  BY <1>5, <1>6 DEF Judged

LEMMA CommittedRow ==
  ASSUME Types, NEW r \in Requests, req[r].pc = "committing"
  PROVE  Committed(req[r]) \in Row
<1> DEFINE q == req[r]
<1>1. q \in Request /\ StageOK(q) /\ q.row \in Rows /\ q.op \in Changes \cup Judged
  BY DEF Types, TypeOK, Request, StageOK
<1>2. rows[q.row] \in Row /\ q.snap \in Row
  BY <1>1 DEF Types, TypeOK, Request
<1>3. CASE q.op \in Judged
  <2>1. q.key \in Keys /\ Committed(q) = Wanted(q.op, Draft(q), q.key)
    BY <1>1, <1>3 DEF StageOK, Committed, Judged
  <2> QED
    BY <1>1, <1>2, <1>3, <2>1, JudgedRow
<1>4. CASE q.op = "delete"
  BY <1>4, AbsentIsRow DEF Committed
<1>5. CASE q.op \in Changes \ {"delete"}
  <2>1. Wanted(q.op, q.snap, q.key) \in Row
    BY <1>2, <1>5, WantedRow
  <2>2. Committed(q) = Flushed(rows[q.row], q.snap, Wanted(q.op, q.snap, q.key))
    BY <1>5 DEF Committed, Changes, Simple
  <2> QED
    BY <1>2, <2>1, <2>2, FlushedRow
<1> QED
  BY <1>1, <1>3, <1>4, <1>5
-----------------------------------------------------------------------------
(* Types.                                                                  *)

\* One step changes one request, the starting of one the others' loneliness.
LEMMA RequestStep ==
  ASSUME Types, NEW r \in Requests, NEW x \in Request, StageOK(x),
         req' = [req EXCEPT ![r] = x]
  PROVE  /\ req' \in [Requests -> Request]
         /\ \A q \in Requests : StageOK(req'[q])
BY DEF Types, TypeOK, Request

LEMMA StartTypes ==
  ASSUME Types, NEW r \in Requests, NEW pc, NEW op, NEW i \in Rows,
         NEW key \in Keys \cup {NoKey}, Start(r, pc, op, i, key),
         \/ pc = "read" /\ op \in Changes
         \/ pc = "read" /\ op = "replace" /\ key \in Keys
         \/ pc = "testing" /\ op = "test"
  PROVE  /\ req' \in [Requests -> Request]
         /\ \A q \in Requests : StageOK(req'[q])
         /\ starts' \in 0..MaxStarts
<1> DEFINE new == [pc |-> pc, op |-> op, row |-> i, snap |-> rows[i], key |-> key,
                   alone |-> \A p \in Requests : req[p].pc = "idle"]
<1>1. \A q \in Requests : req[q] \in Request
  BY DEF Types, TypeOK, Request
<1>2. rows[i] \in Row
  BY DEF Types, TypeOK
<1>3. (\A p \in Requests : req[p].pc = "idle") \in BOOLEAN
  OBVIOUS
<1>4. new \in Request
  BY <1>2, <1>3 DEF Request, Ops, Changes
<1>5. StageOK(new)
  BY DEF StageOK, Changes, Simple, Judged
<1>6. \A q \in Requests : /\ [req[q] EXCEPT !.alone = FALSE] \in Request
                          /\ StageOK([req[q] EXCEPT !.alone = FALSE])
  <2> SUFFICES ASSUME NEW q \in Requests
               PROVE  /\ [req[q] EXCEPT !.alone = FALSE] \in Request
                      /\ StageOK([req[q] EXCEPT !.alone = FALSE])
    OBVIOUS
  <2>1. req[q] \in Request /\ StageOK(req[q])
    BY <1>1 DEF Types
  <2> QED
    BY <2>1 DEF Request, StageOK
<1>7. req' = [q \in Requests |-> IF q = r THEN new ELSE [req[q] EXCEPT !.alone = FALSE]]
  BY DEF Start
<1>8. starts' \in 0..MaxStarts
  BY ProviderCredentialAssumption DEF Start, Types, TypeOK
<1> HIDE DEF new
<1>9. req' \in [Requests -> Request]
  BY <1>4, <1>6, <1>7
<1>10. \A q \in Requests : StageOK(req'[q])
  BY <1>5, <1>6, <1>7
<1> QED
  BY <1>8, <1>9, <1>10

LEMMA InitTypes == Init => Types
<1> SUFFICES ASSUME Init PROVE Types
  OBVIOUS
<1>1. TypeOK
  BY ProviderCredentialAssumption, AbsentIsRow, IdleIsRequest
  DEF Init, TypeOK, Request, NoLease, Requests
<1> QED
  BY <1>1, IdleIsRequest DEF Init, Types

LEMMA NextTypes == Types /\ [Next]_vars => Types'
<1> SUFFICES ASSUME Types, [Next]_vars PROVE Types'
  OBVIOUS
<1> DEFINE Reqs == req' \in [Requests -> Request] /\ \A q \in Requests : StageOK(req'[q])
           Rest == UNCHANGED <<rows, lock, lease, verdict, final>>
<1>0. /\ TypeOK
      /\ Web \subseteq Requests /\ Workers \subseteq Requests
      /\ \A q \in Requests : req[q] \in Request /\ StageOK(req[q])
  BY DEF Types, TypeOK, Request, Requests
<1>a. ASSUME Reqs, Rest, loop' \in Web \cup {Nobody}, starts' \in 0..MaxStarts
      PROVE  Types'
  BY <1>0, <1>a DEF Types, TypeOK, Request
<1>b. starts \in 0..MaxStarts /\ loop \in Web \cup {Nobody}
  BY <1>0 DEF TypeOK
<1>c. ASSUME NEW r PROVE Released(r) \in Web \cup {Nobody}
  BY <1>b DEF Released
<1>1. ASSUME NEW r \in Web, NEW i \in Rows, Read(r, i) PROVE Types'
  <2>1. PICK op \in Simple : Start(r, "read", op, i, NoKey) /\ Rest
                             /\ loop' = IF op \in Blocking THEN r ELSE loop
    BY <1>1 DEF Read
  <2>2. op \in Changes
    BY DEF Changes
  <2> QED
    BY <1>0, <1>a, <1>b, <2>1, <2>2, StartTypes
<1>2. ASSUME NEW r \in Web, NEW i \in Rows, Test(r, i) PROVE Types'
  <2>1. Start(r, "testing", "test", i, NoKey) /\ Rest /\ loop' = loop
    BY <1>2 DEF Test
  <2> QED
    BY <1>0, <1>a, <1>b, <2>1, StartTypes
<1>3. ASSUME NEW r \in Web, NEW i \in Rows, NEW key \in Keys, Replace(r, i, key) PROVE Types'
  <2>1. Start(r, "read", "replace", i, key) /\ Rest /\ loop' = r
    BY <1>3 DEF Replace
  <2> QED
    BY <1>0, <1>a, <1>b, <2>1, StartTypes
<1>4. ASSUME NEW r \in Web, Tested(r) PROVE Types'
  <2>1. PICK op \in {"test_ok", "test_failed"} :
          req' = [req EXCEPT ![r] = [req[r] EXCEPT !.pc = "read", !.op = op]]
    BY <1>0, <1>4 DEF Tested, TypeOK
  <2>2. req[r].pc = "testing" /\ req[r] \in Request /\ StageOK(req[r])
    BY <1>0, <1>4 DEF Tested
  <2>3. /\ [req[r] EXCEPT !.pc = "read", !.op = op] \in Request
        /\ StageOK([req[r] EXCEPT !.pc = "read", !.op = op])
    BY <2>2 DEF Request, Ops, StageOK, Changes, Judged
  <2>4. Reqs
    BY <1>0, <2>1, <2>3, RequestStep
  <2> QED
    BY <1>4, <1>a, <1>b, <2>4 DEF Tested
<1>5. ASSUME NEW r \in Web, Validated(r) PROVE Types'
  <2>1. PICK op \in Judged :
          req' = [req EXCEPT ![r] = [req[r] EXCEPT !.pc = "flushed", !.op = op]]
    BY <1>0, <1>5 DEF Validated, Verdicts, Judged, TypeOK
  <2>2. req[r].pc = "validating" /\ req[r] \in Request /\ StageOK(req[r])
    BY <1>0, <1>5 DEF Validated
  <2>3. /\ [req[r] EXCEPT !.pc = "flushed", !.op = op] \in Request
        /\ StageOK([req[r] EXCEPT !.pc = "flushed", !.op = op])
    BY <2>2 DEF Request, Ops, StageOK, Changes, Judged
  <2>4. Reqs
    BY <1>0, <2>1, <2>3, RequestStep
  <2> QED
    BY <1>5, <1>a, <1>b, <2>4 DEF Validated
<1>6. ASSUME NEW r \in Requests, Flush(r) PROVE Types'
  <2> DEFINE next == AfterFlush(r)
  <2>1. /\ req[r].pc = "read" /\ req[r] \in Request /\ StageOK(req[r])
        /\ req[r].row \in Rows
    BY <1>0, <1>6 DEF Flush, StageOK
  <2>2. /\ [req[r] EXCEPT !.pc = next] \in Request
        /\ StageOK([req[r] EXCEPT !.pc = next])
    BY <2>1 DEF AfterFlush, Request, StageOK, Changes
  <2>3. \/ req' = [req EXCEPT ![r] = Idle]
        \/ req' = [req EXCEPT ![r] = [req[r] EXCEPT !.pc = next]]
    BY <1>0, <1>6 DEF Flush, TypeOK
  <2>4. Reqs
    BY <1>0, <2>2, <2>3, RequestStep, IdleIsRequest
  <2>5. lock' \in [Rows -> Requests \cup {Nobody}]
    <3>1. lock' = lock \/ lock' = [lock EXCEPT ![req[r].row] = r]
      BY <1>6 DEF Flush
    <3>2. lock \in [Rows -> Requests \cup {Nobody}]
      BY <1>0 DEF TypeOK
    <3> QED BY <3>1, <3>2
  <2>6. loop' \in Web \cup {Nobody} /\ UNCHANGED <<rows, lease, verdict, final, starts>>
    BY <1>6, <1>c DEF Flush
  <2>7. req' \in [Requests -> Request]
    BY <2>4
  <2> QED
    BY <1>0, <2>4, <2>5, <2>6, <2>7 DEF Types, TypeOK, Request
<1>7. ASSUME NEW r \in Requests, LockTimeout(r) PROVE Types'
  <2>1. Reqs
    BY <1>0, <1>7, RequestStep, IdleIsRequest DEF LockTimeout
  <2> QED
    BY <1>7, <1>a, <1>b, <1>c, <2>1 DEF LockTimeout
<1>8. ASSUME NEW r \in Requests, Commit(r) PROVE Types'
  <2>1. Reqs
    BY <1>0, <1>8, RequestStep, IdleIsRequest DEF Commit
  <2>2. req[r].pc = "committing" /\ req[r].row \in Rows /\ StageOK(req[r])
    BY <1>0, <1>8 DEF Commit, StageOK
  <2>3. rows' \in [Rows -> Row]
    BY <1>0, <1>8, <2>2, CommittedRow DEF Commit, TypeOK
  <2>4. lock' \in [Rows -> Requests \cup {Nobody}]
    BY <1>0, <1>8, <2>2 DEF Commit, TypeOK
  <2>5. verdict' \in [Rows -> Keys \cup {NoKey}]
    BY <1>0, <1>8, <2>2 DEF Commit, TypeOK, StageOK, Judged
  <2>6. final' \subseteq Rows
    BY <1>0, <1>8, <2>2 DEF Commit, TypeOK
  <2> QED
    BY <1>0, <1>8, <2>1, <2>3, <2>4, <2>5, <2>6 DEF Commit, Types, TypeOK, Request
<1>9. ASSUME NEW r \in Requests, Abort(r) PROVE Types'
  <2>1. Reqs
    BY <1>0, <1>9, RequestStep, IdleIsRequest DEF Abort
  <2>2. lock' \in [Rows -> Requests \cup {Nobody}]
    BY <1>0, <1>9 DEF Abort, TypeOK
  <2> QED
    BY <1>0, <1>9, <1>c, <2>1, <2>2 DEF Abort, Types, TypeOK, Request
<1>10. ASSUME NEW w \in Workers, NEW i \in Rows, Lease(w, i) PROVE Types'
  <2>1. rows[i] \in Row
    BY <1>0 DEF TypeOK
  <2>2. /\ lease' \in [Workers -> [row : Rows \cup {Nobody}, key : Keys \cup {NoKey}]]
        /\ \A v \in Workers : lease'[v] # NoLease => lease'[v].row \in Rows
    BY <1>0, <1>10, <2>1 DEF Lease, Types, TypeOK, Row
  <2> QED
    BY <1>0, <1>10, <2>2 DEF Lease, Types, TypeOK
<1>11. ASSUME NEW w \in Workers, CallEnds(w) PROVE Types'
  <2>1. /\ lease' \in [Workers -> [row : Rows \cup {Nobody}, key : Keys \cup {NoKey}]]
        /\ \A v \in Workers : lease'[v] # NoLease => lease'[v].row \in Rows
    BY <1>0, <1>11 DEF CallEnds, Types, TypeOK, NoLease
  <2> QED
    BY <1>0, <1>11, <2>1 DEF CallEnds, Types, TypeOK
<1>12. ASSUME NEW w \in Workers, CallFails(w) PROVE Types'
  <2>1. /\ lease' \in [Workers -> [row : Rows \cup {Nobody}, key : Keys \cup {NoKey}]]
        /\ \A v \in Workers : lease'[v] # NoLease => lease'[v].row \in Rows
    BY <1>0, <1>12 DEF CallFails, Types, TypeOK, NoLease
  <2>2. lease[w].row \in Rows /\ Start(w, "read", "unhealthy", lease[w].row, NoKey)
    BY <1>0, <1>12 DEF CallFails, Types
  <2>3. "unhealthy" \in Changes
    BY DEF Changes
  <2>4. Reqs /\ starts' \in 0..MaxStarts
    BY <1>0, <2>2, <2>3, StartTypes
  <2> QED
    BY <1>0, <1>12, <2>1, <2>4 DEF CallFails, Types, TypeOK, Request
<1>13. ASSUME NEW r \in Web, Dispatch(r) PROVE Types'
  <2> DEFINE x == [req[r] EXCEPT !.pc = "committing"]
  <2>1. req[r].pc = "flushed" /\ req[r] \in Request /\ StageOK(req[r])
    BY <1>0, <1>13 DEF Dispatch
  <2>2. x \in Request /\ StageOK(x)
    BY <2>1 DEF Request, StageOK
  <2>3. req' = [req EXCEPT ![r] = x]
    BY <1>0, <1>13 DEF Dispatch, TypeOK
  <2> HIDE DEF x
  <2>4. Reqs
    BY <1>0, <2>2, <2>3, RequestStep
  <2> QED
    BY <1>13, <1>a, <1>b, <2>4 DEF Dispatch
<1>14. CASE UNCHANGED vars
  BY <1>0, <1>14 DEF vars, Types, TypeOK
<1> QED
  BY <1>1, <1>2, <1>3, <1>4, <1>5, <1>6, <1>7, <1>8, <1>9, <1>10, <1>11, <1>12,
     <1>13, <1>14 DEF Next

\* Rows, locks, requests and leases are of their types in every reachable state.
THEOREM TypeCorrect == Spec => []TypeOK
<1>1. Types => TypeOK
  BY DEF Types
<1> QED
  BY <1>1, InitTypes, NextTypes, PTL DEF Spec

LEMMA TypesInvariant == Spec => []Types
BY InitTypes, NextTypes, PTL DEF Spec
-----------------------------------------------------------------------------
(* Accepted keys.                                                          *)

\* Only a verdict makes a row valid, and it comes with the key it is about.  A
\* superseded replacement may leave its key on a row another request has made
\* valid, with the fingerprint of the other key.
ValidIsAccepted ==
  \A i \in Rows :
    rows[i].val = "valid" /\ rows[i].print = rows[i].key => verdict[i] = rows[i].key

\* From its flush to its commit a request holds the lock of its row.
Holding(r) == req[r].pc \in {"validating", "flushed", "committing"}
Holds(r) == Holding(r) => lock[req[r].row] = r

\* A superseded replacement has a draft with another key's fingerprint.
Superseded(r) ==
  req[r].op = "superseded" => Holding(r) /\ Draft(req[r]).print # req[r].key

Held == \A r \in Requests : Holds(r) /\ Superseded(r)

\* What one request does leaves another one's lock and draft alone.
LEMMA KeepsHeld ==
  ASSUME Held, NEW r \in Requests, Holds(r)', Superseded(r)',
         \A q \in Requests \ {r} :
           /\ req'[q].pc = req[q].pc /\ req'[q].op = req[q].op
           /\ req'[q].row = req[q].row /\ req'[q].snap = req[q].snap
           /\ req'[q].key = req[q].key
           /\ Holding(q) => /\ rows'[req[q].row] = rows[req[q].row]
                            /\ lock'[req[q].row] = lock[req[q].row]
  PROVE  Held'
<1> SUFFICES ASSUME NEW q \in Requests \ {r} PROVE (Holds(q) /\ Superseded(q))'
  BY DEF Held
<1>1. Holds(q) /\ Superseded(q)
  BY DEF Held
<1>2. Holds(q)'
  BY <1>1 DEF Holds, Holding
<1>3. ASSUME req'[q].op = "superseded" PROVE Draft(req[q])' = Draft(req[q])
  BY <1>1, <1>3 DEF Superseded, Draft
<1>4. Superseded(q)'
  BY <1>1, <1>3 DEF Superseded, Holding
<1> QED
  BY <1>2, <1>4

LEMMA StartHeld ==
  ASSUME Types, Held, NEW r \in Requests, NEW pc \in {"read", "testing"},
         NEW op, op # "superseded", NEW i \in Rows, NEW key,
         Start(r, pc, op, i, key), UNCHANGED <<rows, lock>>
  PROVE  Held'
<1>1. req' = [q \in Requests |->
         IF q = r THEN [pc |-> pc, op |-> op, row |-> i, snap |-> rows[i], key |-> key,
                        alone |-> \A p \in Requests : req[p].pc = "idle"]
                  ELSE [req[q] EXCEPT !.alone = FALSE]]
  BY DEF Start
<1>2. req'[r].pc = pc /\ req'[r].op = op
  BY <1>1
<1>3. Holds(r)' /\ Superseded(r)'
  BY <1>2 DEF Holds, Holding, Superseded
<1>4. ASSUME NEW q \in Requests \ {r}
      PROVE  /\ req'[q].pc = req[q].pc /\ req'[q].op = req[q].op
             /\ req'[q].row = req[q].row /\ req'[q].snap = req[q].snap
             /\ req'[q].key = req[q].key
  <2>1. req[q] \in Request
    BY DEF Types, TypeOK, Request
  <2>2. req'[q] = [req[q] EXCEPT !.alone = FALSE]
    BY <1>1
  <2> QED
    BY <2>1, <2>2 DEF Request
<1> QED
  BY <1>3, <1>4, KeepsHeld

\* A request goes on, or is over, while the rows and the locks others hold stay.
LEMMA StepHeld ==
  ASSUME Types, Held, NEW r \in Requests, NEW x, req' = [req EXCEPT ![r] = x],
         Holds(r)', Superseded(r)',
         \A i \in Rows : lock[i] \notin {r, Nobody} =>
           rows'[i] = rows[i] /\ lock'[i] = lock[i]
  PROVE  Held'
<1>1. \A q \in Requests \ {r} : req'[q] = req[q]
  BY DEF Types, TypeOK
<1>2. ASSUME NEW q \in Requests \ {r}, Holding(q)
      PROVE  rows'[req[q].row] = rows[req[q].row] /\ lock'[req[q].row] = lock[req[q].row]
  <2>1. lock[req[q].row] = q /\ req[q].row \in Rows
    BY <1>2 DEF Held, Holds, Holding, Types, StageOK
  <2> QED
    BY <2>1, ProviderCredentialAssumption
<1> QED
  BY <1>1, <1>2, KeepsHeld

LEMMA IdleHeld ==
  ASSUME Types, NEW r \in Requests, req' = [req EXCEPT ![r] = Idle]
  PROVE  Holds(r)' /\ Superseded(r)'
<1>1. req'[r] = Idle
  BY DEF Types, TypeOK
<1> QED
  BY <1>1 DEF Idle, Holds, Holding, Superseded

LEMMA InitHeld == Init => Held
BY DEF Init, Held, Holds, Holding, Superseded, Idle

LEMMA NextHeld == Types /\ Held /\ [Next]_vars => Held'
<1> SUFFICES ASSUME Types, Held, [Next]_vars PROVE Held'
  OBVIOUS
<1>0. /\ Web \subseteq Requests /\ Workers \subseteq Requests
      /\ req \in [Requests -> Request] /\ lock \in [Rows -> Requests \cup {Nobody}]
      /\ \A r \in Requests : StageOK(req[r]) /\ Holds(r) /\ Superseded(r)
  BY DEF Requests, Types, TypeOK, Request, Held
<1>1. ASSUME NEW r \in Web, NEW i \in Rows,
             Read(r, i) \/ Test(r, i) \/ \E key \in Keys : Replace(r, i, key)
      PROVE  Held'
  <2>1. PICK pc \in {"read", "testing"}, op \in Simple \cup {"test", "replace"},
             key \in Keys \cup {NoKey} : Start(r, pc, op, i, key) /\ UNCHANGED <<rows, lock>>
    <3>1. CASE Read(r, i)
      BY <3>1 DEF Read
    <3>2. CASE Test(r, i)
      BY <3>2 DEF Test
    <3>3. CASE \E key \in Keys : Replace(r, i, key)
      BY <3>3 DEF Replace
    <3> QED
      BY <1>1, <3>1, <3>2, <3>3
  <2>2. op # "superseded"
    BY DEF Simple
  <2> QED
    BY <1>0, <2>1, <2>2, StartHeld
<1>2. ASSUME NEW w \in Workers, CallFails(w) PROVE Held'
  <2>1. /\ lease[w].row \in Rows /\ UNCHANGED <<rows, lock>>
        /\ Start(w, "read", "unhealthy", lease[w].row, NoKey)
    BY <1>2 DEF CallFails, Types
  <2> QED
    BY <1>0, <2>1, StartHeld
<1>3. ASSUME NEW r \in Web, Tested(r) PROVE Held'
  <2>1. PICK op \in {"test_ok", "test_failed"} :
          req' = [req EXCEPT ![r] = [req[r] EXCEPT !.pc = "read", !.op = op]]
    BY <1>0, <1>3 DEF Tested
  <2>2. req'[r].pc = "read" /\ req'[r].op = op
    BY <1>0, <2>1 DEF Request
  <2>3. Holds(r)' /\ Superseded(r)'
    BY <2>2 DEF Holds, Holding, Superseded
  <2>4. UNCHANGED <<rows, lock>>
    BY <1>3 DEF Tested
  <2> QED
    BY <1>0, <2>1, <2>3, <2>4, StepHeld
<1>4. ASSUME NEW r \in Web, Validated(r) PROVE Held'
  <2>1. PICK op \in Verdicts(req[r]) :
          req' = [req EXCEPT ![r] = [req[r] EXCEPT !.pc = "flushed", !.op = op]]
    BY <1>0, <1>4 DEF Validated
  <2>2. /\ req'[r].pc = "flushed" /\ req'[r].op = op /\ req'[r].row = req[r].row
        /\ req'[r].snap = req[r].snap /\ req'[r].key = req[r].key
    BY <1>0, <2>1 DEF Request
  <2>3. UNCHANGED <<rows, lock>> /\ Holding(r)
    BY <1>4 DEF Validated, Holding
  <2>4. Holds(r)'
    BY <1>0, <2>2, <2>3 DEF Holds, Holding
  <2>5. Draft(req[r])' = Draft(req[r])
    BY <2>2, <2>3 DEF Draft
  <2>6. op = "superseded" => Draft(req[r]).print # req[r].key
    BY DEF Verdicts
  <2>7. Superseded(r)'
    BY <2>2, <2>5, <2>6 DEF Superseded, Holding
  <2> QED
    BY <1>0, <2>1, <2>3, <2>4, <2>7, StepHeld
<1>5. ASSUME NEW r \in Web, Dispatch(r) PROVE Held'
  <2>1. req' = [req EXCEPT ![r] = [req[r] EXCEPT !.pc = "committing"]]
    BY <1>0, <1>5 DEF Dispatch
  <2>2. /\ req'[r].pc = "committing" /\ req'[r].op = req[r].op /\ req'[r].row = req[r].row
        /\ req'[r].snap = req[r].snap /\ req'[r].key = req[r].key
    BY <1>0, <2>1 DEF Request
  <2>3. UNCHANGED <<rows, lock>> /\ Holding(r)
    BY <1>5 DEF Dispatch, Holding
  <2>4. Holds(r)'
    BY <1>0, <2>2, <2>3 DEF Holds, Holding
  <2>5. Draft(req[r])' = Draft(req[r])
    BY <2>2, <2>3 DEF Draft
  <2>6. Superseded(r)'
    BY <1>0, <2>2, <2>5 DEF Superseded, Holding
  <2> QED
    BY <1>0, <2>1, <2>3, <2>4, <2>6, StepHeld
<1>6. ASSUME NEW r \in Requests, Flush(r) PROVE Held'
  <2>1. req[r].pc = "read" /\ req[r].row \in Rows /\ req[r].op # "superseded" /\ rows' = rows
    BY <1>0, <1>6 DEF Flush, StageOK, Changes, Simple
  <2>2. CASE req' = [req EXCEPT ![r] = Idle] /\ lock' = lock
    BY <1>0, <2>1, <2>2, IdleHeld, StepHeld
  <2>3. CASE /\ lock[req[r].row] = Nobody /\ lock' = [lock EXCEPT ![req[r].row] = r]
             /\ req' = [req EXCEPT ![r].pc = AfterFlush(r)]
    <3>1. req' = [req EXCEPT ![r] = [req[r] EXCEPT !.pc = AfterFlush(r)]]
      BY <1>0, <2>3
    <3>2. req'[r].op = req[r].op /\ req'[r].row = req[r].row
      BY <1>0, <3>1 DEF Request
    <3>3. lock'[req[r].row] = r /\ \A i \in Rows : lock[i] # Nobody => lock'[i] = lock[i]
      BY <1>0, <2>1, <2>3
    <3>4. Holds(r)' /\ Superseded(r)'
      BY <2>1, <3>2, <3>3 DEF Holds, Superseded
    <3> QED
      BY <1>0, <2>1, <3>1, <3>3, <3>4, StepHeld
  <2> QED
    BY <1>6, <2>2, <2>3 DEF Flush
<1>7. ASSUME NEW r \in Requests, LockTimeout(r) PROVE Held'
  BY <1>0, <1>7, IdleHeld, StepHeld DEF LockTimeout
<1>8. ASSUME NEW r \in Requests, Commit(r) PROVE Held'
  <2>1. /\ req[r].row \in Rows /\ lock[req[r].row] = r
        /\ req' = [req EXCEPT ![r] = Idle]
        /\ lock' = [lock EXCEPT ![req[r].row] = Nobody]
        /\ rows' = [rows EXCEPT ![req[r].row] = Committed(req[r])]
    BY <1>0, <1>8 DEF Commit, StageOK, Holds, Holding
  <2>2. \A i \in Rows : lock[i] # r => rows'[i] = rows[i] /\ lock'[i] = lock[i]
    BY <1>0, <2>1 DEF Types, TypeOK
  <2> QED
    BY <1>0, <2>1, <2>2, IdleHeld, StepHeld
<1>9. ASSUME NEW r \in Requests, Abort(r) PROVE Held'
  <2>1. /\ req' = [req EXCEPT ![r] = Idle] /\ rows' = rows
        /\ \A i \in Rows : lock[i] # r => lock'[i] = lock[i]
    BY <1>9 DEF Abort
  <2> QED
    BY <1>0, <2>1, IdleHeld, StepHeld
<1>10. ASSUME UNCHANGED <<rows, lock, req>> PROVE Held'
  BY <1>10 DEF Held, Holds, Holding, Superseded, Draft
<1> QED
  BY <1>1, <1>2, <1>3, <1>4, <1>5, <1>6, <1>7, <1>8, <1>9, <1>10
  DEF Next, Lease, CallEnds, vars

LEMMA CommitAccepts ==
  ASSUME Types, Held, ValidIsAccepted, NEW r \in Requests, Commit(r)
  PROVE  ValidIsAccepted'
<1> DEFINE q == req[r]
           row == rows[q.row]
           new == Committed(q)
<1>1. /\ q.pc = "committing" /\ q.row \in Rows /\ row \in Row /\ q.snap \in Row
      /\ q.op \in Changes \cup Judged /\ new \in Row /\ q \in Request
      /\ q.op \in Judged => q.key \in Keys
  BY CommittedRow DEF Types, TypeOK, StageOK, Commit, Request
<1>2. /\ rows \in [Rows -> Row] /\ verdict \in [Rows -> Keys \cup {NoKey}]
      /\ rows' = [rows EXCEPT ![q.row] = new]
      /\ verdict' = [verdict EXCEPT ![q.row] =
           IF q.op = "accepted" THEN q.key
           ELSE IF q.op \in {"refused", "delete"} THEN NoKey ELSE verdict[q.row]]
  BY DEF Types, TypeOK, Commit
<1>3. new.val = "valid" /\ new.print = new.key => verdict'[q.row] = new.key
  <2>1. CASE q.op = "delete"
    BY <2>1 DEF Committed, AbsentRow
  <2>2. CASE q.op \in Judged
    <3>1. new = Wanted(q.op, Draft(q), q.key)
      BY <2>2 DEF Committed, Judged
    <3>2. new.key = q.key /\ new.print = Draft(q).print
      BY <1>1, <2>2, <3>1, JudgedRow
    <3>3. CASE q.op = "accepted"
      BY <1>1, <1>2, <3>2, <3>3
    <3>4. CASE q.op = "refused"
      <4>1. new = [Draft(q) EXCEPT !.status = "invalid", !.active = FALSE,
                                   !.val = "failed", !.shared = FALSE]
        BY <3>1, <3>4 DEF Wanted
      <4>2. "superseded" \in Judged /\ Wanted("superseded", Draft(q), q.key) = Draft(q)
        BY DEF Judged, Wanted
      <4>3. Draft(q) \in Row
        BY <1>1, <2>2, <4>2, JudgedRow
      <4>4. new.val = "failed"
        BY <4>1, <4>3 DEF Row
      <4> QED
        BY <4>4
    <3>5. CASE q.op = "superseded"
      BY <3>2, <3>5 DEF Held, Superseded
    <3> QED
      BY <2>2, <3>3, <3>4, <3>5 DEF Judged
  <2>3. CASE q.op \in Changes \ {"delete"}
    <3> DEFINE wanted == Wanted(q.op, q.snap, q.key)
    <3>1. /\ wanted.key = q.snap.key /\ wanted.print = q.snap.print
          /\ wanted.val \in {q.snap.val} \cup {"unchecked", "failed", "revoked", "working"}
      BY <1>1, <2>3, WantedRow
    <3>2. new = Flushed(row, q.snap, wanted)
      BY <2>3 DEF Committed, Changes, Simple
    <3>3. new.val = "valid" => row.val = "valid"
      BY <3>1, <3>2 DEF Flushed
    <3>4. new.key = row.key /\ new.print = row.print
      BY <3>1, <3>2 DEF Flushed
    <3>5. verdict'[q.row] = verdict[q.row]
      BY <1>1, <1>2, <2>3 DEF Changes, Simple
    <3> QED
      BY <1>1, <3>3, <3>4, <3>5 DEF ValidIsAccepted
  <2> QED
    BY <1>1, <2>1, <2>2, <2>3
<1>4. ASSUME NEW i \in Rows, i # q.row PROVE rows'[i] = rows[i] /\ verdict'[i] = verdict[i]
  BY <1>2, <1>4
<1>5. rows'[q.row] = new
  BY <1>1, <1>2
<1> HIDE DEF new
<1> QED
  BY <1>3, <1>4, <1>5 DEF ValidIsAccepted

LEMMA ValidInvariant == Spec => []ValidIsAccepted
<1>1. Init => ValidIsAccepted
  BY DEF Init, ValidIsAccepted, AbsentRow
<1>2. Types /\ Held /\ ValidIsAccepted /\ [Next]_vars => ValidIsAccepted'
  <2> SUFFICES ASSUME Types, Held, ValidIsAccepted, [Next]_vars PROVE ValidIsAccepted'
    OBVIOUS
  <2>1. ASSUME NEW r \in Requests, Commit(r) PROVE ValidIsAccepted'
    BY <2>1, CommitAccepts
  <2>2. ASSUME UNCHANGED <<rows, verdict>> PROVE ValidIsAccepted'
    BY <2>2 DEF ValidIsAccepted
  <2>3. \/ UNCHANGED <<rows, verdict>>
        \/ \E r \in Requests : Commit(r)
    BY DEF Next, Read, Test, Tested, Replace, Flush, LockTimeout, Validated, Dispatch,
           Abort, Lease, CallEnds, CallFails, vars
  <2> QED
    BY <2>1, <2>2, <2>3
<1> QED
  BY <1>1, <1>2, InitHeld, NextHeld, TypesInvariant, PTL DEF Spec

\* Whatever overlaps a replacement, a validation, a pause or a report of a
\* worker: what a worker may lease has the key the provider accepted last,
\* unless the fingerprint beside it is another key's.
THEOREM LeasableKeysAreAccepted == Spec => []LeasableIsAccepted
<1>1. ValidIsAccepted => LeasableIsAccepted
  BY DEF ValidIsAccepted, LeasableIsAccepted, Leasable
<1> QED
  BY <1>1, ValidInvariant, PTL
-----------------------------------------------------------------------------
(* Revocation.                                                             *)

\* A request on a finally revoked row has read that it is revoked, and does
\* nothing that takes it up again.
Harmless(q) ==
  q.pc # "idle" /\ q.row \in final =>
    /\ q.snap.status = "revoked"
    /\ q.op \notin {"pause", "resume", "unhealthy", "replace"} \cup Judged

\* A request that is alone has the row before it as it has read it.
Lonely(r) ==
  req[r].alone => /\ \A q \in Requests \ {r} : req[q].pc = "idle"
                  /\ req[r].snap = rows[req[r].row]

RevokedInv ==
  /\ RevocationIsFinal
  /\ \A r \in Requests : Harmless(req[r]) /\ Lonely(r)

\* A request begins: what it reads of a finally revoked row is its revocation.
LEMMA StartRevoked ==
  ASSUME Types, RevokedInv, NEW r \in Requests, NEW pc, NEW op, NEW i \in Rows,
         NEW key, Start(r, pc, op, i, key), UNCHANGED <<rows, final>>,
         rows[i].status = "revoked" =>
           op \notin {"pause", "resume", "unhealthy", "replace"} \cup Judged
  PROVE  RevokedInv'
<1>1. req' = [q \in Requests |->
         IF q = r THEN [pc |-> pc, op |-> op, row |-> i, snap |-> rows[i], key |-> key,
                        alone |-> \A p \in Requests : req[p].pc = "idle"]
                  ELSE [req[q] EXCEPT !.alone = FALSE]]
  BY DEF Start
<1>2. /\ req'[r].row = i /\ req'[r].op = op /\ req'[r].snap = rows[i]
      /\ req'[r].alone <=> \A p \in Requests : req[p].pc = "idle"
  BY <1>1
<1>3. ASSUME NEW q \in Requests, q # r
      PROVE  /\ ~req'[q].alone
             /\ req'[q].pc = req[q].pc /\ req'[q].row = req[q].row
             /\ req'[q].op = req[q].op /\ req'[q].snap = req[q].snap
  <2>1. req[q] \in Request
    BY DEF Types, TypeOK, Request
  <2>2. req'[q] = [req[q] EXCEPT !.alone = FALSE]
    BY <1>1, <1>3
  <2> QED
    BY <2>1, <2>2 DEF Request
<1>4. RevocationIsFinal'
  BY DEF RevokedInv, RevocationIsFinal
<1>5. ASSUME NEW q \in Requests PROVE Harmless(req[q])'
  <2>1. CASE q = r
    BY <1>2, <2>1 DEF Harmless, RevokedInv, RevocationIsFinal
  <2>2. CASE q # r
    BY <1>3, <2>2 DEF Harmless, RevokedInv
  <2> QED
    BY <2>1, <2>2
<1>6. ASSUME NEW q \in Requests PROVE Lonely(q)'
  <2>1. CASE q = r
    BY <1>2, <1>3, <2>1 DEF Lonely
  <2>2. CASE q # r
    BY <1>3, <2>2 DEF Lonely
  <2> QED
    BY <2>1, <2>2
<1> QED
  BY <1>4, <1>5, <1>6 DEF RevokedInv

\* A request goes on with what it has read, or is over.
LEMMA StepRevoked ==
  ASSUME Types, RevokedInv, NEW r \in Requests, NEW x,
         req' = [req EXCEPT ![r] = x], UNCHANGED <<rows, final>>,
         \/ x = Idle
         \/ /\ req[r].pc # "idle"
            /\ x.row = req[r].row /\ x.snap = req[r].snap /\ x.alone = req[r].alone
            /\ req[r].op = "replace" \/ x.op = req[r].op \/ x.op \in {"test_ok", "test_failed"}
  PROVE  RevokedInv'
<1>1. req'[r] = x /\ \A q \in Requests \ {r} : req'[q] = req[q]
  BY DEF Types, TypeOK
<1>2. RevocationIsFinal'
  BY DEF RevokedInv, RevocationIsFinal
<1>3. ASSUME NEW q \in Requests PROVE Harmless(req[q])'
  <2>1. CASE q = r
    BY <1>1, <2>1 DEF Harmless, RevokedInv, Idle, Judged
  <2>2. CASE q # r
    BY <1>1, <2>2 DEF Harmless, RevokedInv
  <2> QED
    BY <2>1, <2>2
<1>4. ASSUME NEW q \in Requests PROVE Lonely(q)'
  <2>1. CASE q = r
    <3>1. CASE x = Idle
      <4>1. req'[q] = Idle
        BY <1>1, <2>1, <3>1
      <4>2. ~Idle.alone
        BY DEF Idle
      <4> QED
        BY <4>1, <4>2 DEF Lonely
    <3>2. CASE x.row = req[r].row /\ x.snap = req[r].snap /\ x.alone = req[r].alone
      <4>1. Lonely(r) /\ rows' = rows
        BY DEF RevokedInv
      <4>2. req[r].alone = req'[q].alone
        BY <1>1, <2>1, <3>2, Zenon
      <4>3. req'[q].snap = req[r].snap /\ req'[q].row = req[r].row
        BY <1>1, <2>1, <3>2
      <4> QED
        BY <1>1, <2>1, <4>1, <4>2, <4>3 DEF Lonely
    <3> QED
      BY <3>1, <3>2
  <2>2. CASE q # r /\ req[q].alone
    <3>1. req[r].pc = "idle"
      BY <2>2 DEF RevokedInv, Lonely
    <3>2. x = Idle
      BY <3>1
    <3> QED
      BY <1>1, <2>2, <3>2 DEF Lonely, RevokedInv, Idle
  <2>3. CASE q # r /\ ~req[q].alone
    BY <1>1, <2>3 DEF Lonely
  <2> QED
    BY <2>1, <2>2, <2>3
<1> QED
  BY <1>2, <1>3, <1>4 DEF RevokedInv

\* A commit: on a finally revoked row it keeps the revocation or deletes the
\* row; a revocation becomes final only when no request is left to undo it.
LEMMA CommitRevoked ==
  ASSUME Types, RevokedInv, NEW r \in Requests, Commit(r)
  PROVE  RevokedInv'
<1> DEFINE q == req[r]
           i == q.row
           new == Committed(q)
           wanted == Wanted(q.op, q.snap, q.key)
<1>1. /\ q.pc = "committing" /\ i \in Rows /\ rows[i] \in Row /\ q.snap \in Row
      /\ q.op \in Changes \cup Judged
  BY DEF Types, TypeOK, StageOK, Commit
<1>2. /\ rows' = [rows EXCEPT ![i] = new] /\ req' = [req EXCEPT ![r] = Idle]
      /\ final' = IF q.op = "revoke" /\ q.alone THEN final \cup {i}
                  ELSE IF q.op = "delete" THEN final \ {i} ELSE final
      /\ rows \in [Rows -> Row] /\ final \subseteq Rows
  BY DEF Types, TypeOK, Commit
<1>3. /\ rows'[i] = new /\ \A j \in Rows \ {i} : rows'[j] = rows[j]
      /\ req'[r] = Idle /\ \A p \in Requests \ {r} : req'[p] = req[p]
  BY <1>1, <1>2 DEF Types, TypeOK
<1>4. ASSUME q.op \in Changes \ {"delete"} PROVE new = Flushed(rows[i], q.snap, wanted)
  BY <1>4 DEF Committed, Changes, Simple
<1>5. ASSUME i \in final, q.op # "delete" PROVE new.status = "revoked"
  <2>1. /\ q.snap.status = "revoked" /\ rows[i].status = "revoked"
        /\ q.op \in Changes \ {"pause", "resume", "unhealthy", "delete"}
    BY <1>1, <1>5 DEF RevokedInv, RevocationIsFinal, Harmless
  <2>2. wanted.status = "revoked"
    BY <1>1, <2>1, WantedRow
  <2> QED
    BY <1>4, <2>1, <2>2 DEF Flushed
<1>6. ASSUME q.op = "revoke", q.alone PROVE new.status = "revoked"
  <2>1. q.op \in Changes \ {"delete"}
    BY <1>6 DEF Changes, Simple
  <2>2. wanted.status = "revoked"
    BY <1>1, <1>6, <2>1, WantedRow
  <2>3. q.snap = rows[i]
    BY <1>6 DEF RevokedInv, Lonely
  <2> QED
    BY <1>4, <2>1, <2>2, <2>3 DEF Flushed
<1>7. RevocationIsFinal'
  <2> SUFFICES ASSUME NEW j \in final' PROVE rows'[j].status = "revoked"
    BY DEF RevocationIsFinal
  <2>1. j \in Rows
    BY <1>1, <1>2
  <2>2. CASE j # i
    BY <1>2, <1>3, <2>1, <2>2 DEF RevokedInv, RevocationIsFinal
  <2>3. CASE j = i
    <3>1. \/ q.op = "revoke" /\ q.alone
          \/ q.op # "delete" /\ i \in final
      BY <1>2, <2>3
    <3> QED
      BY <1>3, <1>5, <1>6, <2>3, <3>1
  <2> QED
    BY <2>2, <2>3
<1>8. ASSUME NEW p \in Requests PROVE Harmless(req[p])'
  <2>1. CASE p = r
    BY <1>3, <2>1 DEF Harmless, Idle
  <2>2. CASE p # r /\ q.op = "revoke" /\ q.alone
    BY <1>3, <2>2 DEF Harmless, RevokedInv, Lonely
  <2>3. CASE p # r /\ ~(q.op = "revoke" /\ q.alone)
    BY <1>2, <1>3, <2>3 DEF Harmless, RevokedInv
  <2> QED
    BY <2>1, <2>2, <2>3
<1>9. ASSUME NEW p \in Requests PROVE Lonely(p)'
  <2>1. CASE p = r
    BY <1>3, <2>1 DEF Lonely, Idle
  <2>2. CASE p # r
    <3>1. ~req[p].alone
      BY <1>1, <2>2 DEF RevokedInv, Lonely
    <3> QED
      BY <1>3, <2>2, <3>1 DEF Lonely
  <2> QED
    BY <2>1, <2>2
<1> QED
  BY <1>7, <1>8, <1>9 DEF RevokedInv

LEMMA RevokedInvariant == Spec => []RevokedInv
<1>1. Init => RevokedInv
  BY DEF Init, RevokedInv, RevocationIsFinal, Harmless, Lonely, Idle
<1>2. Types /\ RevokedInv /\ [Next]_vars => RevokedInv'
  <2> SUFFICES ASSUME Types, RevokedInv, [Next]_vars PROVE RevokedInv'
    OBVIOUS
  <2> DEFINE Same == UNCHANGED <<rows, final>>
  <2>0. /\ Web \subseteq Requests /\ Workers \subseteq Requests
        /\ req \in [Requests -> Request]
    BY DEF Requests, Types, TypeOK, Request
  <2>1. ASSUME NEW r \in Web, NEW i \in Rows, Read(r, i) PROVE RevokedInv'
    <3>1. PICK op \in Simple : Allowed(op, rows[i]) /\ Start(r, "read", op, i, NoKey) /\ Same
      BY <2>1 DEF Read
    <3>2. rows[i].status = "revoked" =>
            op \notin {"pause", "resume", "unhealthy", "replace"} \cup Judged
      BY <3>1 DEF Allowed, Simple, Judged
    <3> QED
      BY <2>0, <3>1, <3>2, StartRevoked
  <2>2. ASSUME NEW r \in Web, NEW i \in Rows, Test(r, i) PROVE RevokedInv'
    <3>1. Start(r, "testing", "test", i, NoKey) /\ Same
      BY <2>2 DEF Test
    <3> QED
      BY <2>0, <3>1, StartRevoked DEF Judged
  <2>3. ASSUME NEW r \in Web, NEW i \in Rows, NEW key \in Keys, Replace(r, i, key)
        PROVE  RevokedInv'
    <3>1. Start(r, "read", "replace", i, key) /\ Same
      BY <2>3 DEF Replace
    <3>2. rows[i].status # "revoked"
      BY <2>3 DEF Replace, Allowed, Fresh, Exists
    <3> QED
      BY <2>0, <3>1, <3>2, StartRevoked
  <2>4. ASSUME NEW r \in Web, Tested(r) PROVE RevokedInv'
    <3>1. PICK op \in {"test_ok", "test_failed"} :
            req' = [req EXCEPT ![r] = [req[r] EXCEPT !.pc = "read", !.op = op]]
      BY <2>0, <2>4 DEF Tested
    <3> DEFINE x == [req[r] EXCEPT !.pc = "read", !.op = op]
    <3>2. req[r].pc # "idle" /\ Same /\ req[r] \in Request
      BY <2>0, <2>4 DEF Tested
    <3>3. x.op = op /\ x.row = req[r].row /\ x.snap = req[r].snap
      BY <3>2 DEF Request
    <3>4. x.alone = req[r].alone
      BY <3>2, Zenon DEF Request
    <3> HIDE DEF x
    <3> QED
      BY <2>0, <3>1, <3>2, <3>3, <3>4, StepRevoked DEF x
  <2>5. ASSUME NEW r \in Web, Validated(r) PROVE RevokedInv'
    <3>1. PICK op \in Judged :
            req' = [req EXCEPT ![r] = [req[r] EXCEPT !.pc = "flushed", !.op = op]]
      BY <2>0, <2>5 DEF Validated, Verdicts, Judged
    <3> DEFINE x == [req[r] EXCEPT !.pc = "flushed", !.op = op]
    <3>2. req[r].pc # "idle" /\ Same /\ req[r] \in Request /\ req[r].op = "replace"
      BY <2>0, <2>5 DEF Validated, Types, StageOK
    <3>3. x.row = req[r].row /\ x.snap = req[r].snap
      BY <3>2 DEF Request
    <3>4. x.alone = req[r].alone
      BY <3>2, Zenon DEF Request
    <3> QED
      BY <2>0, <3>1, <3>2, <3>3, <3>4, StepRevoked
  <2>6. ASSUME NEW r \in Requests, Flush(r) PROVE RevokedInv'
    <3> DEFINE next == AfterFlush(r)
               x == [req[r] EXCEPT !.pc = next]
    <3>1. req' = [req EXCEPT ![r] = Idle] \/ req' = [req EXCEPT ![r] = x]
      BY <2>0, <2>6 DEF Flush
    <3>2. req[r].pc # "idle" /\ Same /\ req[r] \in Request
      BY <2>0, <2>6 DEF Flush
    <3>3. x.row = req[r].row /\ x.snap = req[r].snap /\ x.op = req[r].op
      BY <3>2 DEF Request
    <3>4. x.alone = req[r].alone
      BY <3>2, Zenon DEF Request
    <3> HIDE DEF x
    <3>5. CASE req' = [req EXCEPT ![r] = Idle]
      BY <3>2, <3>5, StepRevoked
    <3>6. CASE req' = [req EXCEPT ![r] = x]
      BY <3>2, <3>3, <3>4, <3>6, StepRevoked
    <3> QED
      BY <3>1, <3>5, <3>6
  <2>7. ASSUME NEW r \in Requests, LockTimeout(r) \/ Abort(r) PROVE RevokedInv'
    BY <2>7, StepRevoked DEF LockTimeout, Abort
  <2>8. ASSUME NEW r \in Requests, Commit(r) PROVE RevokedInv'
    BY <2>8, CommitRevoked
  <2>9. ASSUME NEW w \in Workers, CallFails(w) PROVE RevokedInv'
    <3>1. /\ lease[w].row \in Rows /\ rows[lease[w].row].status # "revoked" /\ Same
          /\ Start(w, "read", "unhealthy", lease[w].row, NoKey)
      BY <2>9 DEF CallFails, Allowed, Types
    <3> QED
      BY <2>0, <3>1, StartRevoked DEF Judged
  <2>10. ASSUME NEW r \in Web, Dispatch(r) PROVE RevokedInv'
    <3> DEFINE x == [req[r] EXCEPT !.pc = "committing"]
    <3>1. req' = [req EXCEPT ![r] = x]
      BY <2>0, <2>10 DEF Dispatch
    <3>2. req[r].pc # "idle" /\ Same /\ req[r] \in Request
      BY <2>0, <2>10 DEF Dispatch
    <3>3. x.row = req[r].row /\ x.snap = req[r].snap /\ x.op = req[r].op
      BY <3>2 DEF Request
    <3>4. x.alone = req[r].alone
      BY <3>2, Zenon DEF Request
    <3> HIDE DEF x
    <3> QED
      BY <2>0, <3>1, <3>2, <3>3, <3>4, StepRevoked
  <2>11. ASSUME UNCHANGED <<rows, req, final>> PROVE RevokedInv'
    BY <2>11 DEF RevokedInv, RevocationIsFinal, Harmless, Lonely
  <2> QED
    BY <2>1, <2>2, <2>3, <2>4, <2>5, <2>6, <2>7, <2>8, <2>9, <2>10, <2>11
    DEF Next, Lease, CallEnds, vars
<1> QED
  BY <1>1, <1>2, TypesInvariant, PTL DEF Spec

\* A revocation no other request overlaps is never undone, whatever requests,
\* validations and reports begin after it.
THEOREM RevocationsAreFinal == Spec => []RevocationIsFinal
<1>1. RevokedInv => RevocationIsFinal
  BY DEF RevokedInv
<1> QED
  BY <1>1, RevokedInvariant, PTL
=============================================================================
