---------------------------- MODULE PublicReader ----------------------------
(***************************************************************************)
(* The public page of one chapter (api/routers/public_chapter.py) and the  *)
(* cache of public projections each process keeps                          *)
(* (services/public_projection_cache.py), while owners review a takedown   *)
(* notice, publish or unpublish the novel, or change its text.             *)
(*                                                                         *)
(* get_chapter holds the event loop of its process, so a process runs one  *)
(* at a time; the sessions of owners commit between its queries.  Owners   *)
(* are served by AdminProcess, which is a process of its own in            *)
(* deploy/compose.yml and Caddyfile, and the reader's in the combined app. *)
(***************************************************************************)
EXTENDS Naturals, FiniteSets

CONSTANTS Processes, AdminProcess, Owners,
          MaxChanges  \* bound on the operations of owners

ASSUME ReaderAssumption == AdminProcess \in Processes /\ MaxChanges \in Nat

NoText == 0
Texts == Nat \ {NoText}

VARIABLES page,    \* the committed notice, publication flag and active text
          cache,   \* the text each process has cached, or NoText
          request, \* the request each process is answering
          change,  \* the operation of each owner that is not committed
          changes

pageVars == <<page, cache, request, change, changes>>

Changes == {"approve", "reinstate", "unpublish", "publish", "text"}
NoRequest == [pc |-> "idle", text |-> NoText, barred |-> FALSE]

PageTypeOK ==
  /\ page \in [approved : BOOLEAN, published : BOOLEAN, text : Texts]
  /\ cache \in [Processes -> Texts \cup {NoText}]
  /\ request \in [Processes -> [pc : {"idle", "context", "clear", "loaded"},
                                text : Texts \cup {NoText}, barred : BOOLEAN]]
  /\ change \in [Owners -> Changes \cup {"none"}]
  /\ changes \in 0..MaxChanges

PageInit ==
  /\ page = [approved |-> FALSE, published |-> TRUE, text |-> 1]
  /\ cache = [p \in Processes |-> NoText]
  /\ request = [p \in Processes |-> NoRequest]
  /\ change = [o \in Owners |-> "none"]
  /\ changes = 0
-----------------------------------------------------------------------------
(* get_chapter.                                                            *)

\* Nothing is cached (a hit is answered at once and changes nothing), and the
\* novel is published: get_public_read_context.
Lookup(p) ==
  /\ request[p].pc = "idle" /\ cache[p] = NoText /\ page.published
  /\ request' = [request EXCEPT ![p] = [pc |-> "context", text |-> NoText,
                                        barred |-> page.approved]]
  /\ UNCHANGED <<page, cache, change, changes>>

\* Faulty variant: no request is refused.
NeverBarred == FALSE

\* has_active_takedown_for_slug.
Barred == page.approved

\* 451, or the request goes on.
CheckTakedown(p) ==
  /\ request[p].pc = "context"
  /\ request' = [request EXCEPT ![p] = IF Barred THEN NoRequest ELSE [@ EXCEPT !.pc = "clear"]]
  /\ UNCHANGED <<page, cache, change, changes>>

\* load_public_translation, whose novel is still the one of the first query.
LoadText(p) ==
  /\ request[p].pc = "clear"
  /\ request' = [request EXCEPT ![p] = [pc |-> "loaded", text |-> page.text,
                                        barred |-> @.barred]]
  /\ UNCHANGED <<page, cache, change, changes>>

\* public_projection_cache.set, and the answer.
Store(p) ==
  /\ request[p].pc = "loaded"
  /\ cache' = [cache EXCEPT ![p] = request[p].text]
  /\ request' = [request EXCEPT ![p] = NoRequest]
  /\ UNCHANGED <<page, change, changes>>

\* Faulty variant: hits renew the entry, which readers keep alive.
KeptAlive(p) == FALSE

\* PUBLIC_PROJECTION_CACHE_TTL_SECONDS after it was set.
Expired(p) == cache[p] # NoText

\* The entry expires; the least recently used one may go before.
Expire(p) ==
  /\ Expired(p)
  /\ cache' = [cache EXCEPT ![p] = NoText]
  /\ UNCHANGED <<page, request, change, changes>>
-----------------------------------------------------------------------------
(* The owners.                                                             *)

\* review, set_publication_state, the projection refresh of a new text: the
\* change is flushed, the cache of the process is cleared, then it commits.
BeginChange(o) ==
  /\ change[o] = "none" /\ changes < MaxChanges
  /\ changes' = changes + 1
  /\ change' \in {[change EXCEPT ![o] = k] : k \in Changes}
  /\ cache' = [cache EXCEPT ![AdminProcess] = NoText]
  /\ UNCHANGED <<page, request>>

\* Faulty variant: a new text leaves the row without an active one.
TextDropped(k) ==
  [approved  |-> k = "approve" \/ (page.approved /\ k # "reinstate"),
   published |-> k = "publish" \/ (page.published /\ k # "unpublish"),
   text      |-> IF k = "text" THEN NoText ELSE page.text]

\* The committed rows after an operation.
Applied(k) ==
  [approved  |-> k = "approve" \/ (page.approved /\ k # "reinstate"),
   published |-> k = "publish" \/ (page.published /\ k # "unpublish"),
   text      |-> IF k = "text" THEN page.text + 1 ELSE page.text]

\* The session commits; a request under way is barred no longer when the notice
\* is withdrawn.
CommitChange(o) ==
  /\ change[o] # "none"
  /\ page' = Applied(change[o])
  /\ request' = [p \in Processes |-> [request[p] EXCEPT !.barred = @ /\ change[o] # "reinstate"]]
  /\ change' = [change EXCEPT ![o] = "none"]
  /\ UNCHANGED <<cache, changes>>

\* The session fails and rolls back.
AbortChange(o) ==
  /\ change[o] # "none"
  /\ change' = [change EXCEPT ![o] = "none"]
  /\ UNCHANGED <<page, cache, request, changes>>

Answer(p) == CheckTakedown(p) \/ LoadText(p) \/ Store(p)

PageNext ==
  \/ \E p \in Processes : Lookup(p) \/ Answer(p) \/ Expire(p)
  \/ \E o \in Owners : BeginChange(o) \/ CommitChange(o) \/ AbortChange(o)

PageSpec == PageInit /\ [][PageNext]_pageVars

\* Requests and sessions end, and time passes.
PageFairSpec ==
  /\ PageSpec
  /\ \A p \in Processes : WF_pageVars(Answer(p)) /\ WF_pageVars(Expire(p))
  /\ \A o \in Owners : WF_pageVars(CommitChange(o) \/ AbortChange(o))
-----------------------------------------------------------------------------
\* A request that began while the notice was approved, and was not withdrawn
\* since, caches nothing: of a chapter taken down at most the answers that were
\* under way are cached once more.
TakenDownIsNotCached ==
  [][\A p \in Processes : Store(p) => ~request[p].barred]_pageVars

\* Though no invalidation reaches another process, and one may come before the
\* commit it is for, in the end each process caches nothing of a novel that is
\* taken down or unpublished, and no other text than the active one.
CacheCatchesUp ==
  <>[](\A p \in Processes :
         cache[p] # NoText => ~page.approved /\ page.published /\ cache[p] = page.text)

\* "Publication/reconciliation and approved takedown review invalidate it": no
\* process holds the chapter when the review has committed.
ReviewInvalidates ==
  [][\A o \in Owners : CommitChange(o) /\ change[o] = "approve" =>
       \A p \in Processes : cache'[p] = NoText]_pageVars
=============================================================================
