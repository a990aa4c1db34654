--------------------------- MODULE ChapterCatalog ---------------------------
(***************************************************************************)
(* The catalog rows of one novel (storage/r2_catalog.py,                   *)
(* services/catalog_service.py, r2_activation_service.py) and the sessions *)
(* that write them at the same time: translation runs that save a version, *)
(* editors that save or roll back one, crawls that activate a generation.  *)
(* They work on one chapter; of a second one, which runs translate too, it *)
(* counts only whether it is translated.                                   *)
(*                                                                         *)
(* A session works on the row objects of its identity map: what its first  *)
(* SELECT of a row returned is what it goes on with, a later SELECT (FOR   *)
(* UPDATE included) does not refresh it, and a flush writes the columns    *)
(* whose value it has changed, no others.  Autoflush is off: everything is *)
(* flushed at COMMIT, except by the two writers that flush before, and the *)
(* locks of what they flush last until they commit.  The projection        *)
(* (translated_count, translation_status) is computed by other sessions,   *)
(* which see what is committed.                                            *)
(***************************************************************************)
EXTENDS Naturals, FiniteSets

CONSTANTS Workers,   \* sessions of translation runs
          Editors,   \* sessions of the editor's requests
          Crawlers,  \* sessions of crawls
          MaxKeys,   \* bound on the objects that are stored
          MaxEvents  \* bound on the operations begun and the sessions that fail

Sessions == Workers \cup Editors \cup Crawlers
Nobody == "nobody"
None == 0            \* no storage key, no generation
Keys == 1..MaxKeys

ASSUME CatalogAssumption ==
  /\ Nobody \notin Sessions
  /\ Workers \cap Editors = {} /\ Workers \cap Crawlers = {} /\ Editors \cap Crawlers = {}
  /\ {MaxKeys, MaxEvents} \subseteq Nat /\ MaxKeys >= 2

VARIABLES novel,      \* the committed novel row
          chapter,    \* the committed chapter row
          other,      \* the committed second chapter is translated
          objects,    \* the keys of the immutable objects stored so far
          novelLock, chapterLock,   \* the sessions that hold the row locks
          tx,         \* the session of each actor
          events,
          failed,     \* a projection refresh was lost (history)
          overtaken   \* a projection was committed that was out of date (history)

rows == <<novel, chapter, other>>
locks == <<novelLock, chapterLock>>
history == <<failed, overtaken>>
vars == <<rows, objects, locks, tx, events, history>>

NovelRow == [gen : {None} \cup Keys, count : 0..2]
VersionId == ({"r2"} \X Keys) \cup ({"v"} \X (1..(MaxKeys + 1)))
ChapterRow == [raw : {None} \cup Keys, tr : {None} \cup Keys, status : {"pending", "translated"},
               versions : SUBSET [id : VersionId, key : Keys]]

NewNovel == [gen |-> None, count |-> 0]
NewChapter == [raw |-> None, tr |-> None, status |-> "pending", versions |-> {}]
Idle == [pc |-> "idle", op |-> "none", expected |-> None,
         novelRead |-> NewNovel, novelMine |-> NewNovel,
         read |-> NewChapter, mine |-> NewChapter, base |-> NewChapter]

PC == {"idle", "expecting", "editing", "loaded", "recomputed", "locked", "flushed", "refresh"}
Operations == {"none", "save", "pending", "other", "edit", "rollback", "crawl", "refresh"}

TypeOK ==
  /\ novel \in NovelRow
  /\ chapter \in ChapterRow
  /\ other \in BOOLEAN
  /\ objects \subseteq Keys
  /\ {novelLock, chapterLock} \subseteq Sessions \cup {Nobody}
  /\ tx \in [Sessions -> [pc : PC, op : Operations, expected : {None} \cup Keys,
                          novelRead : NovelRow, novelMine : NovelRow,
                          read : ChapterRow, mine : ChapterRow, base : ChapterRow]]
  /\ events \in 0..MaxEvents
  /\ {failed, overtaken} \subseteq BOOLEAN

\* A novel whose chapter has been crawled, and perhaps translated.
Init ==
  /\ \E translated \in BOOLEAN :
       /\ novel = [gen |-> 1, count |-> IF translated THEN 1 ELSE 0]
       /\ chapter = IF translated
                    THEN [raw |-> 1, tr |-> 2, status |-> "translated",
                          versions |-> {[id |-> <<"r2", 2>>, key |-> 2]}]
                    ELSE [NewChapter EXCEPT !.raw = 1]
       /\ objects = IF translated THEN {1, 2} ELSE {1}
  /\ other = FALSE
  /\ novelLock = Nobody /\ chapterLock = Nobody
  /\ tx = [s \in Sessions |-> Idle]
  /\ events = 0
  /\ failed = FALSE /\ overtaken = FALSE
-----------------------------------------------------------------------------
(* What a session does to rows.                                            *)

\* Faulty variant: every column is written back.
WriteAll(row, read, mine) == mine

\* The columns a flush writes over a row: those the session has changed.
Column(now, old, new) == IF new # old THEN new ELSE now

FlushedNovel(row, read, mine) ==
  [gen |-> Column(row.gen, read.gen, mine.gen),
   count |-> Column(row.count, read.count, mine.count)]

FlushedChapter(row, read, mine) ==
  [raw |-> Column(row.raw, read.raw, mine.raw),
   tr |-> Column(row.tr, read.tr, mine.tr),
   status |-> Column(row.status, read.status, mine.status),
   versions |-> Column(row.versions, read.versions, mine.versions)]

\* The objects of a session that selects both rows.
Loaded(op) ==
  [Idle EXCEPT !.pc = "loaded", !.op = op, !.novelRead = novel, !.novelMine = novel,
               !.read = chapter, !.mine = chapter]

AppendVersion(versions, id, key) ==
  {v \in versions : v.id # id} \cup {[id |-> id, key |-> key]}

\* The id of a manual edit is v<n>: the first n past the number of versions
\* that is not taken.
IsNext(versions, n) ==
  LET used == {v.id : v \in versions} IN
  /\ n > Cardinality(used) /\ <<"v", n>> \notin used
  /\ \A i \in (Cardinality(used) + 1) .. (n - 1) : <<"v", i>> \in used

\* Faulty variant: the status stays as it was labelled before the merge.
ActivatedAsActive(row, key) == [row EXCEPT !.tr = key, !.status = "active"]

Activated(row, key) == [row EXCEPT !.tr = key, !.status = "translated"]

NewKey(key) == key \in Keys \ objects /\ objects' = objects \cup {key}
             /\ \A k \in Keys \ objects : key <= k

Counted == events < MaxEvents /\ events' = events + 1
Begins(s) == tx[s].pc = "idle" /\ Counted
-----------------------------------------------------------------------------
\* save_translated_chapter, of a version that becomes active or of one of low
\* confidence.  The object is stored first.
Save(s) ==
  /\ s \in Workers /\ Begins(s)
  /\ \E key \in Keys, op \in {"save", "pending"} :
       /\ NewKey(key)
       /\ LET appended == [chapter EXCEPT
                !.versions = AppendVersion(@, <<"r2", key>>, key)]
          IN  tx' = [tx EXCEPT ![s] =
                [Loaded(op) EXCEPT
                   !.mine = IF op = "save" THEN Activated(appended, key) ELSE appended,
                   !.pc = IF op = "save" THEN "loaded" ELSE "recomputed"]]
  /\ UNCHANGED <<rows, locks, history>>

\* save_translated_chapter of the second chapter.
SaveOther(s) ==
  /\ s \in Workers /\ Begins(s)
  /\ ~other
  /\ tx' = [tx EXCEPT ![s] = Loaded("other")]
  /\ UNCHANGED <<rows, objects, locks, history>>

\* save_edited_translation: the session of the request reads the rows, the
\* object is stored, and the savepoint flushes the chapter.
Edit(s) ==
  /\ s \in Editors /\ Begins(s)
  /\ \E key \in Keys, n \in 1..(MaxKeys + 1) :
       /\ NewKey(key) /\ IsNext(chapter.versions, n)
       /\ tx' = [tx EXCEPT ![s] =
            [Loaded("edit") EXCEPT
               !.pc = "editing",
               !.mine = Activated([chapter EXCEPT
                 !.versions = AppendVersion(@, <<"v", n>>, key)], key)]]
  /\ UNCHANGED <<rows, locks, history>>

ChapterFree(s) == chapterLock \in {Nobody, s}
NovelFree(s) == novelLock \in {Nobody, s}

\* The flush of the rows of a session's chapter, whose lock it keeps.
FlushChapter(s, mine) ==
  /\ ChapterFree(s)
  /\ chapterLock' = s
  /\ tx' = [tx EXCEPT ![s].base = FlushedChapter(chapter, tx[s].read, mine),
                      ![s].read = mine, ![s].mine = mine, ![s].pc = "flushed"]

\* The refresh of the projection follows in the same session.
EditFlushes(s) ==
  /\ tx[s].pc = "editing"
  /\ FlushChapter(s, tx[s].mine)
  /\ UNCHANGED <<rows, objects, novelLock, events, history>>

\* activate_translated_chapter_version, in a session of its own.
Rollback(s) ==
  /\ s \in Editors /\ Begins(s)
  /\ \E v \in chapter.versions :
       tx' = [tx EXCEPT ![s] = [Loaded("rollback") EXCEPT
                !.mine = Activated(chapter, v.key), !.pc = "recomputed"]]
  /\ UNCHANGED <<rows, objects, locks, history>>

\* A crawl has fetched what it wants to; it reads the generation it expects.
Crawl(s) ==
  /\ s \in Crawlers /\ Begins(s)
  /\ tx' = [tx EXCEPT ![s] = [Idle EXCEPT !.pc = "expecting", !.op = "crawl",
                                         !.expected = novel.gen]]
  /\ UNCHANGED <<rows, objects, locks, history>>

\* get_or_create_novel and save_raw_chapter of a chapter that has changed.
CrawlLoads(s) ==
  /\ tx[s].pc = "expecting"
  /\ \/ \E key \in Keys :
          /\ NewKey(key)
          /\ tx' = [tx EXCEPT ![s] = [Loaded("crawl") EXCEPT
                      !.expected = tx[s].expected, !.mine.raw = key]]
     \/ /\ tx' = [tx EXCEPT ![s] = [Loaded("crawl") EXCEPT !.expected = tx[s].expected]]
        /\ UNCHANGED objects
  /\ UNCHANGED <<rows, locks, events, history>>

\* count_translated_chapters, in a session of its own.
TranslatedCount == (IF chapter.tr = None THEN 0 ELSE 1) + (IF other THEN 1 ELSE 0)

\* recompute_catalog_projection, from what other sessions see committed.
Recompute(s) ==
  /\ tx[s].pc = "loaded" \/ (tx[s].pc = "flushed" /\ tx[s].op = "edit")
  /\ tx' = [tx EXCEPT
       ![s].novelMine.count = TranslatedCount,
       ![s].mine.status = IF chapter.tr = None THEN "pending" ELSE "translated",
       ![s].pc = "recomputed"]
  /\ UNCHANGED <<rows, objects, locks, events, history>>

\* SELECT ... FOR UPDATE of the novel.
LockNovel(s) ==
  /\ tx[s].pc = "recomputed" /\ tx[s].op = "crawl"
  /\ NovelFree(s)
  /\ novelLock' = s
  /\ tx' = [tx EXCEPT ![s].pc = "locked"]
  /\ UNCHANGED <<rows, objects, chapterLock, events, history>>

\* The session is over, its locks are released.
Ends(s, pc) ==
  /\ tx' = [tx EXCEPT ![s] = [Idle EXCEPT !.pc = pc]]
  /\ novelLock' = IF novelLock = s THEN Nobody ELSE novelLock
  /\ chapterLock' = IF chapterLock = s THEN Nobody ELSE chapterLock

\* GenerationConflictError.
Conflict(s) ==
  /\ tx[s].pc = "locked" /\ tx[s].novelRead.gen # tx[s].expected
  /\ Ends(s, "idle")
  /\ UNCHANGED <<rows, objects, events, history>>

\* The check, the manifest, and the flush of the rows.
Activate(s) ==
  /\ tx[s].pc = "locked" /\ tx[s].novelRead.gen = tx[s].expected
  /\ \E generation \in Keys :
       /\ NewKey(generation)
       /\ LET referenced == IF tx[s].mine.tr = None THEN tx[s].mine
                            ELSE [tx[s].mine EXCEPT !.status = "translated"]
          IN  /\ ChapterFree(s)
              /\ chapterLock' = s
              /\ tx' = [tx EXCEPT
                   ![s].base = FlushedChapter(chapter, tx[s].read, referenced),
                   ![s].read = referenced, ![s].mine = referenced,
                   ![s].novelMine.gen = generation,
                   ![s].pc = "flushed"]
  /\ UNCHANGED <<rows, novelLock, events, history>>

\* Faulty variant: only crawls and rollbacks refresh the projection.
SavesUncounted(op) == IF op \in {"rollback", "crawl"} THEN "refresh" ELSE "idle"

\* What follows the commit: workers, rollbacks and crawls refresh the
\* projection in another session.
After(op) ==
  IF op \in {"save", "pending", "other", "rollback", "crawl"} THEN "refresh" ELSE "idle"

\* A session that no refresh follows writes a count that is not the count of
\* what is committed: others have committed since it was computed.
Overtakes(s) ==
  /\ tx[s].novelMine.count \notin {tx[s].novelRead.count, TranslatedCount}
  /\ After(tx[s].op) = "idle"

\* The rows the COMMIT of a session leaves.
CommittedChapter(s) ==
  FlushedChapter(IF chapterLock = s THEN tx[s].base ELSE chapter, tx[s].read, tx[s].mine)

CommittedNovel(s) == FlushedNovel(novel, tx[s].novelRead, tx[s].novelMine)

Commits(s) ==
  \/ tx[s].pc = "recomputed" /\ tx[s].op # "crawl"
  \/ tx[s].pc = "flushed" /\ tx[s].op = "crawl"

Blocked(s) ==
  \/ CommittedNovel(s) # novel /\ ~NovelFree(s)
  \/ CommittedChapter(s) # chapter /\ ~ChapterFree(s)

Commit(s) ==
  /\ Commits(s) /\ ~Blocked(s)
  /\ novel' = CommittedNovel(s)
  /\ chapter' = CommittedChapter(s)
  /\ other' = (other \/ tx[s].op = "other")
  /\ Ends(s, After(tx[s].op))
  /\ overtaken' = (overtaken \/ Overtakes(s))
  /\ UNCHANGED <<objects, events, failed>>

\* refresh_catalog_projection_for_storage_novel.
RefreshLoads(s) ==
  /\ tx[s].pc = "refresh"
  /\ tx' = [tx EXCEPT ![s] = Loaded("refresh")]
  /\ UNCHANGED <<rows, objects, locks, events, history>>

\* Faulty variant: no lock_timeout is configured.
WaitsForever(s) == FALSE

Waits(s) ==
  \/ Commits(s) /\ Blocked(s)
  \/ tx[s].pc = "editing" /\ ~ChapterFree(s)
  \/ tx[s].pc = "recomputed" /\ tx[s].op = "crawl" /\ ~NovelFree(s)
  \/ tx[s].pc = "locked" /\ ~ChapterFree(s)

\* The session fails and rolls back, or its process ends.  A refresh that
\* fails is only logged, one that is never begun is lost too.
Fails(s) ==
  /\ Ends(s, "idle")
  /\ failed' = (failed \/ tx[s].op = "refresh" \/ tx[s].pc = "refresh")
  /\ UNCHANGED <<rows, objects, overtaken>>

\* lock_timeout, or PostgreSQL has found a deadlock.
LockTimeout(s) == Waits(s) /\ Fails(s) /\ UNCHANGED events

SessionFails(s) ==
  /\ tx[s].pc # "idle"
  /\ Counted
  /\ Fails(s)

Step(s) ==
  \/ EditFlushes(s) \/ CrawlLoads(s) \/ Recompute(s) \/ LockNovel(s) \/ Conflict(s)
  \/ Activate(s) \/ Commit(s) \/ RefreshLoads(s) \/ LockTimeout(s)

Next ==
  \E s \in Sessions :
    \/ Save(s) \/ SaveOther(s) \/ Edit(s) \/ Rollback(s) \/ Crawl(s)
    \/ Step(s) \/ SessionFails(s)

Spec == Init /\ [][Next]_vars

\* Sessions go on, and the database ends the wait of a session.
FairSpec == Spec /\ \A s \in Sessions : WF_vars(Step(s))
-----------------------------------------------------------------------------
\* A crawl, whose rows are as old as its first SELECT of them, never takes
\* back a translation that was saved, edited or rolled back to since.
CrawlKeepsTranslation ==
  [][\A s \in Crawlers : Commit(s) =>
       chapter'.tr = chapter.tr /\ chapter'.versions = chapter.versions]_vars

\* Sessions that hold what others wait for do not stop the service: of finitely
\* many operations all are over in the end.
EverySessionEnds == <>[](\A s \in Sessions : tx[s].pc = "idle")

\* The text that is served is one a run has translated.
RunsText == \E v \in chapter.versions : v.id[1] = "r2" /\ v.key = chapter.tr

\* "Refresh denormalized catalog summary fields": in the end the texts that
\* runs have translated are counted, unless a refresh was lost.
EverySavedIsCounted == <>[](RunsText => novel.count = TranslatedCount \/ failed)

\* They are, whatever older counts are committed by sessions that a refresh
\* follows, unless a last writer's was out of date when it was committed.
SavedIsCounted ==
  <>[](RunsText => novel.count = TranslatedCount \/ failed \/ overtaken)

\* "Fails closed on ... a stale writer": a generation replaces the one its
\* crawl expected.
StaleWriterFails ==
  [][\A s \in Crawlers : Commit(s) /\ tx[s].op = "crawl" => novel.gen = tx[s].expected]_vars

\* No session removes a version another has recorded.
VersionsKept == [][\A v \in chapter.versions : v \in chapter'.versions]_vars
=============================================================================
