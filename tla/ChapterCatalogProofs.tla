------------------------ MODULE ChapterCatalogProofs ------------------------
(***************************************************************************)
(* For any number of sessions, keys and operations: the type invariant of  *)
(* ChapterCatalog, and that no crawl takes a translation back; and of the  *)
(* page that serves what the catalog publishes (PublicReader): its type    *)
(* invariant, and that a request that met a takedown stores nothing.       *)
(***************************************************************************)
EXTENDS ChapterCatalog, PublicReader, TLAPS

Session == [pc : PC, op : Operations, expected : {None} \cup Keys,
            novelRead : NovelRow, novelMine : NovelRow,
            read : ChapterRow, mine : ChapterRow, base : ChapterRow]

-----------------------------------------------------------------------------
(* Types.                                                                  *)

LEMMA RowTypes ==
  /\ NewNovel \in NovelRow /\ NewChapter \in ChapterRow
  /\ Idle \in Session /\ Idle.pc = "idle"
BY DEF NewNovel, NovelRow, NewChapter, ChapterRow, Idle, Session, PC, Operations

LEMMA FlushTypes ==
  /\ \A row, read, mine \in NovelRow : FlushedNovel(row, read, mine) \in NovelRow
  /\ \A row, read, mine \in ChapterRow : FlushedChapter(row, read, mine) \in ChapterRow
<1>1. \A row, read, mine \in NovelRow : FlushedNovel(row, read, mine) \in NovelRow
  BY DEF FlushedNovel, NovelRow, Column
<1>2. \A row, read, mine \in ChapterRow : FlushedChapter(row, read, mine) \in ChapterRow
  BY DEF FlushedChapter, ChapterRow, Column
<1> QED
  BY <1>1, <1>2

LEMMA AppendType ==
  ASSUME NEW row \in ChapterRow, NEW id \in VersionId, NEW key \in Keys
  PROVE  [row EXCEPT !.versions = AppendVersion(@, id, key)] \in ChapterRow
<1>1. AppendVersion(row.versions, id, key) \in SUBSET [id : VersionId, key : Keys]
  BY DEF AppendVersion, ChapterRow
<1> QED
  BY <1>1 DEF ChapterRow

LEMMA ActivatedType ==
  ASSUME NEW row \in ChapterRow, NEW key \in Keys
  PROVE  Activated(row, key) \in ChapterRow
BY DEF Activated, ChapterRow

LEMMA LoadedIs ==
  ASSUME TypeOK, NEW op \in Operations
  PROVE  /\ Loaded(op) \in Session
         /\ Loaded(op).pc = "loaded" /\ Loaded(op).op = op
         /\ Loaded(op).read = chapter /\ Loaded(op).mine = chapter
<1>1. novel \in NovelRow /\ chapter \in ChapterRow
  BY DEF TypeOK
<1> QED
  BY <1>1, RowTypes DEF Loaded, Session, PC

LEMMA SessionsTyped == TypeOK => tx \in [Sessions -> Session]
BY DEF TypeOK, Session

\* What a session is after each action that is not its end.
LEMMA SavedIs ==
  ASSUME TypeOK, NEW s \in Sessions, Save(s)
  PROVE  \E z \in Session : tx' = [tx EXCEPT ![s] = z] /\ z.pc \in {"loaded", "recomputed"}
<1>1. PICK key \in Keys, op \in {"save", "pending"} :
        LET appended == [chapter EXCEPT !.versions = AppendVersion(@, <<"r2", key>>, key)]
        IN  tx' = [tx EXCEPT ![s] =
              [Loaded(op) EXCEPT
                 !.mine = IF op = "save" THEN Activated(appended, key) ELSE appended,
                 !.pc = IF op = "save" THEN "loaded" ELSE "recomputed"]]
  BY DEF Save
<1> DEFINE appended == [chapter EXCEPT !.versions = AppendVersion(@, <<"r2", key>>, key)]
           mine == IF op = "save" THEN Activated(appended, key) ELSE appended
           pc == IF op = "save" THEN "loaded" ELSE "recomputed"
           z == [Loaded(op) EXCEPT !.mine = mine, !.pc = pc]
<1>2. <<"r2", key>> \in VersionId /\ chapter \in ChapterRow
  BY DEF VersionId, TypeOK
<1>3. appended \in ChapterRow
  BY <1>2, AppendType
<1>4. mine \in ChapterRow
  BY <1>3, ActivatedType
<1>5. Loaded(op) \in Session /\ pc \in {"loaded", "recomputed"}
  BY LoadedIs DEF Operations
<1> HIDE DEF mine, pc
<1>6. z \in Session /\ z.pc = pc
  BY <1>4, <1>5 DEF Session, PC
<1>7. tx' = [tx EXCEPT ![s] = z]
  BY <1>1 DEF mine, pc
<1> HIDE DEF z
<1> QED
  BY <1>5, <1>6, <1>7

LEMMA SavedOtherIs ==
  ASSUME TypeOK, NEW s \in Sessions, SaveOther(s)
  PROVE  \E z \in Session : tx' = [tx EXCEPT ![s] = z] /\ z.pc = "loaded"
<1>1. Loaded("other") \in Session /\ Loaded("other").pc = "loaded"
  BY LoadedIs DEF Operations
<1>2. tx' = [tx EXCEPT ![s] = Loaded("other")]
  BY DEF SaveOther
<1> QED
  BY <1>1, <1>2

LEMMA EditIs ==
  ASSUME TypeOK, NEW s \in Sessions, Edit(s)
  PROVE  \E z \in Session : tx' = [tx EXCEPT ![s] = z] /\ z.pc = "editing"
<1>1. PICK key \in Keys, n \in 1..(MaxKeys + 1) :
        tx' = [tx EXCEPT ![s] =
            [Loaded("edit") EXCEPT
               !.pc = "editing",
               !.mine = Activated([chapter EXCEPT
                 !.versions = AppendVersion(@, <<"v", n>>, key)], key)]]
  BY DEF Edit
<1> DEFINE mine == Activated([chapter EXCEPT
                     !.versions = AppendVersion(@, <<"v", n>>, key)], key)
           z == [Loaded("edit") EXCEPT !.pc = "editing", !.mine = mine]
<1>2. <<"v", n>> \in VersionId /\ chapter \in ChapterRow
  BY DEF VersionId, TypeOK
<1>3. mine \in ChapterRow
  BY <1>2, AppendType, ActivatedType
<1>4. Loaded("edit") \in Session
  BY LoadedIs DEF Operations
<1> HIDE DEF mine
<1>5. z \in Session /\ z.pc = "editing"
  BY <1>3, <1>4 DEF Session, PC
<1>6. tx' = [tx EXCEPT ![s] = z]
  BY <1>1 DEF mine
<1> HIDE DEF z
<1> QED
  BY <1>5, <1>6

LEMMA RollbackIs ==
  ASSUME TypeOK, NEW s \in Sessions, Rollback(s)
  PROVE  \E z \in Session : tx' = [tx EXCEPT ![s] = z] /\ z.pc = "recomputed"
<1>1. PICK v \in chapter.versions :
        tx' = [tx EXCEPT ![s] = [Loaded("rollback") EXCEPT
                 !.mine = Activated(chapter, v.key), !.pc = "recomputed"]]
  BY DEF Rollback
<1> DEFINE mine == Activated(chapter, v.key)
           z == [Loaded("rollback") EXCEPT !.mine = mine, !.pc = "recomputed"]
<1>2. chapter \in ChapterRow /\ v.key \in Keys
  BY DEF TypeOK, ChapterRow
<1>3. mine \in ChapterRow
  BY <1>2, ActivatedType
<1>4. Loaded("rollback") \in Session
  BY LoadedIs DEF Operations
<1> HIDE DEF mine
<1>5. z \in Session /\ z.pc = "recomputed"
  BY <1>3, <1>4 DEF Session, PC
<1>6. tx' = [tx EXCEPT ![s] = z]
  BY <1>1 DEF mine
<1> HIDE DEF z
<1> QED
  BY <1>5, <1>6

\* Rows that agree on what a reader is served.
SameText(row, that) == row.tr = that.tr /\ row.versions = that.versions

LEMMA CrawlIs ==
  ASSUME TypeOK, NEW s \in Sessions, Crawl(s) \/ CrawlLoads(s) \/ RefreshLoads(s)
  PROVE  \E z \in Session :
           /\ tx' = [tx EXCEPT ![s] = z] /\ SameText(z.mine, z.read)
           /\ objects' \subseteq Keys
<1>0. novel \in NovelRow /\ chapter \in ChapterRow /\ tx[s] \in Session /\ objects \subseteq Keys
  BY SessionsTyped DEF TypeOK, Session
<1>1. CASE Crawl(s)
  <2> DEFINE z == [Idle EXCEPT !.pc = "expecting", !.op = "crawl", !.expected = novel.gen]
  <2>1. z \in Session /\ z.mine = NewChapter /\ z.read = NewChapter
    <3>1. Idle.mine = NewChapter /\ Idle.read = NewChapter
      BY DEF Idle
    <3>2. novel.gen \in {None} \cup Keys
      BY <1>0 DEF NovelRow
    <3> QED
      BY <3>1, <3>2, RowTypes DEF Session, PC, Operations
  <2>2. tx' = [tx EXCEPT ![s] = z]
    BY <1>1 DEF Crawl
  <2> HIDE DEF z
  <2> QED
    BY <1>0, <1>1, <2>1, <2>2 DEF Crawl, SameText
<1>2. CASE CrawlLoads(s)
  <2> DEFINE expected == tx[s].expected
  <2>0. Loaded("crawl") \in Session /\ expected \in {None} \cup Keys
        /\ Loaded("crawl").read = chapter /\ Loaded("crawl").mine = chapter
    BY <1>0, LoadedIs DEF Operations, Session
  <2> HIDE DEF expected
  <2>1. ASSUME NEW key \in Keys, NewKey(key),
               tx' = [tx EXCEPT ![s] = [Loaded("crawl") EXCEPT
                        !.expected = expected, !.mine.raw = key]]
        PROVE  \E z \in Session : /\ tx' = [tx EXCEPT ![s] = z] /\ SameText(z.mine, z.read)
                                  /\ objects' \subseteq Keys
    <3> DEFINE mine == [chapter EXCEPT !.raw = key]
               z == [Loaded("crawl") EXCEPT !.expected = expected, !.mine = mine]
    <3>1. mine \in ChapterRow /\ SameText(mine, chapter)
      BY <1>0 DEF ChapterRow, SameText
    <3>2. tx' = [tx EXCEPT ![s] = z]
      BY <2>0, <2>1 DEF Session
    <3> HIDE DEF mine
    <3>3. z \in Session /\ z.mine = mine /\ z.read = chapter
      BY <2>0, <3>1 DEF Session
    <3> HIDE DEF z
    <3> QED
      BY <1>0, <2>1, <3>1, <3>2, <3>3 DEF NewKey
  <2>2. ASSUME tx' = [tx EXCEPT ![s] = [Loaded("crawl") EXCEPT !.expected = expected]],
               objects' = objects
        PROVE  \E z \in Session : /\ tx' = [tx EXCEPT ![s] = z] /\ SameText(z.mine, z.read)
                                  /\ objects' \subseteq Keys
    <3> DEFINE z == [Loaded("crawl") EXCEPT !.expected = expected]
    <3>1. z \in Session /\ z.mine = chapter /\ z.read = chapter
      BY <2>0 DEF Session
    <3> HIDE DEF z
    <3> QED
      BY <1>0, <2>2, <3>1 DEF SameText, z
  <2> QED
    BY <1>2, <2>1, <2>2 DEF CrawlLoads, expected
<1>3. CASE RefreshLoads(s)
  <2>1. Loaded("refresh") \in Session /\ SameText(Loaded("refresh").mine, Loaded("refresh").read)
    BY LoadedIs DEF Operations, SameText
  <2> QED
    BY <1>0, <1>3, <2>1 DEF RefreshLoads
<1> QED
  BY <1>1, <1>2, <1>3

LEMMA FlushedIs ==
  ASSUME TypeOK, NEW s \in Sessions, NEW mine \in ChapterRow, FlushChapter(s, mine)
  PROVE  \E z \in Session :
           /\ tx' = [tx EXCEPT ![s] = z] /\ z.pc = "flushed" /\ z.mine = z.read
           /\ z.base = FlushedChapter(chapter, tx[s].read, mine)
<1> DEFINE base == FlushedChapter(chapter, tx[s].read, mine)
           z == [tx[s] EXCEPT !.base = base, !.read = mine, !.mine = mine, !.pc = "flushed"]
<1>1. tx \in [Sessions -> Session] /\ tx[s] \in Session /\ chapter \in ChapterRow
  BY SessionsTyped DEF TypeOK
<1>2. base \in ChapterRow
  BY <1>1, FlushTypes DEF Session
<1>3. tx' = [tx EXCEPT ![s] = z]
  BY <1>1 DEF FlushChapter
<1> HIDE DEF base
<1>4. z \in Session /\ z.pc = "flushed" /\ z.mine = mine /\ z.read = mine /\ z.base = base
  BY <1>1, <1>2 DEF Session, PC
<1> HIDE DEF z
<1> QED
  BY <1>3, <1>4 DEF base

LEMMA RecomputedIs ==
  ASSUME TypeOK, NEW s \in Sessions, Recompute(s)
  PROVE  \E z \in Session :
           /\ tx' = [tx EXCEPT ![s] = z] /\ z.pc = "recomputed" /\ z.op = tx[s].op
           /\ SameText(z.mine, tx[s].mine) /\ z.read = tx[s].read /\ z.base = tx[s].base
<1> DEFINE count == TranslatedCount
           status == IF chapter.tr = None THEN "pending" ELSE "translated"
           novelMine == [tx[s].novelMine EXCEPT !.count = count]
           mine == [tx[s].mine EXCEPT !.status = status]
           z == [tx[s] EXCEPT !.novelMine = novelMine, !.mine = mine, !.pc = "recomputed"]
<1>1. tx \in [Sessions -> Session] /\ tx[s] \in Session
  BY SessionsTyped
<1>2. count \in 0..2 /\ status \in {"pending", "translated"}
  BY DEF TranslatedCount
<1>3. tx' = [tx EXCEPT ![s].novelMine.count = count, ![s].mine.status = status,
                       ![s].pc = "recomputed"]
  BY DEF Recompute
<1> HIDE DEF count, status
<1>4. novelMine \in NovelRow /\ mine \in ChapterRow /\ SameText(mine, tx[s].mine)
  BY <1>1, <1>2 DEF Session, NovelRow, ChapterRow, SameText
<1>5. tx' = [tx EXCEPT ![s] = z]
  BY <1>1, <1>3 DEF Session
<1> HIDE DEF novelMine, mine
<1>6. /\ z \in Session /\ z.pc = "recomputed" /\ z.op = tx[s].op /\ z.mine = mine
      /\ z.read = tx[s].read /\ z.base = tx[s].base
  BY <1>1, <1>4 DEF Session, PC
<1> HIDE DEF z
<1> QED
  BY <1>4, <1>5, <1>6

LEMMA LockedIs ==
  ASSUME TypeOK, NEW s \in Sessions, LockNovel(s)
  PROVE  \E z \in Session :
           /\ tx' = [tx EXCEPT ![s] = z] /\ z.pc = "locked" /\ z.mine = tx[s].mine
           /\ z.read = tx[s].read /\ z.base = tx[s].base
<1> DEFINE z == [tx[s] EXCEPT !.pc = "locked"]
<1>1. tx \in [Sessions -> Session] /\ tx[s] \in Session
  BY SessionsTyped
<1>2. tx' = [tx EXCEPT ![s] = z]
  BY <1>1 DEF LockNovel
<1>3. /\ z \in Session /\ z.pc = "locked" /\ z.mine = tx[s].mine
      /\ z.read = tx[s].read /\ z.base = tx[s].base
  BY <1>1 DEF Session, PC
<1> HIDE DEF z
<1> QED
  BY <1>2, <1>3

LEMMA ActivatedIs ==
  ASSUME TypeOK, NEW s \in Sessions, Activate(s)
  PROVE  \E z \in Session, referenced \in ChapterRow :
           /\ tx' = [tx EXCEPT ![s] = z] /\ z.pc = "flushed" /\ z.mine = z.read
           /\ SameText(referenced, tx[s].mine)
           /\ z.base = FlushedChapter(chapter, tx[s].read, referenced)
           /\ ChapterFree(s) /\ chapterLock' = s /\ objects' \subseteq Keys
<1> DEFINE referenced == IF tx[s].mine.tr = None THEN tx[s].mine
                         ELSE [tx[s].mine EXCEPT !.status = "translated"]
           base == FlushedChapter(chapter, tx[s].read, referenced)
<1>1. /\ tx \in [Sessions -> Session] /\ tx[s] \in Session /\ chapter \in ChapterRow
      /\ tx[s].read \in ChapterRow /\ tx[s].mine \in ChapterRow
  BY SessionsTyped DEF TypeOK, Session
<1>2. PICK generation \in Keys :
        /\ NewKey(generation) /\ ChapterFree(s) /\ chapterLock' = s
        /\ tx' = [tx EXCEPT
             ![s].base = base, ![s].read = referenced, ![s].mine = referenced,
             ![s].novelMine.gen = generation, ![s].pc = "flushed"]
  BY DEF Activate
<1>3. referenced \in ChapterRow /\ SameText(referenced, tx[s].mine)
  BY <1>1 DEF ChapterRow, SameText
<1>4. base \in ChapterRow
  BY <1>1, <1>3, FlushTypes
<1>5. objects' \subseteq Keys
  BY <1>2 DEF NewKey, TypeOK
<1> DEFINE novelMine == [tx[s].novelMine EXCEPT !.gen = generation]
           z == [tx[s] EXCEPT !.base = base, !.read = referenced, !.mine = referenced,
                              !.novelMine = novelMine, !.pc = "flushed"]
<1> HIDE DEF base, referenced
<1>6. novelMine \in NovelRow
  BY <1>1 DEF Session, NovelRow
<1>7. tx' = [tx EXCEPT ![s] = z]
  BY <1>1, <1>2 DEF Session
<1> HIDE DEF novelMine
<1>8. /\ z \in Session /\ z.pc = "flushed" /\ z.mine = referenced /\ z.read = referenced
      /\ z.base = base
  BY <1>1, <1>3, <1>4, <1>6 DEF Session, PC
<1> HIDE DEF z
<1> QED
  BY <1>2, <1>3, <1>5, <1>7, <1>8 DEF base

LEMMA EndedIs ==
  ASSUME NEW pc \in {"idle", "refresh"}
  PROVE  LET z == [Idle EXCEPT !.pc = pc] IN
         z \in Session /\ z.pc = pc /\ SameText(z.mine, z.read)
<1>1. Idle.mine = NewChapter /\ Idle.read = NewChapter
  BY DEF Idle
<1> QED
  BY <1>1, RowTypes DEF Session, PC, SameText

LEMMA CommitTypes ==
  ASSUME TypeOK, NEW s \in Sessions
  PROVE  CommittedNovel(s) \in NovelRow /\ CommittedChapter(s) \in ChapterRow
<1>1. tx[s] \in Session /\ novel \in NovelRow /\ chapter \in ChapterRow
  BY SessionsTyped DEF TypeOK
<1> QED
  BY <1>1, FlushTypes DEF CommittedNovel, CommittedChapter, Session

\* What is only true or false.
Flags == other \in BOOLEAN /\ failed \in BOOLEAN /\ overtaken \in BOOLEAN

\* Rows, sessions and locks keep their types.
THEOREM TypeCorrect == Spec => []TypeOK
<1>1. Init => TypeOK
  <2> SUFFICES ASSUME Init PROVE TypeOK
    OBVIOUS
  <2>1. PICK translated \in BOOLEAN :
          /\ novel = [gen |-> 1, count |-> IF translated THEN 1 ELSE 0]
          /\ chapter = IF translated
                       THEN [raw |-> 1, tr |-> 2, status |-> "translated",
                             versions |-> {[id |-> <<"r2", 2>>, key |-> 2]}]
                       ELSE [NewChapter EXCEPT !.raw = 1]
          /\ objects = IF translated THEN {1, 2} ELSE {1}
    BY DEF Init
  <2>2. {1, 2} \subseteq Keys
    BY CatalogAssumption DEF Keys
  <2>3. novel \in NovelRow
    BY <2>1, <2>2 DEF NovelRow
  <2>4. chapter \in ChapterRow
    <3>1. <<"r2", 2>> \in VersionId
      BY <2>2 DEF VersionId
    <3>2. CASE translated
      BY <2>1, <2>2, <3>1, <3>2 DEF ChapterRow
    <3>3. CASE ~translated
      BY <2>1, <2>2, <3>3, RowTypes DEF ChapterRow
    <3> QED
      BY <3>2, <3>3
  <2>5. objects \subseteq Keys
    BY <2>1, <2>2
  <2>6. tx \in [Sessions -> Session] /\ events \in 0..MaxEvents
    BY RowTypes, CatalogAssumption DEF Init
  <2>7. {novelLock, chapterLock} \subseteq Sessions \cup {Nobody} /\ Flags
    BY DEF Init, Flags
  <2> QED
    BY <2>3, <2>4, <2>5, <2>6, <2>7 DEF TypeOK, Session, Flags
<1>2. TypeOK /\ [Next]_vars => TypeOK'
  <2> SUFFICES ASSUME TypeOK, [Next]_vars PROVE TypeOK'
    OBVIOUS
  <2>0. /\ tx \in [Sessions -> Session] /\ novel \in NovelRow /\ chapter \in ChapterRow
        /\ objects \subseteq Keys /\ events \in 0..MaxEvents /\ Flags
        /\ {novelLock, chapterLock} \subseteq Sessions \cup {Nobody}
    BY SessionsTyped DEF TypeOK, Flags
  <2>a. ASSUME NEW s \in Sessions, NEW z \in Session, tx' = [tx EXCEPT ![s] = z],
               novel' \in NovelRow, chapter' \in ChapterRow, objects' \subseteq Keys,
               {novelLock', chapterLock'} \subseteq Sessions \cup {Nobody},
               events' \in 0..MaxEvents, Flags'
        PROVE  TypeOK'
    <3>1. tx' \in [Sessions -> Session]
      BY <2>0, <2>a
    <3> QED
      BY <2>a, <3>1 DEF TypeOK, Session, Flags
  <2>d. UNCHANGED <<other, failed, overtaken>> => Flags'
    BY <2>0 DEF Flags
  <2>b. Counted => events' \in 0..MaxEvents
    BY <2>0, CatalogAssumption DEF Counted
  <2>c. ASSUME NEW key, NewKey(key) PROVE objects' \subseteq Keys
    BY <2>0, <2>c DEF NewKey
  <2>1. ASSUME NEW s \in Sessions, Save(s) \/ SaveOther(s) \/ Edit(s) \/ Rollback(s)
        PROVE  TypeOK'
    <3>1. \E z \in Session : tx' = [tx EXCEPT ![s] = z]
      BY <2>1, SavedIs, SavedOtherIs, EditIs, RollbackIs
    <3>2. UNCHANGED <<novel, chapter, novelLock, chapterLock, other, failed, overtaken>> /\ Counted
      BY <2>1 DEF Save, SaveOther, Edit, Rollback, Begins, rows, locks, history
    <3>3. objects' \subseteq Keys
      BY <2>0, <2>1, <2>c DEF Save, SaveOther, Edit, Rollback
    <3> QED
      BY <2>0, <2>a, <2>b, <2>d, <3>1, <3>2, <3>3
  <2>2. ASSUME NEW s \in Sessions, Crawl(s) \/ CrawlLoads(s) \/ RefreshLoads(s) PROVE TypeOK'
    <3>1. (\E z \in Session : tx' = [tx EXCEPT ![s] = z]) /\ objects' \subseteq Keys
      BY <2>2, CrawlIs
    <3>2. UNCHANGED <<novel, chapter, novelLock, chapterLock, other, failed, overtaken>>
      BY <2>2 DEF Crawl, CrawlLoads, RefreshLoads, rows, locks, history
    <3>3. events' = events \/ Counted
      BY <2>2 DEF Crawl, CrawlLoads, RefreshLoads, Begins
    <3> QED
      BY <2>0, <2>a, <2>d, <2>b, <3>1, <3>2, <3>3
  <2>3. ASSUME NEW s \in Sessions, EditFlushes(s) PROVE TypeOK'
    <3>1. tx[s].mine \in ChapterRow /\ FlushChapter(s, tx[s].mine)
      BY <2>0, <2>3 DEF EditFlushes, Session
    <3>2. \E z \in Session : tx' = [tx EXCEPT ![s] = z]
      BY <3>1, FlushedIs
    <3>3. UNCHANGED <<novel, chapter, objects, novelLock, events, other, failed, overtaken>>
          /\ chapterLock' = s
      BY <2>3 DEF EditFlushes, FlushChapter, rows, history
    <3> QED
      BY <2>0, <2>a, <2>d, <3>2, <3>3
  <2>4. ASSUME NEW s \in Sessions, Recompute(s) PROVE TypeOK'
    <3>1. \E z \in Session : tx' = [tx EXCEPT ![s] = z]
      BY <2>4, RecomputedIs
    <3>2. UNCHANGED <<novel, chapter, objects, novelLock, chapterLock, events>>
          /\ UNCHANGED <<other, failed, overtaken>>
      BY <2>4 DEF Recompute, rows, locks, history
    <3> QED
      BY <2>0, <2>a, <2>d, <3>1, <3>2
  <2>5. ASSUME NEW s \in Sessions, LockNovel(s) PROVE TypeOK'
    <3>1. \E z \in Session : tx' = [tx EXCEPT ![s] = z]
      BY <2>5, LockedIs
    <3>2. UNCHANGED <<novel, chapter, objects, chapterLock, events, other, failed, overtaken>>
          /\ novelLock' = s
      BY <2>5 DEF LockNovel, rows, history
    <3> QED
      BY <2>0, <2>a, <2>d, <3>1, <3>2
  <2>6. ASSUME NEW s \in Sessions, Activate(s) PROVE TypeOK'
    <3>1. PICK z \in Session : /\ tx' = [tx EXCEPT ![s] = z]
                               /\ chapterLock' = s /\ objects' \subseteq Keys
      BY <2>6, ActivatedIs
    <3>2. UNCHANGED <<novel, chapter, novelLock, events, other, failed, overtaken>>
      BY <2>6 DEF Activate, rows, history
    <3> QED
      BY <2>0, <2>a, <2>d, <3>1, <3>2
  <2>7. ASSUME NEW s \in Sessions, NEW pc \in {"idle", "refresh"}, Ends(s, pc),
               novel' \in NovelRow, chapter' \in ChapterRow, objects' = objects,
               events' \in 0..MaxEvents, Flags'
        PROVE  TypeOK'
    <3>1. PICK z : z = [Idle EXCEPT !.pc = pc]
      OBVIOUS
    <3>2. z \in Session
      BY <3>1, EndedIs
    <3>3. tx' = [tx EXCEPT ![s] = z]
      BY <2>7, <3>1 DEF Ends
    <3>4. {novelLock', chapterLock'} \subseteq Sessions \cup {Nobody}
      BY <2>0, <2>7 DEF Ends
    <3> QED
      BY <2>0, <2>7, <2>a, <3>2, <3>3, <3>4
  <2>8. ASSUME NEW s \in Sessions, Conflict(s) PROVE TypeOK'
    BY <2>0, <2>7, <2>8, <2>d DEF Conflict, rows, history
  <2>9. ASSUME NEW s \in Sessions, Commit(s) PROVE TypeOK'
    <3>1. After(tx[s].op) \in {"idle", "refresh"}
      BY DEF After
    <3>2. /\ novel' \in NovelRow /\ chapter' \in ChapterRow /\ Ends(s, After(tx[s].op))
          /\ UNCHANGED <<objects, events, failed>>
      BY <2>9, CommitTypes DEF Commit
    <3>4. Flags'
      <4>1. (other \/ tx[s].op = "other") \in BOOLEAN /\ (overtaken \/ Overtakes(s)) \in BOOLEAN
        BY Zenon
      <4> QED
        BY <2>0, <2>9, <3>2, <4>1, Zenon DEF Commit, Flags
    <3>3. PICK pc \in {"idle", "refresh"} : pc = After(tx[s].op)
      BY <3>1
    <3> QED
      BY <2>0, <2>7, <3>2, <3>3, <3>4
  <2>10. ASSUME NEW s \in Sessions, LockTimeout(s) \/ SessionFails(s) PROVE TypeOK'
    <3>1. Ends(s, "idle") /\ UNCHANGED <<novel, chapter, objects>>
      BY <2>10 DEF LockTimeout, SessionFails, Fails, rows
    <3>2. Flags'
      <4>1. (failed \/ tx[s].op = "refresh" \/ tx[s].pc = "refresh") \in BOOLEAN
        BY Zenon
      <4>2. UNCHANGED <<other, overtaken>>
        BY <2>10 DEF LockTimeout, SessionFails, Fails, rows
      <4> QED
        BY <2>0, <2>10, <4>1, <4>2, Zenon DEF LockTimeout, SessionFails, Fails, Flags
    <3>3. events' = events \/ Counted
      BY <2>10 DEF LockTimeout, SessionFails
    <3> QED
      BY <2>0, <2>7, <2>b, <3>1, <3>2, <3>3
  <2>11. ASSUME UNCHANGED vars PROVE TypeOK'
    BY <2>0, <2>11, <2>d DEF vars, rows, locks, history, TypeOK, Session, Flags
  <2> QED
    BY <2>1, <2>2, <2>3, <2>4, <2>5, <2>6, <2>8, <2>9, <2>10, <2>11 DEF Next, Step
<1> QED
  BY <1>1, <1>2, PTL DEF Spec
-----------------------------------------------------------------------------
(* Crawls take no translation back.                                        *)

\* A crawl changes neither the active text nor the versions of its chapter; a
\* chapter that is locked is as its holder has seen it when it flushed.
Clean(s) == SameText(tx[s].mine, tx[s].read)
Held(s) == chapterLock = s => SameText(tx[s].base, chapter)
Holding(s) ==
  chapterLock = s => tx[s].pc = "flushed" \/ (tx[s].pc = "recomputed" /\ tx[s].op = "edit")

CrawlInv ==
  /\ \A s \in Crawlers : Clean(s) /\ Held(s)
  /\ \A s \in Sessions : Holding(s)

\* A flush of columns that have not changed keeps them.
LEMMA FlushKeeps ==
  ASSUME NEW row, NEW read, NEW mine, SameText(mine, read)
  PROVE  SameText(FlushedChapter(row, read, mine), row)
BY DEF FlushedChapter, Column, SameText

\* A session steps: what is left to show of it.
LEMMA SessionStep ==
  ASSUME TypeOK, CrawlInv, NEW s \in Sessions, NEW z, tx' = [tx EXCEPT ![s] = z],
         chapter' = chapter, chapterLock' \in {chapterLock, s, Nobody},
         s \in Crawlers => SameText(z.mine, z.read)
                           /\ (chapterLock' = s => SameText(z.base, chapter)),
         chapterLock' = s => z.pc = "flushed" \/ (z.pc = "recomputed" /\ z.op = "edit")
  PROVE  CrawlInv'
<1>1. tx'[s] = z /\ \A r \in Sessions \ {s} : tx'[r] = tx[r]
  BY SessionsTyped
<1>2. Nobody \notin Sessions /\ Crawlers \subseteq Sessions
  BY CatalogAssumption DEF Sessions
<1>3. ASSUME NEW r \in Crawlers PROVE (Clean(r) /\ Held(r))'
  <2>1. CASE r = s
    BY <1>1, <2>1 DEF Clean, Held
  <2>2. CASE r # s
    <3>1. tx'[r] = tx[r] /\ (chapterLock' = r => chapterLock = r)
      BY <1>1, <1>2, <2>2
    <3> QED
      BY <3>1 DEF CrawlInv, Clean, Held
  <2> QED
    BY <2>1, <2>2
<1>4. ASSUME NEW r \in Sessions PROVE Holding(r)'
  <2>1. CASE r = s
    BY <1>1, <2>1 DEF Holding
  <2>2. CASE r # s
    <3>1. tx'[r] = tx[r] /\ (chapterLock' = r => chapterLock = r)
      BY <1>1, <1>2, <2>2
    <3> QED
      BY <3>1 DEF CrawlInv, Holding
  <2> QED
    BY <2>1, <2>2
<1> QED
  BY <1>3, <1>4 DEF CrawlInv

\* What a commit leaves of the chapter: nothing new if it waits for another
\* session's lock, and the old text if it is a crawl's.
LEMMA CommitKeeps ==
  ASSUME TypeOK, CrawlInv, NEW s \in Sessions, Commit(s)
  PROVE  /\ chapterLock \notin {Nobody, s} => chapter' = chapter
         /\ s \in Crawlers => SameText(chapter', chapter)
<1>1. chapter' = CommittedChapter(s) /\ ~Blocked(s)
  BY DEF Commit
<1>2. chapterLock \notin {Nobody, s} => chapter' = chapter
  BY <1>1 DEF Blocked, ChapterFree
<1>3. ASSUME s \in Crawlers PROVE SameText(chapter', chapter)
  <2>1. SameText(tx[s].mine, tx[s].read) /\ (chapterLock = s => SameText(tx[s].base, chapter))
    BY <1>3 DEF CrawlInv, Clean, Held
  <2>2. CASE chapterLock = s
    <3>1. chapter' = FlushedChapter(tx[s].base, tx[s].read, tx[s].mine)
      BY <1>1, <2>2 DEF CommittedChapter
    <3>2. SameText(chapter', tx[s].base)
      BY <2>1, <3>1, FlushKeeps
    <3> QED
      BY <2>1, <2>2, <3>2 DEF SameText
  <2>3. CASE chapterLock # s
    <3>1. chapter' = FlushedChapter(chapter, tx[s].read, tx[s].mine)
      BY <1>1, <2>3 DEF CommittedChapter
    <3> QED
      BY <2>1, <3>1, FlushKeeps
  <2> QED
    BY <2>2, <2>3
<1> QED
  BY <1>2, <1>3

LEMMA CrawlInvariant == Spec => []CrawlInv
<1>1. Init => CrawlInv
  BY CatalogAssumption DEF Init, CrawlInv, Clean, Held, Holding, SameText, Idle, Sessions
<1>2. TypeOK /\ CrawlInv /\ [Next]_vars => CrawlInv'
  <2> SUFFICES ASSUME TypeOK, CrawlInv, [Next]_vars PROVE CrawlInv'
    OBVIOUS
  <2>0. /\ Nobody \notin Sessions /\ Crawlers \subseteq Sessions
        /\ \A s \in Crawlers : s \notin Workers /\ s \notin Editors
        /\ \A s \in Sessions : tx[s] \in Session
    BY CatalogAssumption, SessionsTyped DEF Sessions
  <2>a. ASSUME NEW s \in Sessions, tx[s].pc \notin {"flushed", "recomputed"}
        PROVE  chapterLock # s
    BY <2>a DEF CrawlInv, Holding
  <2>1. ASSUME NEW s \in Sessions, Save(s) \/ SaveOther(s) \/ Edit(s) \/ Rollback(s)
        PROVE  CrawlInv'
    <3>1. PICK z \in Session : tx' = [tx EXCEPT ![s] = z]
      BY <2>1, SavedIs, SavedOtherIs, EditIs, RollbackIs
    <3>2. /\ tx[s].pc = "idle" /\ s \notin Crawlers
          /\ UNCHANGED <<chapter, chapterLock>>
      BY <2>0, <2>1 DEF Save, SaveOther, Edit, Rollback, Begins, rows, locks
    <3> QED
      BY <2>a, <3>1, <3>2, SessionStep
  <2>2. ASSUME NEW s \in Sessions, Crawl(s) \/ CrawlLoads(s) \/ RefreshLoads(s)
        PROVE  CrawlInv'
    <3>1. PICK z \in Session : tx' = [tx EXCEPT ![s] = z] /\ SameText(z.mine, z.read)
      BY <2>2, CrawlIs
    <3>2. /\ tx[s].pc \in {"idle", "expecting", "refresh"}
          /\ UNCHANGED <<chapter, chapterLock>>
      BY <2>2 DEF Crawl, CrawlLoads, RefreshLoads, Begins, rows, locks
    <3> QED
      BY <2>a, <3>1, <3>2, SessionStep
  <2>3. ASSUME NEW s \in Sessions, EditFlushes(s) PROVE CrawlInv'
    <3>1. tx[s].mine \in ChapterRow /\ FlushChapter(s, tx[s].mine)
      BY <2>0, <2>3 DEF EditFlushes, Session
    <3>2. PICK z \in Session :
            /\ tx' = [tx EXCEPT ![s] = z] /\ z.pc = "flushed" /\ z.mine = z.read
            /\ z.base = FlushedChapter(chapter, tx[s].read, tx[s].mine)
      BY <3>1, FlushedIs
    <3>3. chapter' = chapter /\ chapterLock' = s
      BY <2>3 DEF EditFlushes, FlushChapter, rows
    <3>4. SameText(z.mine, z.read) /\ (s \in Crawlers => SameText(z.base, chapter))
      BY <3>2, FlushKeeps DEF CrawlInv, Clean, SameText
    <3>5. s \in Crawlers => SameText(z.mine, z.read)
                            /\ (chapterLock' = s => SameText(z.base, chapter))
      BY <3>4
    <3>6. chapterLock' \in {chapterLock, s, Nobody}
      BY <3>3
    <3>7. chapterLock' = s => z.pc = "flushed" \/ (z.pc = "recomputed" /\ z.op = "edit")
      BY <3>2
    <3> QED
      BY <3>2, <3>3, <3>5, <3>6, <3>7, SessionStep
  <2>4. ASSUME NEW s \in Sessions, Recompute(s) PROVE CrawlInv'
    <3>1. PICK z \in Session :
            /\ tx' = [tx EXCEPT ![s] = z] /\ z.pc = "recomputed" /\ z.op = tx[s].op
            /\ SameText(z.mine, tx[s].mine) /\ z.read = tx[s].read /\ z.base = tx[s].base
      BY <2>4, RecomputedIs
    <3>2. UNCHANGED <<chapter, chapterLock>>
      BY <2>4 DEF Recompute, rows, locks
    <3>3. chapterLock = s => tx[s].op = "edit"
      BY <2>4, <2>a DEF Recompute
    <3>4. s \in Crawlers => SameText(z.mine, z.read)
                            /\ (chapterLock = s => SameText(z.base, chapter))
      BY <3>1 DEF CrawlInv, Clean, Held, SameText
    <3> QED
      BY <3>1, <3>2, <3>3, <3>4, SessionStep
  <2>5. ASSUME NEW s \in Sessions, LockNovel(s) PROVE CrawlInv'
    <3>1. PICK z \in Session :
            /\ tx' = [tx EXCEPT ![s] = z] /\ z.mine = tx[s].mine
            /\ z.read = tx[s].read /\ z.base = tx[s].base
      BY <2>5, LockedIs
    <3>2. UNCHANGED <<chapter, chapterLock>>
      BY <2>5 DEF LockNovel, rows
    <3>3. chapterLock # s
      BY <2>5 DEF LockNovel, CrawlInv, Holding
    <3>4. s \in Crawlers => SameText(z.mine, z.read)
      BY <3>1 DEF CrawlInv, Clean
    <3> QED
      BY <3>1, <3>2, <3>3, <3>4, SessionStep
  <2>6. ASSUME NEW s \in Sessions, Activate(s) PROVE CrawlInv'
    <3>1. PICK z \in Session, referenced \in ChapterRow :
            /\ tx' = [tx EXCEPT ![s] = z] /\ z.pc = "flushed" /\ z.mine = z.read
            /\ SameText(referenced, tx[s].mine)
            /\ z.base = FlushedChapter(chapter, tx[s].read, referenced)
            /\ chapterLock' = s
      BY <2>6, ActivatedIs
    <3>2. chapter' = chapter
      BY <2>6 DEF Activate, rows
    <3>3. s \in Crawlers => SameText(z.base, chapter)
      <4>1. s \in Crawlers => SameText(referenced, tx[s].read)
        BY <3>1 DEF CrawlInv, Clean, SameText
      <4> QED
        BY <3>1, <4>1, FlushKeeps
    <3>4. SameText(z.mine, z.read)
      BY <3>1 DEF SameText
    <3>5. s \in Crawlers => SameText(z.mine, z.read)
                            /\ (chapterLock' = s => SameText(z.base, chapter))
      BY <3>3, <3>4
    <3>6. chapterLock' \in {chapterLock, s, Nobody}
      BY <3>1
    <3>7. chapterLock' = s => z.pc = "flushed" \/ (z.pc = "recomputed" /\ z.op = "edit")
      BY <3>1
    <3> QED
      BY <3>1, <3>2, <3>5, <3>6, <3>7, SessionStep
  <2>7. ASSUME NEW s \in Sessions, NEW pc \in {"idle", "refresh"}, Ends(s, pc),
               chapter' = chapter
        PROVE  CrawlInv'
    <3>1. PICK z : z = [Idle EXCEPT !.pc = pc]
      OBVIOUS
    <3>2. SameText(z.mine, z.read) /\ tx' = [tx EXCEPT ![s] = z]
      BY <2>7, <3>1, EndedIs DEF Ends
    <3>3. chapterLock' \in {chapterLock, Nobody} /\ chapterLock' # s
      BY <2>0, <2>7 DEF Ends
    <3> QED
      BY <2>7, <3>2, <3>3, SessionStep
  <2>8. ASSUME NEW s \in Sessions, Conflict(s) \/ LockTimeout(s) \/ SessionFails(s)
        PROVE  CrawlInv'
    <3>1. Ends(s, "idle") /\ chapter' = chapter
      BY <2>8 DEF Conflict, LockTimeout, SessionFails, Fails, rows
    <3> QED
      BY <2>7, <3>1
  <2>9. ASSUME NEW s \in Sessions, Commit(s) PROVE CrawlInv'
    <3>1. PICK pc \in {"idle", "refresh"} : Ends(s, pc)
      BY <2>9 DEF Commit, After
    <3>2. CASE chapter' = chapter
      BY <2>7, <3>1, <3>2
    <3>3. CASE chapter' # chapter
      <4>1. chapterLock \in {Nobody, s} /\ chapterLock' = Nobody
        BY <2>9, <3>1, <3>3, CommitKeeps DEF Ends
      <4>2. PICK z : z = [Idle EXCEPT !.pc = pc]
        OBVIOUS
      <4>3. SameText(z.mine, z.read) /\ tx' = [tx EXCEPT ![s] = z]
        BY <3>1, <4>2, EndedIs DEF Ends
      <4>4. tx'[s] = z /\ \A r \in Sessions \ {s} : tx'[r] = tx[r]
        BY <4>3, SessionsTyped
      <4>5. ASSUME NEW r \in Crawlers PROVE Clean(r)'
        BY <2>0, <4>3, <4>4 DEF CrawlInv, Clean
      <4>6. \A r \in Sessions : chapterLock' # r
        BY <2>0, <4>1
      <4> QED
        BY <2>0, <4>5, <4>6 DEF CrawlInv, Held, Holding
    <3> QED
      BY <3>2, <3>3
  <2>10. ASSUME UNCHANGED vars PROVE CrawlInv'
    BY <2>10 DEF vars, rows, locks, CrawlInv, Clean, Held, Holding
  <2> QED
    BY <2>1, <2>2, <2>3, <2>4, <2>5, <2>6, <2>8, <2>9, <2>10 DEF Next, Step
<1> QED
  BY <1>1, <1>2, TypeCorrect, PTL DEF Spec

\* No crawl, and no refresh after one, takes back a translation that was saved,
\* edited or rolled back to since it read the chapter.
THEOREM CrawlsKeepTranslations == Spec => CrawlKeepsTranslation
<1>1. TypeOK /\ CrawlInv /\ [Next]_vars =>
        [\A s \in Crawlers : Commit(s) =>
           chapter'.tr = chapter.tr /\ chapter'.versions = chapter.versions]_vars
  BY CommitKeeps, CatalogAssumption DEF Sessions, SameText
<1> QED
  BY <1>1, TypeCorrect, CrawlInvariant, PTL DEF Spec, CrawlKeepsTranslation
-----------------------------------------------------------------------------
(* The public page of a chapter, for any number of reader processes, owners *)
(* and operations.                                                          *)

\* Every request, cache and operation is of its type in every reachable state.
THEOREM PageTypeCorrect == PageSpec => []PageTypeOK
<1>1. PageInit => PageTypeOK
  BY ReaderAssumption DEF PageInit, PageTypeOK, NoRequest, Texts, NoText
<1>2. PageTypeOK /\ [PageNext]_pageVars => PageTypeOK'
  <2> SUFFICES ASSUME PageTypeOK, [PageNext]_pageVars PROVE PageTypeOK'
    OBVIOUS
  <2> USE ReaderAssumption DEF PageTypeOK, NoRequest, Texts, NoText
  <2>1. ASSUME NEW p \in Processes, Lookup(p) PROVE PageTypeOK'
    BY <2>1 DEF Lookup
  <2>2. ASSUME NEW p \in Processes, CheckTakedown(p) PROVE PageTypeOK'
    BY <2>2 DEF CheckTakedown
  <2>3. ASSUME NEW p \in Processes, LoadText(p) PROVE PageTypeOK'
    BY <2>3 DEF LoadText
  <2>4. ASSUME NEW p \in Processes, Store(p) PROVE PageTypeOK'
    BY <2>4 DEF Store
  <2>5. ASSUME NEW p \in Processes, Expire(p) PROVE PageTypeOK'
    BY <2>5 DEF Expire
  <2>6. ASSUME NEW o \in Owners, BeginChange(o) PROVE PageTypeOK'
    BY <2>6 DEF BeginChange, Changes
  <2>7. ASSUME NEW o \in Owners, CommitChange(o) PROVE PageTypeOK'
    <3>1. page' \in [approved : BOOLEAN, published : BOOLEAN, text : Texts]
      BY <2>7 DEF CommitChange, Applied
    <3>2. change' \in [Owners -> Changes \cup {"none"}]
      BY <2>7 DEF CommitChange
    <3>3. request' \in [Processes -> [pc : {"idle", "context", "clear", "loaded"},
                                   text : Texts \cup {NoText}, barred : BOOLEAN]]
      <4> DEFINE Requests == [pc : {"idle", "context", "clear", "loaded"},
                              text : Texts \cup {NoText}, barred : BOOLEAN]
      <4>1. \A r \in Requests, b \in BOOLEAN : [r EXCEPT !.barred = b] \in Requests
        OBVIOUS
      <4>2. \A p \in Processes : request[p] \in Requests
        OBVIOUS
      <4>3. \A p \in Processes :
              (request[p].barred /\ change[o] # "reinstate") \in BOOLEAN
        OBVIOUS
      <4>4. request' = [p \in Processes |->
                          [request[p] EXCEPT !.barred = request[p].barred /\ change[o] # "reinstate"]]
        BY <2>7 DEF CommitChange
      <4> HIDE DEF Requests
      <4>5. \A p \in Processes : request'[p] \in Requests
        BY <4>1, <4>2, <4>3, <4>4
      <4>6. request' \in [Processes -> Requests]
        BY <4>4, <4>5
      <4> QED
        BY <4>6 DEF Requests
    <3> QED
      BY <2>7, <3>1, <3>2, <3>3 DEF CommitChange
  <2>8. ASSUME NEW o \in Owners, AbortChange(o) PROVE PageTypeOK'
    BY <2>8 DEF AbortChange
  <2>9. CASE UNCHANGED pageVars
    BY <2>9 DEF pageVars
  <2> QED
    BY <2>1, <2>2, <2>3, <2>4, <2>5, <2>6, <2>7, <2>8, <2>9 DEF PageNext, Answer
<1> QED
  BY <1>1, <1>2, PTL DEF PageSpec

\* A request that is barred has not been checked yet, and the notice it is
\* barred by is approved, so that its check refuses it.
BarredIsUnchecked ==
  \A p \in Processes : request[p].barred => request[p].pc = "context" /\ page.approved

LEMMA BarredInvariant == PageSpec => []BarredIsUnchecked
<1>1. PageInit => BarredIsUnchecked
  BY DEF PageInit, BarredIsUnchecked, NoRequest
<1>2. PageTypeOK /\ BarredIsUnchecked /\ [PageNext]_pageVars => BarredIsUnchecked'
  <2> SUFFICES ASSUME PageTypeOK, BarredIsUnchecked, [PageNext]_pageVars,
                      NEW q \in Processes, request'[q].barred
               PROVE  request'[q].pc = "context" /\ page'.approved
    BY DEF BarredIsUnchecked
  <2> USE DEF PageTypeOK, BarredIsUnchecked, NoRequest
  <2>1. ASSUME NEW p \in Processes, Lookup(p)
        PROVE  request'[q].pc = "context" /\ page'.approved
    BY <2>1 DEF Lookup
  <2>2. ASSUME NEW p \in Processes, CheckTakedown(p)
        PROVE  request'[q].pc = "context" /\ page'.approved
    BY <2>2 DEF CheckTakedown, Barred
  <2>3. ASSUME NEW p \in Processes, LoadText(p) \/ Store(p) \/ Expire(p)
        PROVE  request'[q].pc = "context" /\ page'.approved
    <3>1. CASE LoadText(p) \/ Store(p)
      <4>1. ~request[p].barred
        BY <3>1 DEF LoadText, Store
      <4>2. q # p
        BY <3>1, <4>1 DEF LoadText, Store
      <4> QED
        BY <3>1, <4>2 DEF LoadText, Store
    <3>2. CASE Expire(p)
      BY <3>2 DEF Expire
    <3> QED
      BY <2>3, <3>1, <3>2
  <2>4. ASSUME NEW o \in Owners, CommitChange(o)
        PROVE  request'[q].pc = "context" /\ page'.approved
    <3>1. request[q].barred /\ change[o] # "reinstate"
      BY <2>4 DEF CommitChange
    <3>2. request[q].pc = "context" /\ page.approved
      BY <3>1
    <3>3. request'[q].pc = request[q].pc
      BY <2>4 DEF CommitChange
    <3> QED
      BY <2>4, <3>1, <3>2, <3>3 DEF CommitChange, Applied
  <2>5. ASSUME NEW o \in Owners, BeginChange(o) \/ AbortChange(o)
        PROVE  request'[q].pc = "context" /\ page'.approved
    BY <2>5 DEF BeginChange, AbortChange
  <2>6. CASE UNCHANGED pageVars
    BY <2>6 DEF pageVars
  <2> QED
    BY <2>1, <2>2, <2>3, <2>4, <2>5, <2>6 DEF PageNext, Answer
<1> QED
  BY <1>1, <1>2, PageTypeCorrect, PTL DEF PageSpec

\* Whatever owners do meanwhile in whatever processes: a request that began
\* while the notice was approved, and has been since, stores nothing.
THEOREM BarredStoresNothing == PageSpec => TakenDownIsNotCached
<1>1. BarredIsUnchecked => [\A p \in Processes : Store(p) => ~request[p].barred]_pageVars
  BY DEF BarredIsUnchecked, Store
<1> QED
  BY <1>1, BarredInvariant, PTL DEF TakenDownIsNotCached
=============================================================================
