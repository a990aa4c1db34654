------------------------ MODULE MCChapterTranslation ------------------------
(***************************************************************************)
(* Two runs of the chapter in one process.                                 *)
(***************************************************************************)
EXTENDS ChapterTranslation

CONSTANTS r1, r2

OneProcess == [r \in {r1, r2} |-> "p1"]
=============================================================================
