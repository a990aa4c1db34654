--------------------------- MODULE MCChapterCatalog ---------------------------
(***************************************************************************)
(* A run, an editor and a crawl, or two crawls, on the same chapter.       *)
(***************************************************************************)
EXTENDS ChapterCatalog, TLC

CONSTANTS w1, e1, c1, c2
=============================================================================
