------------------------ MODULE MCChapterQuarantine ------------------------
(* ChapterQuarantine for TLC.  Files are interchangeable, which the run without
   liveness uses. *)
EXTENDS ChapterQuarantine, TLC

Symmetry == Permutations(File)
=============================================================================
