-------------------------- MODULE MCImportPipeline --------------------------
(* A small instance of ImportPipeline, with what it implements, for TLC.      *)
EXTENDS ImportRefinement
=============================================================================
