------------------------- MODULE MCPublicationFiles -------------------------
(* PublicationFiles for TLC. *)
EXTENDS PublicationRefinement
=============================================================================
