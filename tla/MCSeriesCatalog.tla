-------------------------- MODULE MCSeriesCatalog ---------------------------
(* One series of an earlier version's database, for TLC.                    *)
EXTENDS SeriesCatalog
=============================================================================
