-------------------------- MODULE MCSeriesMetadata --------------------------
(* One series: a full and a direct refresh, and the user, for TLC.            *)
EXTENDS SeriesMetadata
=============================================================================
