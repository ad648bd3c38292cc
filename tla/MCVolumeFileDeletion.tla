------------------------ MODULE MCVolumeFileDeletion ------------------------
(* VolumeFileDeletion for TLC: files are model values.  The run checks        *)
(* liveness as well, so no symmetry is used.                                  *)
EXTENDS VolumeFileDeletion, TLC
=============================================================================
