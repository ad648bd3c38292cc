--------------------------- MODULE MCAcquisition ---------------------------
(* Two listings of one download, under a single-volume and a pack title.     *)
EXTENDS Acquisition, TLC
CONSTANTS u1, u2, v1, v2
MCCovers == (u1 :> {v1}) @@ (u2 :> {v1, v2})
MCDl == (u1 :> 1) @@ (u2 :> 1)
MCDlApart == (u1 :> 1) @@ (u2 :> 2)
MCGuid == (u1 :> NoGuid) @@ (u2 :> NoGuid)
=============================================================================
