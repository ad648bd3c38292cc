----------------------------- MODULE ChapterCopy -----------------------------
(***************************************************************************)
(* chapter_provenance.py, volume_assembly.py and the file unit of            *)
(* routers/suwayomi_.py: a download becomes a file of the library.           *)
(*                                                                         *)
(* A chapter is copied straight to its public name under a pending marker;   *)
(* a volume is assembled in a private directory and published whole.  A      *)
(* transaction then records the file, with evidence only for a file this     *)
(* unit made itself.  A failed unit takes back its own file by capturing     *)
(* whatever is at the name and putting a stranger back.  The process may     *)
(* stop between any two steps and the folder may be changed by others.       *)
(***************************************************************************)
EXTENDS Naturals

CONSTANTS MaxStops, MaxForeign    \* bounds

VARIABLES kind,      \* "chapter", "volume" (merged) or "split" (one file per chapter)
          dst,       \* the public name
          marker,    \* the pending marker of the name is there
          stage,     \* the private directory of an assembly holds a whole file
          carrier,   \* what the rollback of this unit has captured
          kept,      \* files of others that are left in carriers, for review
          row,       \* the item is recorded with the name: "open" or "downloaded"
          torn,      \* the row was settled on a torn file
          evidence,  \* a provenance or assembly record of the name
          pc, made,  \* this unit created the file at the name
          legacy,    \* a copy in place was made at the name
          sure,      \* it was still that file when the evidence was taken
          stops, foreign
vars == <<kind, dst, marker, stage, carrier, kept, row, torn, evidence, pc, made, legacy, sure, stops, foreign>>

\* "part": a copy of ours that is not finished; "copy": one that is; "empty": a
\* placeholder; "own": a file of someone else.
Content == {"none", "part", "copy", "empty", "own"}
TypeOK ==
    /\ kind \in {"chapter", "volume", "split"} /\ dst \in Content /\ carrier \in Content
    /\ marker \in BOOLEAN /\ stage \in BOOLEAN /\ row \in {"open", "downloaded"}
    /\ evidence \in BOOLEAN /\ made \in BOOLEAN /\ sure \in BOOLEAN
    /\ pc \in {"idle", "mark", "create", "write", "verify", "assemble", "publish", "dispose",
               "prove", "commit", "retire", "check", "undo", "captured", "kept", "inplace", "copying"}

Init ==
    /\ kind \in {"chapter", "volume", "split"} /\ dst \in {"none", "empty", "own"}
    /\ marker = FALSE /\ stage = FALSE /\ carrier = "none" /\ kept = 0 /\ row = "open" /\ torn = FALSE
    /\ evidence = FALSE /\ pc = "idle" /\ made = FALSE /\ legacy = FALSE /\ sure = FALSE
    /\ stops = 0 /\ foreign = 0

To(step) == pc' = step
Fail == To("idle")                        \* the exception ends the unit
Rows == <<row, torn, evidence, legacy>>
Disk == <<dst, marker, stage, carrier, kept>>
Rest == <<kind, stops, foreign>>
Left == kept + IF carrier = "own" THEN 1 ELSE 0

(***************************************************************************)
(* Where the file comes from.                                               *)
(***************************************************************************)
Begin ==
    /\ pc = "idle" /\ row = "open" /\ made' = FALSE /\ sure' = FALSE
    /\ UNCHANGED <<marker, stage, carrier, kept, Rows, Rest>>
\* Mutation of _import_suwayomi_chapter_copy: the marker is not looked at.
_import_suwayomi_chapter_copy_hasty ==
    /\ kind = "chapter" /\ Begin
    /\ \/ dst \in {"part", "copy", "own"} /\ To("prove") /\ UNCHANGED dst
       \/ dst = "empty" /\ To("inplace") /\ UNCHANGED dst
       \/ dst = "none" /\ To("mark") /\ UNCHANGED dst
_import_suwayomi_chapter_copy ==
    /\ kind = "chapter" /\ Begin
    /\ \/ marker /\ Fail /\ UNCHANGED dst                     \* assert_not_pending
       \/ ~marker /\ dst \in {"part", "copy", "own"} /\ To("prove") /\ UNCHANGED dst
       \/ ~marker /\ dst = "empty" /\ To("inplace") /\ UNCHANGED dst
       \/ ~marker /\ dst = "none" /\ To("mark") /\ UNCHANGED dst
_pending_copy ==
    /\ pc = "mark"
    /\ IF marker THEN Fail /\ UNCHANGED marker ELSE To("create") /\ marker' = TRUE
    /\ UNCHANGED <<dst, stage, carrier, kept, made, sure, Rows, Rest>>
\* O_EXCL: a name that appeared since is reused, or the copy is given up.
_copy_new_file ==
    /\ pc = "create"
    /\ IF dst = "none" THEN dst' = "part" /\ made' = TRUE /\ To("write") /\ UNCHANGED marker
       ELSE /\ marker' = FALSE /\ UNCHANGED <<dst, made>>
            /\ IF dst = "empty" THEN Fail ELSE To("prove")
    /\ UNCHANGED <<stage, carrier, kept, sure, Rows, Rest>>
\* The bytes go through the descriptor, whatever is at the name by now.
_write_all ==
    /\ pc = "write"
    /\ \/ To("verify") /\ dst' = IF dst = "part" THEN "copy" ELSE dst
       \/ To("undo") /\ UNCHANGED dst                          \* an error or a changed source
    /\ UNCHANGED <<marker, stage, carrier, kept, made, sure, Rows, Rest>>
fingerprint ==
    /\ pc = "verify" /\ (IF dst = "copy" THEN To("prove") ELSE To("undo"))
    /\ UNCHANGED <<Disk, made, sure, Rows, Rest>>

\* A volume that is there is reused, one that is not is merged out of sight.
_import_suwayomi_volume_result ==
    /\ kind = "volume" /\ Begin /\ UNCHANGED dst
    /\ IF dst \in {"part", "copy", "own"} THEN To("prove") ELSE To("assemble")
_merge_into ==
    /\ pc = "assemble"
    /\ \/ stage' = TRUE /\ To("publish")
       \/ Fail /\ UNCHANGED stage
    /\ UNCHANGED <<dst, marker, carrier, kept, made, sure, Rows, Rest>>
_publish_absent_stage ==
    /\ pc = "publish"
    /\ To("dispose")
    /\ IF dst = "none" THEN dst' = "copy" /\ made' = TRUE ELSE UNCHANGED <<dst, made>>
    /\ UNCHANGED <<marker, stage, carrier, kept, sure, Rows, Rest>>
_dispose_carrier ==
    /\ pc = "dispose" /\ stage' = FALSE /\ (IF made THEN To("prove") ELSE Fail)
    /\ UNCHANGED <<dst, marker, carrier, kept, made, sure, Rows, Rest>>

\* Without merging, the chapters of a volume are copied where they are missing.
CopySplit ==
    /\ kind = "split" /\ Begin
    /\ UNCHANGED dst /\ (IF dst = "none" THEN To("inplace") ELSE To("prove"))
\* shutil.copy2 writes over whatever is at the name; an error leaves it cut off.
copy2 ==
    /\ pc = "inplace" /\ dst' = "part" /\ legacy' = TRUE /\ To("copying")
    /\ UNCHANGED <<marker, stage, carrier, kept, made, sure, row, torn, evidence, Rest>>
CopiedInPlace ==
    /\ pc = "copying"
    /\ \/ To("prove") /\ dst' = IF dst = "part" THEN "copy" ELSE dst
       \/ Fail /\ UNCHANGED dst
    /\ UNCHANGED <<marker, stage, carrier, kept, made, sure, Rows, Rest>>

(***************************************************************************)
(* Evidence, the transaction and what follows it.                           *)
(***************************************************************************)
_chapter_ownership_evidence ==
    /\ pc = "prove" /\ To("commit") /\ sure' = (made /\ dst = "copy")
    /\ UNCHANGED <<Disk, made, Rows, Rest>>
\* Assembled volumes stay at their name when the transaction fails.
_complete_suwayomi_job_files ==
    /\ pc = "commit"
    /\ \/ /\ row' = "downloaded" /\ torn' = (dst = "part") /\ evidence' = sure /\ To("retire")
          /\ UNCHANGED legacy
       \/ UNCHANGED Rows /\ (IF kind = "chapter" /\ made THEN To("undo") ELSE Fail)
    /\ UNCHANGED <<Disk, made, sure, Rest>>
retire_pending ==
    /\ pc = "retire" /\ To("check")
    /\ marker' \in (IF made /\ kind = "chapter" THEN {FALSE, marker} ELSE {marker})
    /\ UNCHANGED <<dst, stage, carrier, kept, made, sure, Rows, Rest>>
same_file ==
    /\ pc = "check" /\ Fail /\ evidence' = (evidence /\ dst = "copy")
    /\ UNCHANGED <<Disk, made, legacy, sure, row, torn, Rest>>

(***************************************************************************)
(* The rollback: capture first, then look.                                  *)
(***************************************************************************)
_remove_captured ==
    /\ pc = "undo"
    /\ IF dst = "none" THEN To("kept") /\ UNCHANGED <<dst, carrier>>
       ELSE To("captured") /\ carrier' = dst /\ dst' = "none"
    /\ UNCHANGED <<marker, stage, kept, made, sure, Rows, Rest>>
_unlink_created ==
    /\ pc = "captured"
    /\ IF carrier \in {"part", "copy"}
       THEN carrier' = "none" /\ marker' = FALSE /\ Fail /\ UNCHANGED dst
       ELSE IF dst = "none" THEN dst' = carrier /\ carrier' = "none" /\ To("kept") /\ UNCHANGED marker
       ELSE To("kept") /\ UNCHANGED <<dst, carrier, marker>>
    /\ UNCHANGED <<stage, kept, made, sure, Rows, Rest>>
retain_pending ==
    /\ pc = "kept" /\ marker' = TRUE /\ Fail /\ kept' = Left /\ carrier' = "none"
    /\ UNCHANGED <<dst, stage, made, sure, Rows, Rest>>

Stop ==
    /\ pc # "idle" /\ stops < MaxStops /\ stops' = stops + 1 /\ To("idle")
    /\ kept' = Left /\ carrier' = "none"
    /\ UNCHANGED <<kind, dst, marker, stage, made, sure, Rows, foreign>>
\* Others add, replace or remove a file at the name; nobody touches ours in
\* place or what is private.
Foreign ==
    /\ foreign < MaxForeign /\ foreign' = foreign + 1
    /\ dst' \in {"none", "own"} \ {dst}
    /\ UNCHANGED <<kind, marker, stage, carrier, kept, Rows, pc, made, sure, stops>>
\* The item is wanted again; its file is what it is.
MarkWanted ==
    /\ row = "downloaded" /\ pc = "idle" /\ row' = "open" /\ torn' = FALSE
    /\ UNCHANGED <<kind, Disk, evidence, pc, made, legacy, sure, stops, foreign>>

Unit ==
    \/ _import_suwayomi_chapter_copy \/ _pending_copy \/ _copy_new_file \/ _write_all
    \/ fingerprint \/ _import_suwayomi_volume_result \/ _merge_into \/ _publish_absent_stage
    \/ _dispose_carrier \/ CopySplit \/ copy2 \/ CopiedInPlace \/ _chapter_ownership_evidence
    \/ _complete_suwayomi_job_files \/ retire_pending \/ same_file
    \/ _remove_captured \/ _unlink_created \/ retain_pending
Next == Unit \/ Stop \/ Foreign \/ MarkWanted
Spec == Init /\ [][Next]_vars

-----------------------------------------------------------------------------
\* A file that was cut off in the middle, by an error or the end of the process,
\* is never taken for the chapter or the volume by a later attempt, because its
\* marker outlives it.  (An empty placeholder and the chapters of an unmerged
\* volume are copied in place without a marker, and a cut off one is taken.)
NoTornFile == torn => legacy

\* What others put at the name survives every step, at the name or in a carrier
\* that is kept for review; only a copy in place writes over it.
Strangers == Left + IF dst = "own" THEN 1 ELSE 0
StrangersKept == Unit /\ pc # "inplace" => Strangers' = Strangers
=============================================================================
