--------------------------- MODULE RescanReconcile ---------------------------
(***************************************************************************)
(* rescan.py: one rescan of a series compares its folder with its rows.     *)
(*                                                                         *)
(* The rows are copied in one transaction (the snapshot), the folder is     *)
(* walked and observed twice under the file-mutation lock, and one write    *)
(* transaction applies what the two agree on, each row guarded by all the   *)
(* values of its snapshot.  The series has one volume, one chapter of it    *)
(* and one complete pack; imports, deletions, grabs, edits and users change *)
(* the rows and the folder in between.                                      *)
(***************************************************************************)
EXTENDS Naturals

CONSTANT MaxChanges    \* bound: changes made by others

VARIABLES
    vol,       \* the numbered volume: [st, path, direct]; path: import_path is
               \* recorded; direct: none is, and its client is Suwayomi
    chap,      \* its chapter: [st, path, mon], path "none", "loose" or "vol"
    pack,      \* the row of the complete pack, "imported" with a recorded path
    context,   \* title, year and chapter map of the series: a version
    deleted,   \* a deletion of the volume file is completed in the journal
    owned,     \* no other row records the path of the volume file
    fs,        \* [vol, loose, pack]: what is at the managed names and the pack's
    fence,     \* an import, deletion, quarantine or rescan operation is active
    pc, snap, inv,
    quiet,     \* nobody changed anything since the snapshot
    changes
vars == <<vol, chap, pack, context, deleted, owned, fs, fence, pc, snap, inv, quiet, changes>>
rows == <<vol, chap, pack, context, deleted, owned>>

Status == {"wanted", "grabbed", "downloaded"}
Volume == [st : Status \cup {"absent"}, path : BOOLEAN, direct : BOOLEAN, v : Nat]
Chapter == [st : Status, path : {"none", "loose", "vol"}, mon : BOOLEAN, v : Nat]
\* "odd": present and not provable (a link, an empty file, an alias of another
\* row); "twin": a second name of the volume file; "alias": one of the volume
\* file that a deletion has removed.
Folder == [vol : {"none", "file", "odd"}, loose : {"none", "file", "twin", "alias"},
           pack : BOOLEAN]
TypeOK ==
    /\ vol \in Volume /\ chap \in Chapter /\ fs \in Folder
    /\ pack \in {"none", "grabbed", "downloaded", "imported"} /\ context \in Nat
    /\ pc \in {"idle", "snapped", "observed", "validated", "done"}

None == [none |-> TRUE]
Init ==
    /\ vol \in [st : {"absent", "wanted"}, path : {FALSE}, direct : {FALSE}, v : {0}]
               \cup [st : {"grabbed"}, path : {FALSE}, direct : BOOLEAN, v : {0}]
               \cup [st : {"downloaded"}, path : {FALSE}, direct : BOOLEAN, v : {0}]
               \cup [st : {"downloaded"}, path : {TRUE}, direct : {FALSE}, v : {0}]
    /\ chap \in [st : {"wanted"}, path : {"none"}, mon : BOOLEAN, v : {0}]
                \cup [st : {"downloaded"}, path : {"loose", "vol"}, mon : BOOLEAN, v : {0}]
    /\ chap.path = "vol" => vol.path
    /\ pack \in {"none", "grabbed", "imported"} /\ context = 0 /\ deleted = FALSE /\ owned \in BOOLEAN
    /\ fs \in Folder /\ fence = FALSE /\ fs.pack = (pack = "imported")
    /\ fs.loose # "alias" /\ (fs.loose = "twin" => fs.vol = "file")
    /\ pc = "idle" /\ snap = None /\ inv = None /\ quiet = TRUE /\ changes = 0

(***************************************************************************)
(* What is observed in the folder.                                          *)
(***************************************************************************)
snapshot_series_rescan ==
    /\ pc = "idle" /\ pc' = "snapped" /\ quiet' = TRUE
    /\ snap' = [vol |-> vol, chap |-> chap, pack |-> pack, context |-> context,
                deleted |-> deleted]
    /\ UNCHANGED <<rows, fs, fence, inv, changes>>

Claims == snap.vol.st = "downloaded" /\ snap.vol.path
\* A recorded file is present, absent, or proves nothing.
_recorded_volume_observations ==
    IF ~Claims \/ fs.vol = "odd" THEN "unknown"
    ELSE IF fs.vol = "file" THEN "present" ELSE "absent"
\* A name of a file whose deletion is completed is no chapter of its own, and
\* neither is a name of the volume file that is there.
_completed_volume_alias == fs.loose = "alias" /\ snap.deleted
_loose_chapter_inventory ==
    fs.loose \notin {"none", "twin"} /\ ~_completed_volume_alias
\* A chapter file that was recorded at its managed name is gone; the volume file
\* stands for it ("backed") when the chapter map assigns it and it is proven.
_missing_loose_observations ==
    IF _loose_chapter_inventory \/ snap.chap.st # "downloaded" \/ snap.chap.path # "loose"
       \/ fs.loose # "none" THEN "no"
    ELSE IF snap.vol.st # "downloaded" THEN "bare"
    ELSE IF Claims /\ fs.vol = "file" THEN "backed" ELSE "no"

\* Files of rows whose record proves nothing are left out of the inventory.
_quarantine_recorded_volume_files(i) ==
    LET unsafe == Claims /\ i.recorded = "unknown"
    IN  [i EXCEPT !.vol = @ /\ ~unsafe, !.any = (i.vol /\ ~unsafe) \/ i.loose]
Observed ==
    [vol |-> fs.vol # "none", any |-> fs.vol # "none" \/ fs.loose # "none",
     pack |-> fs.pack, loose |-> _loose_chapter_inventory, missing |-> _missing_loose_observations,
     recorded |-> _recorded_volume_observations]
build_filesystem_inventory ==
    /\ pc = "snapped" /\ pc' = "observed"
    /\ inv' = _quarantine_recorded_volume_files(Observed)
    /\ UNCHANGED <<rows, fs, fence, snap, quiet, changes>>

\* Absences and backing files count only if they are observed again.
Revalidated(i) ==
    [i EXCEPT !.missing = IF @ = _missing_loose_observations THEN @ ELSE "no",
              !.recorded = IF @ = _recorded_volume_observations THEN @ ELSE "unknown"]
rescan_series_folder ==
    /\ pc = "observed" /\ pc' = "validated"
    /\ inv' = _quarantine_recorded_volume_files(Revalidated(inv))
    /\ UNCHANGED <<rows, fs, fence, snap, quiet, changes>>

(***************************************************************************)
(* reconcile_series_inventory: the passes of one transaction, each on the   *)
(* rows the one before it left.                                             *)
(***************************************************************************)
\* A deletion that completed after the snapshot withdraws the evidence.
Evidence ==
    _quarantine_recorded_volume_files(
        IF deleted = snap.deleted THEN inv
        ELSE [inv EXCEPT !.loose = FALSE, !.missing = "no", !.recorded = "unknown"])
current_context == context = snap.context
current_parent == vol = snap.vol
uniquely_owned == owned
matching_backing(e) == e.missing = "backed" /\ e.recorded = "present" /\ current_parent
                       /\ current_context

ChapterPass(e) ==
    IF e.missing # "no" /\ current_context
    THEN IF chap = snap.chap /\ current_parent
            /\ (e.missing = "backed" => matching_backing(e) /\ uniquely_owned)
         THEN IF e.missing = "backed" THEN [chap EXCEPT !.st = "downloaded", !.path = "vol"]
              ELSE [chap EXCEPT !.st = "wanted", !.path = "none"]
         ELSE chap
    ELSE IF e.loose /\ chap = snap.chap /\ current_parent
         THEN [chap EXCEPT !.st = "downloaded", !.path = "loose"] ELSE chap

\* The file of the volume, or the one a chapter was just backed with.
FileOf(e, c) == e.vol \/ (c # chap /\ c.path = "vol")
\* Mutation of _reset_missing_volume: only in an empty folder.
_reset_missing_volume_empty(e, c) ==
    /\ snap.vol.st = "downloaded" /\ ~e.any /\ current_parent
    /\ IF snap.vol.path THEN e.recorded = "absent" /\ uniquely_owned /\ current_context
                        ELSE ~snap.vol.direct
\* A volume without a recorded path is what a direct download leaves.
_reset_missing_volume(e, c) ==
    /\ snap.vol.st = "downloaded" /\ ~FileOf(e, c) /\ current_parent
    /\ IF snap.vol.path THEN e.recorded = "absent" /\ uniquely_owned /\ current_context
                        ELSE ~snap.vol.direct
\* Mutation of _recover_volume: by the snapshot alone.
_recover_volume_unguarded(e, c) == snap.vol.st \in {"wanted", "grabbed"} /\ FileOf(e, c)
_recover_volume(e, c) ==
    snap.vol.st \in {"wanted", "grabbed"} /\ FileOf(e, c) /\ current_parent
VolumePass(e, c) ==
    IF _reset_missing_volume(e, c)
    THEN [vol EXCEPT !.st = "wanted", !.path = FALSE, !.direct = FALSE]
    ELSE IF _recover_volume(e, c) THEN [vol EXCEPT !.st = "downloaded", !.path = TRUE, !.direct = FALSE]
    ELSE vol
\* Monitored chapters without a file of their own follow a volume that was reset;
\* the trigger on volumes marks all the chapters of one that became downloaded.
_cascade_chapter_snapshot(e, c) ==
    IF _reset_missing_volume(e, c)
    THEN IF c = snap.chap /\ c.mon /\ ~e.loose /\ c.path \in {"none", "vol"}
         THEN [c EXCEPT !.st = "wanted"] ELSE c
    ELSE IF _recover_volume(e, c) THEN [c EXCEPT !.st = "downloaded"] ELSE c

\* The row of an imported pack goes with its path.
PackGone(e) == pack = "imported" /\ pack = snap.pack /\ ~e.pack
\* Any file of the folder confirms a complete pack, which then marks every
\* volume that the earlier passes left as they were.
PackConfirmed(e) ==
    /\ pack = snap.pack /\ pack = "grabbed" /\ e.any
    /\ e.recorded = "present" /\ ~e.loose => uniquely_owned /\ current_parent
                                             /\ current_context
_mark_volume_from_pack(e, v) ==
    IF PackConfirmed(e) /\ v = snap.vol /\ v.st # "absent"
    THEN [v EXCEPT !.st = "downloaded"] ELSE v
PackChapters(e, v, c) ==
    IF /\ PackConfirmed(e) /\ v = snap.vol /\ v.st # "absent"
       /\ v.st # "downloaded" \/ (c = snap.chap /\ c.mon)
    THEN [c EXCEPT !.st = "downloaded"] ELSE c
StubPass(e, v) ==
    IF e.vol /\ snap.vol.st = "absent" /\ v.st = "absent"
    THEN [v EXCEPT !.st = "downloaded", !.path = TRUE] ELSE v

reconcile_series_inventory ==
    /\ pc = "validated" /\ pc' = "done"
    /\ IF fence THEN UNCHANGED <<vol, chap, pack>>
       ELSE LET e == Evidence
                c1 == ChapterPass(e)
                v1 == VolumePass(e, c1)
                c2 == _cascade_chapter_snapshot(e, c1)
                v2 == _mark_volume_from_pack(e, v1)
            IN  /\ vol' = StubPass(e, v2)
                /\ chap' = PackChapters(e, v1, c2)
                /\ pack' = IF PackGone(e) THEN "none"
                           ELSE IF PackConfirmed(e) THEN "downloaded" ELSE pack
    /\ UNCHANGED <<context, deleted, owned, fs, fence, snap, inv, quiet, changes>>

\* The next rescan of the series starts from a new snapshot.
Again ==
    /\ pc = "done" /\ pc' = "idle" /\ snap' = None /\ inv' = None
    /\ UNCHANGED <<rows, fs, fence, quiet, changes>>

(***************************************************************************)
(* Everybody else.                                                          *)
(***************************************************************************)
Changed == changes < MaxChanges /\ changes' = changes + 1 /\ quiet' = FALSE
\* The file-mutation lock is free between the snapshot and the inventory.
LockFree == pc \in {"idle", "snapped", "done"}
\* What a second name of the volume file is when another file takes its place.
TwinBecomes(name) == IF fs.loose = "twin" THEN name ELSE fs.loose
\* A grab, for an upgrade or not, takes no lock.
Grab ==
    /\ Changed /\ vol.st \in {"wanted", "downloaded"}
    /\ \E direct \in BOOLEAN :
          /\ direct => ~vol.path
          /\ vol' = [vol EXCEPT !.st = "grabbed", !.direct = direct, !.v = @ + 1]
    /\ UNCHANGED <<chap, pack, context, deleted, owned, fs, fence, pc, snap, inv>>
\* An import publishes a file under the lock and then commits the row.
Import ==
    /\ Changed /\ LockFree /\ vol.st # "absent"
    /\ vol' = [vol EXCEPT !.st = "downloaded", !.path = TRUE, !.direct = FALSE, !.v = @ + 1]
    /\ chap' = [chap EXCEPT !.st = "downloaded"]
    /\ fs' = [fs EXCEPT !.vol = "file", !.loose = TwinBecomes("file")]
    /\ UNCHANGED <<pack, context, deleted, owned, fence, pc, snap, inv>>
\* A deletion removes the volume file and completes its journal row under the lock;
\* a second name that a user had made for the file is then an alias.
Delete ==
    /\ Changed /\ LockFree /\ vol.path /\ fs.vol = "file"
    /\ vol' = [vol EXCEPT !.st = "wanted", !.path = FALSE, !.direct = FALSE, !.v = @ + 1]
    /\ fs' = [fs EXCEPT !.vol = "none", !.loose = TwinBecomes("alias")]
    /\ deleted' = TRUE
    /\ UNCHANGED <<chap, pack, context, owned, fence, pc, snap, inv>>
\* An edit of the title, the year or the chapter map changes the context of a rescan.
Edit ==
    /\ Changed /\ context' = context + 1
    /\ UNCHANGED <<vol, chap, pack, deleted, owned, fs, fence, pc, snap, inv>>
Fence ==
    /\ Changed /\ fence' = ~fence
    /\ UNCHANGED <<rows, fs, pc, snap, inv>>
User ==
    /\ Changed /\ fs' \in Folder \ {fs} /\ (fs'.pack => fs.pack)
    /\ fs'.loose = "twin" => fs'.vol = "file"
    /\ fs'.loose = "alias" => fs.loose = "alias"
    /\ UNCHANGED <<rows, fence, pc, snap, inv>>

Next ==
    \/ snapshot_series_rescan \/ build_filesystem_inventory \/ rescan_series_folder
    \/ reconcile_series_inventory \/ Again
    \/ Grab \/ Import \/ Delete \/ Edit \/ Fence \/ User
Spec == Init /\ [][Next]_vars

-----------------------------------------------------------------------------
Reconciling == pc = "validated" /\ pc' = "done"
\* A volume that was grabbed, imported or deleted after the snapshot keeps what
\* that made of it: no pass works on a row that has changed since.
LaterChangeStands == Reconciling /\ vol # snap.vol /\ snap.vol.st # "absent" => vol' = vol

\* A rescan nobody interfered with ends with rows that agree with the folder: a
\* volume is downloaded from a file that is there, a file that proves its volume
\* or chapter is recorded, and a chapter is not downloaded from a name that is
\* gone, unless its volume has no proven file either (a second rescan).  (A
\* row another row shares its path with is left alone; a complete pack that is
\* confirmed marks volumes without looking for their files.)
RowsAgree ==
    pc = "done" /\ quiet /\ ~fence /\ owned =>
      /\ fs.vol = "file" => vol.st = "downloaded"
      /\ vol.st = "downloaded" /\ vol.path => fs.vol # "none" \/ pack # snap.pack
      /\ pack = "imported" => fs.pack
      /\ fs.loose = "file" => chap.st = "downloaded" /\ chap.path = "loose"
      /\ chap.st = "downloaded" /\ chap.path = "loose" /\ fs.loose = "none"
           => snap.vol.st = "downloaded" /\ (fs.vol = "file" => ~snap.vol.path)
=============================================================================
