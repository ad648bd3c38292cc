----------------------------- MODULE SeriesBin -----------------------------
(***************************************************************************)
(* The recycle bin: series that are deleted, restored and purged           *)
(* (routers/series_.py, tasks.py, routers/api_v1.py), and the folders that  *)
(* are adopted as a series (library_scan.py).                               *)
(*                                                                         *)
(* All the series of the model live in one library folder, with one volume  *)
(* file at its managed name: the case where their operations meet.  An      *)
(* import stands for everything that fences a purge: an importing or leased *)
(* row, an active publication, deletion, rescan operation or quarantine.    *)
(***************************************************************************)
EXTENDS Naturals, FiniteSets

CONSTANTS Series, MaxStops

VARIABLES
    ser,      \* the row: "none", "active" or "binned" (deleted_at is set)
    rec,      \* the series whose volumes.import_path names the file
    imp,      \* an import of each series: "no", "importing" or "published"
    file,     \* the volume file is in the folder
    purge,    \* the purging task
    adopt,    \* the adopter (one at a time: thread and process lock)
    exposed,  \* series whose record may have lost its file, see Exposes
    kept,     \* a purge left the file behind: asked to, or stopped
    stops
vars == <<ser, rec, imp, file, purge, adopt, exposed, kept, stops>>

Idle == [pc |-> "idle", todo |-> {}, rm |-> FALSE, takes |-> FALSE]
NoAdopter == [pc |-> "idle", saw |-> FALSE]

TypeOK ==
    /\ ser \in [Series -> {"none", "active", "binned"}]
    /\ rec \subseteq Series /\ exposed \subseteq Series
    /\ imp \in [Series -> {"no", "importing", "published"}]
    /\ purge \in [pc : {"idle", "listed", "guarded", "committed"}, todo : SUBSET Series,
                  rm : BOOLEAN, takes : BOOLEAN]
    /\ adopt \in [pc : {"idle", "inventory"}, saw : BOOLEAN]

Init ==
    /\ ser \in {f \in [Series -> {"none", "active"}] :
                  Cardinality({s \in Series : f[s] = "active"}) = 1}
    /\ rec = {} /\ imp = [s \in Series |-> "no"] /\ file \in BOOLEAN
    /\ purge = Idle /\ adopt = NoAdopter /\ exposed = {} /\ kept = file /\ stops = 0

Active == {s \in Series : ser[s] = "active"}
Binned == {s \in Series : ser[s] = "binned"}
\* Mutation of LockFree: the lock is released before the purged files are removed.
LockFreeOfPurges == \A s \in Series : imp[s] # "published"
\* The file-mutation lock has one holder: an import that has published and not
\* yet committed, or a purge that removes files.
LockFree == /\ \A s \in Series : imp[s] # "published"
            /\ ~(purge.rm /\ purge.pc \in {"guarded", "committed"})

(***************************************************************************)
(* Rows.                                                                    *)
(***************************************************************************)
\* A new series is compared with the active ones only; its folder is named after
\* its title, whoever else uses it.
add_series(s) ==
    /\ ser[s] = "none" /\ ser' = [ser EXCEPT ![s] = "active"]
    /\ UNCHANGED <<rec, imp, file, purge, adopt, exposed, kept, stops>>

delete_series(s) ==
    /\ ser[s] = "active" /\ ser' = [ser EXCEPT ![s] = "binned"]
    /\ UNCHANGED <<rec, imp, file, purge, adopt, exposed, kept, stops>>

restore_series(s) ==
    /\ ser[s] = "binned" /\ ser' = [ser EXCEPT ![s] = "active"]
    /\ UNCHANGED <<rec, imp, file, purge, adopt, exposed, kept, stops>>

recycle_bin_restore_all ==
    /\ Cardinality(Binned) > 1
    /\ ser' = [s \in Series |-> IF ser[s] = "binned" THEN "active" ELSE ser[s]]
    /\ UNCHANGED <<rec, imp, file, purge, adopt, exposed, kept, stops>>

(***************************************************************************)
(* What the other tasks do with the file.                                   *)
(***************************************************************************)
\* Queue rows of a binned series are still imported.
import_start(s) ==
    /\ ser[s] # "none" /\ imp[s] = "no" /\ imp' = [imp EXCEPT ![s] = "importing"]
    /\ UNCHANGED <<ser, rec, file, purge, adopt, exposed, kept, stops>>

import_publish(s) ==
    /\ imp[s] = "importing" /\ LockFree
    /\ imp' = [imp EXCEPT ![s] = "published"] /\ file' = TRUE
    /\ kept' = IF file THEN kept ELSE FALSE
    /\ UNCHANGED <<ser, rec, purge, adopt, exposed, stops>>

\* The rows of a series that is gone are not written.
import_commit(s) ==
    /\ imp[s] = "published" /\ imp' = [imp EXCEPT ![s] = "no"]
    /\ rec' = IF ser[s] = "none" THEN rec ELSE rec \cup {s}
    /\ exposed' = IF rec' # {} /\ rec' # {s} THEN exposed \cup rec' ELSE exposed \ {s}
    /\ UNCHANGED <<ser, file, purge, adopt, kept, stops>>

\* A rescan of an active series records what it finds, under the lock.
rescan_series(s) ==
    /\ ser[s] = "active" /\ imp[s] = "no" /\ LockFree
    /\ rec' = IF file THEN rec \cup {s} ELSE rec \ {s}
    /\ exposed' = IF rec' # {} /\ rec' # {s} THEN exposed \cup rec' ELSE exposed \ {s}
    /\ UNCHANGED <<ser, imp, file, purge, adopt, kept, stops>>

(***************************************************************************)
(* Adoption: an inventory outside SQLite, then one write transaction.       *)
(***************************************************************************)
_mapping_exists == Active # {}
adopt_inventory ==
    /\ adopt.pc = "idle" /\ ~_mapping_exists
    /\ adopt' = [pc |-> "inventory", saw |-> file]
    /\ UNCHANGED <<ser, rec, imp, file, purge, exposed, kept, stops>>

\* The adopted series takes a row of its own for a file that another series still
\* records, or that a purge is about to remove, or that is gone by now.
Exposes == rec # {} \/ purge.pc = "committed" \/ ~file
adopt_commit(s) ==
    /\ adopt.pc = "inventory" /\ ser[s] = "none" /\ ~_mapping_exists
    /\ adopt' = NoAdopter /\ ser' = [ser EXCEPT ![s] = "active"]
    /\ rec' = IF adopt.saw THEN rec \cup {s} ELSE rec
    /\ exposed' = IF adopt.saw /\ Exposes THEN exposed \cup rec' ELSE exposed
    /\ UNCHANGED <<imp, file, purge, kept, stops>>

adopt_refused ==
    /\ adopt.pc = "inventory" /\ _mapping_exists /\ adopt' = NoAdopter
    /\ UNCHANGED <<ser, rec, imp, file, purge, exposed, kept, stops>>

(***************************************************************************)
(* Purging: the button and the emptied bin remove files, the reaper when it *)
(* is configured to.  The list is read once; each series is then purged in  *)
(* a write transaction of its own, and its files after the commit.          *)
(***************************************************************************)
purge_listed(rm) ==
    /\ purge.pc = "idle" /\ Binned # {}
    /\ \E due \in SUBSET Binned \ {{}} :
          purge' = [Idle EXCEPT !.pc = "listed", !.todo = due, !.rm = rm]
    /\ UNCHANGED <<ser, rec, imp, file, adopt, exposed, kept, stops>>

\* Without the lock the series is reported as busy and left alone.
file_mutation_guard ==
    /\ purge.pc = "listed" /\ purge.todo # {}
    /\ IF purge.rm => LockFree THEN purge' = [purge EXCEPT !.pc = "guarded"]
       ELSE \E s \in purge.todo : purge' = [purge EXCEPT !.todo = @ \ {s}]
    /\ UNCHANGED <<ser, rec, imp, file, adopt, exposed, kept, stops>>

Eligible(s) == ser[s] = "binned" /\ imp[s] = "no"
_prepare_hard_delete_series(s) ==
    /\ purge.pc = "guarded" /\ s \in purge.todo
    /\ IF Eligible(s)
       THEN /\ purge' = [purge EXCEPT !.pc = "committed", !.todo = @ \ {s},
                                      !.takes = purge.rm /\ s \in rec]
            /\ ser' = [ser EXCEPT ![s] = "none"] /\ rec' = rec \ {s}
            /\ exposed' = exposed \ {s} /\ kept' = (kept \/ (~purge.rm /\ s \in rec))
       ELSE /\ purge' = [purge EXCEPT !.pc = "listed", !.todo = @ \ {s}]
            /\ UNCHANGED <<ser, rec, exposed, kept>>
    /\ UNCHANGED <<imp, file, adopt, stops>>

\* Files in an unproven claim namespace stay; so do those outside the root.
_remove_hard_delete_files(proven) ==
    /\ purge.pc = "committed"
    /\ purge' = [purge EXCEPT !.pc = "listed", !.takes = FALSE]
    /\ file' = (file /\ ~(purge.takes /\ proven))
    /\ kept' = (kept \/ (purge.takes /\ ~proven))
    /\ UNCHANGED <<ser, rec, imp, adopt, exposed, stops>>

purge_done ==
    /\ purge.pc = "listed" /\ purge.todo = {} /\ purge' = Idle
    /\ UNCHANGED <<ser, rec, imp, file, adopt, exposed, kept, stops>>

\* The journals of imports survive a restart; a purge and an adopter do not.
restart ==
    /\ stops < MaxStops /\ stops' = stops + 1
    /\ purge' = Idle /\ adopt' = NoAdopter
    /\ kept' = (kept \/ (purge.pc = "committed" /\ purge.takes))
    /\ UNCHANGED <<ser, rec, imp, file, exposed>>

Next ==
    \/ \E s \in Series : \/ add_series(s) \/ delete_series(s) \/ restore_series(s)
                         \/ import_start(s) \/ import_publish(s) \/ import_commit(s)
                         \/ rescan_series(s) \/ adopt_commit(s)
                         \/ _prepare_hard_delete_series(s)
    \/ recycle_bin_restore_all \/ adopt_inventory \/ adopt_refused
    \/ \E rm \in BOOLEAN : purge_listed(rm)
    \/ file_mutation_guard \/ \E proven \in BOOLEAN : _remove_hard_delete_files(proven)
    \/ purge_done \/ restart
Spec == Init /\ [][Next]_vars

(***************************************************************************)
(* Properties.                                                              *)
(***************************************************************************)
\* A series that records the file has it, as long as the record was made by an
\* import or a rescan and no other series recorded the same path: no purge, of
\* whatever list read earlier, takes the file of a series that was restored,
\* added again or imported meanwhile.
RecordedFileKept ==
    rec \subseteq exposed \/ file

\* A file in the folder belongs to a series or an import, unless a purge left it:
\* a purge never removes the rows under an import that is still to publish.
NoOrphanFile ==
    \/ ~file \/ kept \/ rec # {} \/ purge.takes
    \/ \E s \in Series : imp[s] = "published" /\ ser[s] # "none"
=============================================================================
