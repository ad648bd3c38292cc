--------------------------- MODULE CatalogueProofs --------------------------
(***************************************************************************)
(* Proofs about the components of MCCatalogue, for every value of their    *)
(* constants.  A step of MCCatalogue is a step of one component and leaves *)
(* the variables of the others alone, so each component has an inductive   *)
(* invariant over its own variables; an action property is then a fact     *)
(* about one step from a state in which that invariant holds.              *)
(***************************************************************************)
EXTENDS MCCatalogue, FiniteSetTheorems, WellFoundedInduction, TLAPS

\* The least of a set of numbers is one of them (LibrarySettings.Lowest: the first row
\* of an ordered query).
LEMMA LowestIn ==
  ASSUME NEW S \in SUBSET Nat, S # {}
  PROVE  Settings!Lowest(S) \in S
  <1>1. PICK i \in S : \A j \in S : <<j, i>> \notin OpToRel(<, Nat)
    BY WFMin, NatLessThanWellFounded, Zenon
  <1>2. \A j \in S : ~(j < i)
    BY <1>1, Zenon DEF OpToRel
  <1>3. \A j \in S : i <= j
    BY <1>2
  <1> QED
    BY <1>3 DEF Settings!Lowest

-----------------------------------------------------------------------------
(* The recycle bin: one holder of the file-mutation lock, and records that *)
(* two series share.                                                       *)

\* The series of an import keeps its row, because a purge refuses it, and what an
\* import has published is there.
ImportsHere == \A s \in sb_Series :
    /\ sb_imp[s] # "no" => sb_ser[s] # "none"
    /\ sb_imp[s] = "published" => sb_file
\* While a purge that removes files holds the lock, no import has published.
PurgeAlone ==
    sb_purge.rm /\ sb_purge.pc \in {"guarded", "committed"} =>
      \A s \in sb_Series : sb_imp[s] # "published"
\* A purge takes a file between its commit and the removal only.
TakesCommitted == sb_purge.takes => sb_purge.rm /\ sb_purge.pc = "committed"
\* Whoever shares the record of the file with another may lose it, and so may who
\* records it while a purge is about to remove it.
SharersExposed ==
    /\ \A s, t \in sb_rec : s # t => s \in sb_exposed
    /\ sb_purge.takes => sb_rec \subseteq sb_exposed

BinTypes == Bin!TypeOK /\ sb_file \in BOOLEAN /\ sb_kept \in BOOLEAN
BinInv ==
    /\ BinTypes /\ Bin!RecordedFileKept /\ Bin!NoOrphanFile
    /\ ImportsHere /\ PurgeAlone /\ TakesCommitted /\ SharersExposed

LEMMA BinInitInv == ASSUME Bin!Init PROVE BinInv
  <1>1. BinTypes
    BY DEF Bin!Init, BinTypes, Bin!TypeOK, Bin!Idle, Bin!NoAdopter
  <1>2. /\ Bin!RecordedFileKept /\ Bin!NoOrphanFile
        /\ ImportsHere /\ PurgeAlone /\ TakesCommitted /\ SharersExposed
    BY DEF Bin!Init, Bin!RecordedFileKept, Bin!NoOrphanFile, ImportsHere, PurgeAlone,
       TakesCommitted, SharersExposed, Bin!Idle
  <1>q. QED
    BY <1>1, <1>2 DEF BinInv

\* Steps of the user and of the list a purge reads: the file, the records and what a
\* purge has committed stay.
LEMMA BinRowsStep ==
  ASSUME BinInv,
         \/ \E s \in sb_Series : Bin!add_series(s) \/ Bin!delete_series(s) \/ Bin!restore_series(s)
         \/ Bin!recycle_bin_restore_all
  PROVE  BinInv'
  <1> USE DEF BinInv, Bin!add_series, Bin!delete_series, Bin!restore_series,
          Bin!recycle_bin_restore_all
  <1>0. UNCHANGED <<sb_rec, sb_imp, sb_file, sb_purge, sb_adopt, sb_exposed, sb_kept, sb_stops>>
    OBVIOUS
  <1>1. BinTypes'
    BY <1>0 DEF BinTypes, Bin!TypeOK
  <1>2. \A s \in sb_Series : sb_ser[s] # "none" => sb_ser'[s] # "none"
    BY DEF BinTypes, Bin!TypeOK
  <1>3. ImportsHere' /\ Bin!NoOrphanFile'
    BY <1>0, <1>2 DEF ImportsHere, Bin!NoOrphanFile
  <1>4. Bin!RecordedFileKept' /\ PurgeAlone' /\ TakesCommitted' /\ SharersExposed'
    BY <1>0 DEF Bin!RecordedFileKept, PurgeAlone, TakesCommitted, SharersExposed
  <1>q. QED
    BY <1>1, <1>3, <1>4

LEMMA BinImportStep ==
  ASSUME BinInv, NEW s \in sb_Series,
         \/ Bin!import_start(s) \/ Bin!import_publish(s) \/ Bin!import_commit(s)
         \/ Bin!rescan_series(s)
  PROVE  BinInv'
  <1> USE DEF BinInv
  <1>0. UNCHANGED <<sb_ser, sb_purge, sb_adopt>>
    BY DEF Bin!import_start, Bin!import_publish, Bin!import_commit, Bin!rescan_series
  <1>1. BinTypes'
    BY <1>0 DEF BinTypes, Bin!TypeOK, Bin!import_start, Bin!import_publish,
       Bin!import_commit, Bin!rescan_series
  <1>2. TakesCommitted'
    BY <1>0 DEF TakesCommitted
  <1>3. CASE Bin!import_start(s)
    <2>1. UNCHANGED <<sb_rec, sb_file, sb_exposed, sb_kept>> /\ sb_ser[s] # "none"
      BY <1>3 DEF Bin!import_start
    <2>2. \A t \in sb_Series : /\ sb_imp[t] = "published" <=> sb_imp'[t] = "published"
                               /\ t # s => sb_imp'[t] = sb_imp[t]
      BY <1>3 DEF BinTypes, Bin!TypeOK, Bin!import_start
    <2>3. ImportsHere' /\ PurgeAlone'
      BY <1>0, <2>1, <2>2 DEF ImportsHere, PurgeAlone
    <2>q. QED
      BY <1>0, <1>1, <1>2, <2>1, <2>2, <2>3 DEF Bin!RecordedFileKept, Bin!NoOrphanFile,
         SharersExposed
  <1>4. CASE Bin!import_publish(s)
    <2>1. /\ UNCHANGED <<sb_rec, sb_exposed>> /\ sb_file'
          /\ sb_imp[s] = "importing" /\ sb_imp' = [sb_imp EXCEPT ![s] = "published"]
          /\ ~(sb_purge.rm /\ sb_purge.pc \in {"guarded", "committed"})
      BY <1>4 DEF Bin!import_publish, Bin!LockFree
    <2>2. sb_imp'[s] = "published" /\ sb_ser'[s] # "none"
      BY <1>0, <2>1 DEF BinTypes, Bin!TypeOK, ImportsHere
    <2>3. ImportsHere' /\ PurgeAlone'
      BY <1>0, <2>1, <2>2 DEF ImportsHere, PurgeAlone, BinTypes, Bin!TypeOK
    <2>q. QED
      BY <1>0, <1>1, <1>2, <2>1, <2>2, <2>3 DEF Bin!RecordedFileKept, Bin!NoOrphanFile,
         SharersExposed
  <1>5. CASE Bin!import_commit(s)
    <2>1. /\ sb_imp[s] = "published" /\ sb_imp' = [sb_imp EXCEPT ![s] = "no"]
          /\ sb_rec' = sb_rec \cup {s} /\ sb_file /\ UNCHANGED sb_file
          /\ sb_exposed' = IF sb_rec' # {s} THEN sb_exposed \cup sb_rec' ELSE sb_exposed \ {s}
      BY <1>5 DEF Bin!import_commit, ImportsHere
    <2>2. ~sb_purge.takes
      BY <2>1 DEF PurgeAlone, TakesCommitted
    <2>3. ImportsHere' /\ PurgeAlone'
      BY <1>0, <2>1 DEF ImportsHere, PurgeAlone, BinTypes, Bin!TypeOK
    <2>q. QED
      BY <1>0, <1>1, <1>2, <2>1, <2>2, <2>3 DEF Bin!RecordedFileKept, Bin!NoOrphanFile,
         SharersExposed
  <1>6. CASE Bin!rescan_series(s)
    <2>1. /\ sb_rec' = IF sb_file THEN sb_rec \cup {s} ELSE sb_rec \ {s}
          /\ UNCHANGED <<sb_file, sb_imp, sb_kept>>
          /\ sb_exposed' = IF sb_rec' # {} /\ sb_rec' # {s} THEN sb_exposed \cup sb_rec'
                           ELSE sb_exposed \ {s}
      BY <1>6 DEF Bin!rescan_series
    <2>2. ~sb_purge.takes
      BY <1>6 DEF Bin!rescan_series, Bin!LockFree, TakesCommitted
    <2>3. ImportsHere' /\ PurgeAlone'
      BY <1>0, <2>1 DEF ImportsHere, PurgeAlone
    <2>q. QED
      BY <1>0, <1>1, <1>2, <2>1, <2>2, <2>3 DEF Bin!RecordedFileKept, Bin!NoOrphanFile,
         SharersExposed
  <1>q. QED
    BY <1>3, <1>4, <1>5, <1>6

LEMMA BinAdoptStep ==
  ASSUME BinInv,
         Bin!adopt_inventory \/ Bin!adopt_refused \/ \E s \in sb_Series : Bin!adopt_commit(s)
  PROVE  BinInv'
  <1> USE DEF BinInv
  <1>0. UNCHANGED <<sb_imp, sb_file, sb_purge, sb_kept>>
    BY DEF Bin!adopt_inventory, Bin!adopt_refused, Bin!adopt_commit
  <1>1. BinTypes'
    <2>1. CASE Bin!adopt_inventory
      BY <1>0, <2>1 DEF BinTypes, Bin!TypeOK, Bin!adopt_inventory
    <2>2. CASE Bin!adopt_refused
      BY <1>0, <2>2 DEF BinTypes, Bin!TypeOK, Bin!adopt_refused, Bin!NoAdopter
    <2>3. ASSUME NEW s \in sb_Series, Bin!adopt_commit(s) PROVE BinTypes'
      BY <1>0, <2>3 DEF BinTypes, Bin!TypeOK, Bin!adopt_commit, Bin!NoAdopter
    <2>q. QED
      BY <2>1, <2>2, <2>3
  <1>2. \A s \in sb_Series : sb_ser[s] # "none" => sb_ser'[s] # "none"
    BY DEF BinTypes, Bin!TypeOK, Bin!adopt_inventory, Bin!adopt_refused, Bin!adopt_commit
  <1>3. ImportsHere' /\ PurgeAlone' /\ TakesCommitted'
    BY <1>0, <1>2 DEF ImportsHere, PurgeAlone, TakesCommitted
  <1>4. sb_rec \subseteq sb_rec'
    BY DEF Bin!adopt_inventory, Bin!adopt_refused, Bin!adopt_commit
  <1>5. Bin!NoOrphanFile'
    BY <1>0, <1>2, <1>4 DEF Bin!NoOrphanFile
  <1>6. CASE UNCHANGED <<sb_rec, sb_exposed>>
    BY <1>0, <1>1, <1>3, <1>5, <1>6 DEF Bin!RecordedFileKept, SharersExposed
  <1>7. ASSUME NEW s \in sb_Series, Bin!adopt_commit(s), sb_adopt.saw
        PROVE  BinInv'
    <2>1. /\ sb_rec' = sb_rec \cup {s}
          /\ sb_exposed' = IF Bin!Exposes THEN sb_exposed \cup sb_rec' ELSE sb_exposed
      BY <1>7 DEF Bin!adopt_commit
    <2>2. CASE Bin!Exposes
      BY <1>0, <1>1, <1>3, <1>5, <2>1, <2>2 DEF Bin!RecordedFileKept, SharersExposed
    <2>3. CASE ~Bin!Exposes
      <3>1. sb_rec' = {s} /\ sb_file' /\ ~sb_purge'.takes
        BY <1>0, <2>1, <2>3 DEF Bin!Exposes, TakesCommitted
      <3>q. QED
        BY <1>1, <1>3, <1>5, <3>1 DEF Bin!RecordedFileKept, SharersExposed
    <2>q. QED
      BY <2>2, <2>3
  <1>8. ASSUME NEW s \in sb_Series, Bin!adopt_commit(s), ~sb_adopt.saw
        PROVE  UNCHANGED <<sb_rec, sb_exposed>>
    BY <1>8 DEF Bin!adopt_commit
  <1>9. Bin!adopt_inventory \/ Bin!adopt_refused => UNCHANGED <<sb_rec, sb_exposed>>
    BY DEF Bin!adopt_inventory, Bin!adopt_refused
  <1>q. QED
    BY <1>6, <1>7, <1>8, <1>9

LEMMA BinPurgeStep ==
  ASSUME BinInv,
         \/ \E rm \in BOOLEAN : Bin!purge_listed(rm)
         \/ Bin!file_mutation_guard \/ Bin!purge_done \/ Bin!restart
  PROVE  BinInv'
  <1> USE DEF BinInv
  <1>0. UNCHANGED <<sb_ser, sb_rec, sb_imp, sb_file, sb_exposed>>
    BY DEF Bin!purge_listed, Bin!file_mutation_guard, Bin!purge_done, Bin!restart
  <1>1. sb_adopt' \in {sb_adopt, Bin!NoAdopter}
    BY DEF Bin!purge_listed, Bin!file_mutation_guard, Bin!purge_done, Bin!restart
  <1> DEFINE Untaken ==
    /\ sb_purge' \in [pc : {"idle", "listed", "guarded", "committed"},
                      todo : SUBSET sb_Series, rm : BOOLEAN, takes : BOOLEAN]
    /\ ~sb_purge'.takes /\ sb_purge'.pc # "committed"
    /\ sb_purge'.rm /\ sb_purge'.pc = "guarded" =>
         \A s \in sb_Series : sb_imp[s] # "published"
  <1>2. Untaken
    <2>1. ASSUME NEW rm \in BOOLEAN, Bin!purge_listed(rm) PROVE Untaken
      <3>1. PICK due \in SUBSET Bin!Binned :
              sb_purge' = [Bin!Idle EXCEPT !.pc = "listed", !.todo = due, !.rm = rm]
        BY <2>1 DEF Bin!purge_listed
      <3>2. due \subseteq sb_Series
        BY DEF Bin!Binned
      <3>q. QED
        BY <3>1, <3>2 DEF Bin!Idle
    <2>2. CASE Bin!file_mutation_guard
      <3>1. CASE sb_purge.rm => Bin!LockFree
        <4>1. sb_purge' = [sb_purge EXCEPT !.pc = "guarded"] /\ sb_purge.pc = "listed"
          BY <2>2, <3>1 DEF Bin!file_mutation_guard
        <4>q. QED
          BY <3>1, <4>1 DEF Bin!LockFree, BinTypes, Bin!TypeOK, TakesCommitted
      <3>2. CASE ~(sb_purge.rm => Bin!LockFree)
        <4>1. PICK s \in sb_purge.todo : sb_purge' = [sb_purge EXCEPT !.todo = @ \ {s}]
          BY <2>2, <3>2 DEF Bin!file_mutation_guard
        <4>2. sb_purge.pc = "listed"
          BY <2>2 DEF Bin!file_mutation_guard
        <4>q. QED
          BY <4>1, <4>2 DEF BinTypes, Bin!TypeOK, TakesCommitted
      <3>q. QED
        BY <3>1, <3>2
    <2>3. CASE Bin!purge_done \/ Bin!restart
      <3>1. sb_purge' = Bin!Idle
        BY <2>3 DEF Bin!purge_done, Bin!restart
      <3>q. QED
        BY <3>1 DEF Bin!Idle
    <2>4. (\E rm \in BOOLEAN : Bin!purge_listed(rm))
          \/ Bin!file_mutation_guard \/ Bin!purge_done \/ Bin!restart
      OBVIOUS
    <2>q. QED
      BY <2>1, <2>2, <2>3, <2>4
  <1>3. BinTypes'
    <2>1. sb_kept' \in BOOLEAN
      BY DEF Bin!purge_listed, Bin!file_mutation_guard, Bin!purge_done, Bin!restart,
         BinTypes, Bin!TypeOK
    <2>2. sb_adopt' \in [pc : {"idle", "inventory"}, saw : BOOLEAN]
      <3>1. CASE sb_adopt' = sb_adopt
        BY <3>1 DEF BinTypes, Bin!TypeOK
      <3>2. CASE sb_adopt' = Bin!NoAdopter
        BY <3>2 DEF Bin!NoAdopter
      <3>q. QED
        BY <1>1, <3>1, <3>2
    <2>3. (sb_file \in BOOLEAN)'
      BY <1>0 DEF BinTypes
    <2>4. Bin!TypeOK'
      BY <1>0, <1>2, <2>2 DEF BinTypes, Bin!TypeOK
    <2>q. QED
      BY <2>1, <2>3, <2>4 DEF BinTypes
  <1>4. sb_purge.takes \/ sb_kept => sb_kept'
    BY DEF Bin!purge_listed, Bin!file_mutation_guard, Bin!purge_done, Bin!restart, TakesCommitted
  <1>5. Bin!NoOrphanFile'
    BY <1>0, <1>4 DEF Bin!NoOrphanFile
  <1>q. QED
    BY <1>0, <1>2, <1>3, <1>5 DEF ImportsHere, PurgeAlone, TakesCommitted, SharersExposed,
       Bin!RecordedFileKept

\* The rows go first, then the file; only what nobody else may count on is taken.
LEMMA BinDeleteStep ==
  ASSUME BinInv,
         \/ \E s \in sb_Series : Bin!_prepare_hard_delete_series(s)
         \/ \E proven \in BOOLEAN : Bin!_remove_hard_delete_files(proven)
  PROVE  BinInv'
  <1> USE DEF BinInv
  <1>1. ASSUME NEW s \in sb_Series, Bin!_prepare_hard_delete_series(s), Bin!Eligible(s)
        PROVE  BinInv'
    <2>1. /\ sb_purge' = [sb_purge EXCEPT !.pc = "committed", !.todo = @ \ {s},
                                          !.takes = sb_purge.rm /\ s \in sb_rec]
          /\ sb_ser' = [sb_ser EXCEPT ![s] = "none"] /\ sb_rec' = sb_rec \ {s}
          /\ sb_exposed' = sb_exposed \ {s}
          /\ sb_kept' = (sb_kept \/ (~sb_purge.rm /\ s \in sb_rec))
          /\ UNCHANGED <<sb_imp, sb_file, sb_adopt>>
          /\ sb_purge.pc = "guarded" /\ sb_imp[s] = "no"
      BY <1>1 DEF Bin!_prepare_hard_delete_series, Bin!Eligible
    <2>2. /\ sb_purge'.pc = "committed" /\ sb_purge'.rm = sb_purge.rm
          /\ sb_purge'.takes = (sb_purge.rm /\ s \in sb_rec)
          /\ ~sb_purge.takes
      BY <2>1 DEF BinTypes, Bin!TypeOK, TakesCommitted
    <2>3. BinTypes'
      BY <2>1 DEF BinTypes, Bin!TypeOK
    <2>4. ImportsHere' /\ PurgeAlone' /\ TakesCommitted'
      BY <2>1, <2>2 DEF ImportsHere, PurgeAlone, TakesCommitted, BinTypes, Bin!TypeOK
    <2>5. SharersExposed' /\ Bin!RecordedFileKept'
      BY <2>1, <2>2 DEF SharersExposed, Bin!RecordedFileKept
    <2>6. Bin!NoOrphanFile'
      BY <2>1, <2>2 DEF Bin!NoOrphanFile, BinTypes, Bin!TypeOK
    <2>q. QED
      BY <2>3, <2>4, <2>5, <2>6
  <1>2. ASSUME NEW s \in sb_Series, Bin!_prepare_hard_delete_series(s), ~Bin!Eligible(s)
        PROVE  BinInv'
    <2>1. /\ sb_purge' = [sb_purge EXCEPT !.pc = "listed", !.todo = @ \ {s}]
          /\ sb_purge.pc = "guarded"
          /\ UNCHANGED <<sb_ser, sb_rec, sb_exposed, sb_kept, sb_imp, sb_file, sb_adopt>>
      BY <1>2 DEF Bin!_prepare_hard_delete_series
    <2>2. sb_purge'.pc = "listed" /\ ~sb_purge'.takes /\ ~sb_purge.takes
      BY <2>1 DEF BinTypes, Bin!TypeOK, TakesCommitted
    <2>3. BinTypes'
      BY <2>1 DEF BinTypes, Bin!TypeOK
    <2>q. QED
      BY <2>1, <2>2, <2>3 DEF ImportsHere, PurgeAlone, TakesCommitted, SharersExposed,
         Bin!RecordedFileKept, Bin!NoOrphanFile
  <1>3. ASSUME NEW proven \in BOOLEAN, Bin!_remove_hard_delete_files(proven)
        PROVE  BinInv'
    <2>1. /\ sb_purge' = [sb_purge EXCEPT !.pc = "listed", !.takes = FALSE]
          /\ sb_file' = (sb_file /\ ~(sb_purge.takes /\ proven))
          /\ sb_kept' = (sb_kept \/ (sb_purge.takes /\ ~proven))
          /\ UNCHANGED <<sb_ser, sb_rec, sb_imp, sb_adopt, sb_exposed>>
      BY <1>3 DEF Bin!_remove_hard_delete_files
    <2>2. sb_purge'.pc = "listed" /\ ~sb_purge'.takes
      BY <2>1 DEF BinTypes, Bin!TypeOK
    <2>3. BinTypes'
      BY <2>1 DEF BinTypes, Bin!TypeOK
    <2>4. ImportsHere'
      BY <2>1 DEF ImportsHere, PurgeAlone, TakesCommitted
    <2>5. PurgeAlone' /\ TakesCommitted' /\ SharersExposed'
      BY <2>1, <2>2 DEF PurgeAlone, TakesCommitted, SharersExposed
    <2>6. Bin!RecordedFileKept' /\ Bin!NoOrphanFile'
      BY <2>1, <2>2 DEF Bin!RecordedFileKept, Bin!NoOrphanFile, SharersExposed
    <2>q. QED
      BY <2>3, <2>4, <2>5, <2>6
  <1>q. QED
    BY <1>1, <1>2, <1>3

LEMMA BinNextInv == ASSUME BinInv, [Bin!Next]_sb_vars PROVE BinInv'
  <1>1. CASE UNCHANGED sb_vars
    BY <1>1 DEF BinInv, sb_vars, BinTypes, Bin!TypeOK, Bin!RecordedFileKept,
       Bin!NoOrphanFile, ImportsHere, PurgeAlone, TakesCommitted, SharersExposed
  <1>2. CASE Bin!Next
    BY <1>2, BinRowsStep, BinImportStep, BinAdoptStep, BinPurgeStep, BinDeleteStep DEF Bin!Next
  <1>q. QED
    BY <1>1, <1>2

(***************************************************************************)
(* FolderKept holds: no purge removes a file that a series records by an    *)
(* import or a rescan of its own, and none removes the rows under an        *)
(* import that is still to publish (series_._prepare_hard_delete_series,    *)
(* _remove_hard_delete_files).                                              *)
(***************************************************************************)
THEOREM FolderIsKept == Spec => []FolderKept
  <1>1. Init => BinInv
    BY BinInitInv DEF Init
  <1>2. BinInv /\ [Next]_vars => BinInv'
    <2>1. [Next]_vars => [Bin!Next]_sb_vars
      BY DEF Next, vars, CopyStep, BinStep, CatalogStep, SourcesStep, SettingsStep, MetadataStep
    <2>q. QED
      BY <2>1, BinNextInv
  <1>3. BinInv => FolderKept
    BY DEF BinInv, FolderKept
  <1>q. QED
    BY <1>1, <1>2, <1>3, PTL DEF Spec

-----------------------------------------------------------------------------
(* Copies: a file that is cut off has its marker.                          *)

CopyTypes == Copy!TypeOK /\ cc_kept \in Nat /\ cc_torn \in BOOLEAN /\ cc_legacy \in BOOLEAN
\* Copies under a marker are made of single chapters.
MarkedSteps ==
    cc_pc \in {"mark", "create", "write", "verify"} => cc_kind = "chapter"
\* The marker is there before the file is created, and as long as it is not whole;
\* no step that settles or retires is reached with a file that is cut off.
PartMarked ==
    /\ cc_pc = "create" => cc_marker
    /\ cc_dst = "part" /\ ~cc_legacy =>
         cc_marker /\ cc_kind = "chapter" /\ cc_pc \in {"idle", "write", "undo"}
\* A rollback has captured at most one file, and only between capture and the end.
CarrierHeld == cc_carrier # "none" => cc_pc \in {"captured", "kept"}

CopyInv == CopyTypes /\ Copy!NoTornFile /\ MarkedSteps /\ PartMarked /\ CarrierHeld

\* The type, and the parts that say what a cut off file and a carrier need.
LEMMA CopyInitInv == ASSUME Copy!Init PROVE CopyInv
  BY DEF Copy!Init, CopyInv, CopyTypes, Copy!TypeOK, Copy!Content, Copy!NoTornFile,
     MarkedSteps, PartMarked, CarrierHeld

\* The steps that make a file, of a chapter or of a volume.
LEMMA CopyChapterStep ==
  ASSUME CopyInv,
         \/ Copy!_import_suwayomi_chapter_copy \/ Copy!_pending_copy
         \/ Copy!_copy_new_file \/ Copy!_write_all
         \/ Copy!fingerprint \/ Copy!_import_suwayomi_volume_result
         \/ Copy!_merge_into \/ Copy!_publish_absent_stage
         \/ Copy!_dispose_carrier
  PROVE  CopyInv'
  <1> USE DEF Copy!To, Copy!Fail, Copy!Rows, Copy!Disk, Copy!Rest, Copy!Left,
      Copy!Begin
  <1>1. CASE Copy!_import_suwayomi_chapter_copy
    <2>1. CopyTypes'
      BY <1>1 DEF CopyInv, CopyTypes, Copy!TypeOK, Copy!Content, Copy!_import_suwayomi_chapter_copy
    <2>2. Copy!NoTornFile' /\ MarkedSteps' /\ PartMarked' /\ CarrierHeld'
      BY <1>1 DEF CopyInv, Copy!NoTornFile, MarkedSteps, PartMarked, CarrierHeld,
         Copy!_import_suwayomi_chapter_copy
    <2>q. QED
      BY <2>1, <2>2 DEF CopyInv
  <1>2. CASE Copy!_pending_copy
    <2>1. CopyTypes'
      <3>1. (cc_marker \in BOOLEAN /\ cc_stage \in BOOLEAN /\ cc_evidence \in BOOLEAN)'
        BY <1>2 DEF CopyInv, CopyTypes, Copy!TypeOK, Copy!_pending_copy
      <3>2. (cc_made \in BOOLEAN /\ cc_sure \in BOOLEAN /\ cc_torn \in BOOLEAN)'
        BY <1>2 DEF CopyInv, CopyTypes, Copy!TypeOK, Copy!_pending_copy
      <3>3. (cc_legacy \in BOOLEAN /\ cc_row \in {"open", "downloaded"} /\ cc_kept \in Nat)'
        BY <1>2 DEF CopyInv, CopyTypes, Copy!TypeOK, Copy!_pending_copy
      <3>4. (Copy!TypeOK!1 /\ Copy!TypeOK!4)'
        BY <1>2 DEF CopyInv, CopyTypes, Copy!TypeOK, Copy!Content, Copy!_pending_copy
      <3>q. QED
        BY <3>1, <3>2, <3>3, <3>4 DEF CopyTypes, Copy!TypeOK
    <2>2. Copy!NoTornFile' /\ MarkedSteps' /\ PartMarked' /\ CarrierHeld'
      BY <1>2 DEF CopyInv, Copy!NoTornFile, MarkedSteps, PartMarked, CarrierHeld,
         Copy!_pending_copy
    <2>q. QED
      BY <2>1, <2>2 DEF CopyInv
  <1>3. CASE Copy!_copy_new_file
    <2>1. CopyTypes'
      <3>1. (cc_marker \in BOOLEAN /\ cc_stage \in BOOLEAN /\ cc_evidence \in BOOLEAN)'
        BY <1>3 DEF CopyInv, CopyTypes, Copy!TypeOK, Copy!_copy_new_file
      <3>2. (cc_made \in BOOLEAN /\ cc_sure \in BOOLEAN /\ cc_torn \in BOOLEAN)'
        BY <1>3 DEF CopyInv, CopyTypes, Copy!TypeOK, Copy!_copy_new_file
      <3>3. (cc_legacy \in BOOLEAN /\ cc_row \in {"open", "downloaded"} /\ cc_kept \in Nat)'
        BY <1>3 DEF CopyInv, CopyTypes, Copy!TypeOK, Copy!_copy_new_file
      <3>4. (Copy!TypeOK!1 /\ Copy!TypeOK!4)'
        BY <1>3 DEF CopyInv, CopyTypes, Copy!TypeOK, Copy!Content, Copy!_copy_new_file
      <3>q. QED
        BY <3>1, <3>2, <3>3, <3>4 DEF CopyTypes, Copy!TypeOK
    <2>2. Copy!NoTornFile' /\ MarkedSteps' /\ PartMarked' /\ CarrierHeld'
      BY <1>3 DEF CopyInv, Copy!NoTornFile, MarkedSteps, PartMarked, CarrierHeld,
         Copy!_copy_new_file
    <2>q. QED
      BY <2>1, <2>2 DEF CopyInv
  <1>4. CASE Copy!_write_all
    <2>1. CopyTypes'
      BY <1>4 DEF CopyInv, CopyTypes, Copy!TypeOK, Copy!Content, Copy!_write_all
    <2>2. Copy!NoTornFile' /\ MarkedSteps' /\ PartMarked' /\ CarrierHeld'
      BY <1>4 DEF CopyInv, Copy!NoTornFile, MarkedSteps, PartMarked, CarrierHeld,
         Copy!_write_all
    <2>q. QED
      BY <2>1, <2>2 DEF CopyInv
  <1>5. CASE Copy!fingerprint
    <2>1. CopyTypes'
      BY <1>5 DEF CopyInv, CopyTypes, Copy!TypeOK, Copy!Content, Copy!fingerprint
    <2>2. Copy!NoTornFile' /\ MarkedSteps' /\ PartMarked' /\ CarrierHeld'
      BY <1>5 DEF CopyInv, Copy!NoTornFile, MarkedSteps, PartMarked, CarrierHeld,
         Copy!fingerprint
    <2>q. QED
      BY <2>1, <2>2 DEF CopyInv
  <1>6. CASE Copy!_import_suwayomi_volume_result
    <2>1. CopyTypes'
      BY <1>6 DEF CopyInv, CopyTypes, Copy!TypeOK, Copy!Content, Copy!_import_suwayomi_volume_result
    <2>2. Copy!NoTornFile' /\ MarkedSteps' /\ PartMarked' /\ CarrierHeld'
      BY <1>6 DEF CopyInv, Copy!NoTornFile, MarkedSteps, PartMarked, CarrierHeld,
         Copy!_import_suwayomi_volume_result
    <2>q. QED
      BY <2>1, <2>2 DEF CopyInv
  <1>7. CASE Copy!_merge_into
    <2>1. CopyTypes'
      <3>1. (cc_marker \in BOOLEAN /\ cc_stage \in BOOLEAN /\ cc_evidence \in BOOLEAN)'
        BY <1>7 DEF CopyInv, CopyTypes, Copy!TypeOK, Copy!_merge_into
      <3>2. (cc_made \in BOOLEAN /\ cc_sure \in BOOLEAN /\ cc_torn \in BOOLEAN)'
        BY <1>7 DEF CopyInv, CopyTypes, Copy!TypeOK, Copy!_merge_into
      <3>3. (cc_legacy \in BOOLEAN /\ cc_row \in {"open", "downloaded"} /\ cc_kept \in Nat)'
        BY <1>7 DEF CopyInv, CopyTypes, Copy!TypeOK, Copy!_merge_into
      <3>4. (Copy!TypeOK!1 /\ Copy!TypeOK!4)'
        BY <1>7 DEF CopyInv, CopyTypes, Copy!TypeOK, Copy!Content, Copy!_merge_into
      <3>q. QED
        BY <3>1, <3>2, <3>3, <3>4 DEF CopyTypes, Copy!TypeOK
    <2>2. Copy!NoTornFile' /\ MarkedSteps' /\ PartMarked' /\ CarrierHeld'
      BY <1>7 DEF CopyInv, Copy!NoTornFile, MarkedSteps, PartMarked, CarrierHeld,
         Copy!_merge_into
    <2>q. QED
      BY <2>1, <2>2 DEF CopyInv
  <1>8. CASE Copy!_publish_absent_stage
    <2>1. CopyTypes'
      <3>1. (cc_marker \in BOOLEAN /\ cc_stage \in BOOLEAN /\ cc_evidence \in BOOLEAN)'
        BY <1>8 DEF CopyInv, CopyTypes, Copy!TypeOK, Copy!_publish_absent_stage
      <3>2. (cc_made \in BOOLEAN /\ cc_sure \in BOOLEAN /\ cc_torn \in BOOLEAN)'
        BY <1>8 DEF CopyInv, CopyTypes, Copy!TypeOK, Copy!_publish_absent_stage
      <3>3. (cc_legacy \in BOOLEAN /\ cc_row \in {"open", "downloaded"} /\ cc_kept \in Nat)'
        BY <1>8 DEF CopyInv, CopyTypes, Copy!TypeOK, Copy!_publish_absent_stage
      <3>4. (Copy!TypeOK!1 /\ Copy!TypeOK!4)'
        BY <1>8 DEF CopyInv, CopyTypes, Copy!TypeOK, Copy!Content, Copy!_publish_absent_stage
      <3>q. QED
        BY <3>1, <3>2, <3>3, <3>4 DEF CopyTypes, Copy!TypeOK
    <2>2. Copy!NoTornFile' /\ MarkedSteps' /\ PartMarked' /\ CarrierHeld'
      BY <1>8 DEF CopyInv, Copy!NoTornFile, MarkedSteps, PartMarked, CarrierHeld,
         Copy!_publish_absent_stage
    <2>q. QED
      BY <2>1, <2>2 DEF CopyInv
  <1>9. CASE Copy!_dispose_carrier
    <2>1. CopyTypes'
      <3>1. (cc_marker \in BOOLEAN /\ cc_stage \in BOOLEAN /\ cc_evidence \in BOOLEAN)'
        BY <1>9 DEF CopyInv, CopyTypes, Copy!TypeOK, Copy!_dispose_carrier
      <3>2. (cc_made \in BOOLEAN /\ cc_sure \in BOOLEAN /\ cc_torn \in BOOLEAN)'
        BY <1>9 DEF CopyInv, CopyTypes, Copy!TypeOK, Copy!_dispose_carrier
      <3>3. (cc_legacy \in BOOLEAN /\ cc_row \in {"open", "downloaded"} /\ cc_kept \in Nat)'
        BY <1>9 DEF CopyInv, CopyTypes, Copy!TypeOK, Copy!_dispose_carrier
      <3>4. (Copy!TypeOK!1 /\ Copy!TypeOK!4)'
        BY <1>9 DEF CopyInv, CopyTypes, Copy!TypeOK, Copy!Content, Copy!_dispose_carrier
      <3>q. QED
        BY <3>1, <3>2, <3>3, <3>4 DEF CopyTypes, Copy!TypeOK
    <2>2. Copy!NoTornFile' /\ MarkedSteps' /\ PartMarked' /\ CarrierHeld'
      BY <1>9 DEF CopyInv, Copy!NoTornFile, MarkedSteps, PartMarked, CarrierHeld,
         Copy!_dispose_carrier
    <2>q. QED
      BY <2>1, <2>2 DEF CopyInv
  <1>q. QED
    BY <1>1, <1>2, <1>3, <1>4, <1>5, <1>6, <1>7, <1>8, <1>9

\* The copies in place, and the steps that prove and settle what is at the name.
LEMMA CopySettleStep ==
  ASSUME CopyInv,
         \/ Copy!CopySplit \/ Copy!copy2
         \/ Copy!CopiedInPlace \/ Copy!_chapter_ownership_evidence
         \/ Copy!_complete_suwayomi_job_files \/ Copy!retire_pending
         \/ Copy!same_file
  PROVE  CopyInv'
  <1> USE DEF Copy!To, Copy!Fail, Copy!Rows, Copy!Disk, Copy!Rest, Copy!Left,
      Copy!Begin
  <1>1. CASE Copy!CopySplit
    <2>1. CopyTypes'
      BY <1>1 DEF CopyInv, CopyTypes, Copy!TypeOK, Copy!Content, Copy!CopySplit
    <2>2. Copy!NoTornFile' /\ MarkedSteps' /\ PartMarked' /\ CarrierHeld'
      BY <1>1 DEF CopyInv, Copy!NoTornFile, MarkedSteps, PartMarked, CarrierHeld,
         Copy!CopySplit
    <2>q. QED
      BY <2>1, <2>2 DEF CopyInv
  <1>2. CASE Copy!copy2
    <2>1. CopyTypes'
      BY <1>2 DEF CopyInv, CopyTypes, Copy!TypeOK, Copy!Content, Copy!copy2
    <2>2. Copy!NoTornFile' /\ MarkedSteps' /\ PartMarked' /\ CarrierHeld'
      BY <1>2 DEF CopyInv, Copy!NoTornFile, MarkedSteps, PartMarked, CarrierHeld,
         Copy!copy2
    <2>q. QED
      BY <2>1, <2>2 DEF CopyInv
  <1>3. CASE Copy!CopiedInPlace
    <2>1. CopyTypes'
      BY <1>3 DEF CopyInv, CopyTypes, Copy!TypeOK, Copy!Content, Copy!CopiedInPlace
    <2>2. Copy!NoTornFile' /\ MarkedSteps' /\ PartMarked' /\ CarrierHeld'
      BY <1>3 DEF CopyInv, Copy!NoTornFile, MarkedSteps, PartMarked, CarrierHeld,
         Copy!CopiedInPlace
    <2>q. QED
      BY <2>1, <2>2 DEF CopyInv
  <1>4. CASE Copy!_chapter_ownership_evidence
    <2>1. CopyTypes'
      BY <1>4 DEF CopyInv, CopyTypes, Copy!TypeOK, Copy!Content, Copy!_chapter_ownership_evidence
    <2>2. Copy!NoTornFile' /\ MarkedSteps' /\ PartMarked' /\ CarrierHeld'
      BY <1>4 DEF CopyInv, Copy!NoTornFile, MarkedSteps, PartMarked, CarrierHeld,
         Copy!_chapter_ownership_evidence
    <2>q. QED
      BY <2>1, <2>2 DEF CopyInv
  <1>5. CASE Copy!_complete_suwayomi_job_files
    <2>1. CopyTypes'
      <3>1. (cc_marker \in BOOLEAN /\ cc_stage \in BOOLEAN /\ cc_evidence \in BOOLEAN)'
        BY <1>5 DEF CopyInv, CopyTypes, Copy!TypeOK, Copy!_complete_suwayomi_job_files
      <3>2. (cc_made \in BOOLEAN /\ cc_sure \in BOOLEAN /\ cc_torn \in BOOLEAN)'
        BY <1>5 DEF CopyInv, CopyTypes, Copy!TypeOK, Copy!_complete_suwayomi_job_files
      <3>3. (cc_legacy \in BOOLEAN /\ cc_row \in {"open", "downloaded"} /\ cc_kept \in Nat)'
        BY <1>5 DEF CopyInv, CopyTypes, Copy!TypeOK, Copy!_complete_suwayomi_job_files
      <3>4. (Copy!TypeOK!1 /\ Copy!TypeOK!4)'
        BY <1>5 DEF CopyInv, CopyTypes, Copy!TypeOK, Copy!Content, Copy!_complete_suwayomi_job_files
      <3>q. QED
        BY <3>1, <3>2, <3>3, <3>4 DEF CopyTypes, Copy!TypeOK
    <2>2. UNCHANGED <<cc_dst, cc_marker, cc_carrier, cc_kind>> /\ cc_pc = "commit"
      BY <1>5 DEF Copy!_complete_suwayomi_job_files
    <2>3. cc_pc' \in {"retire", "undo", "idle"} /\ (cc_legacy => cc_legacy')
      BY <1>5 DEF Copy!_complete_suwayomi_job_files
    <2>4. cc_torn' => cc_torn \/ cc_dst = "part"
      BY <1>5 DEF Copy!_complete_suwayomi_job_files
    <2>5. MarkedSteps' /\ PartMarked' /\ CarrierHeld' /\ Copy!NoTornFile'
      BY <2>2, <2>3, <2>4 DEF CopyInv, MarkedSteps, PartMarked, CarrierHeld, Copy!NoTornFile
    <2>q. QED
      BY <2>1, <2>5 DEF CopyInv
  <1>6. CASE Copy!retire_pending
    <2>1. CopyTypes'
      <3>1. (cc_marker \in BOOLEAN /\ cc_stage \in BOOLEAN /\ cc_evidence \in BOOLEAN)'
        BY <1>6 DEF CopyInv, CopyTypes, Copy!TypeOK, Copy!retire_pending
      <3>2. (cc_made \in BOOLEAN /\ cc_sure \in BOOLEAN /\ cc_torn \in BOOLEAN)'
        BY <1>6 DEF CopyInv, CopyTypes, Copy!TypeOK, Copy!retire_pending
      <3>3. (cc_legacy \in BOOLEAN /\ cc_row \in {"open", "downloaded"} /\ cc_kept \in Nat)'
        BY <1>6 DEF CopyInv, CopyTypes, Copy!TypeOK, Copy!retire_pending
      <3>4. (Copy!TypeOK!1 /\ Copy!TypeOK!4)'
        BY <1>6 DEF CopyInv, CopyTypes, Copy!TypeOK, Copy!Content, Copy!retire_pending
      <3>q. QED
        BY <3>1, <3>2, <3>3, <3>4 DEF CopyTypes, Copy!TypeOK
    <2>2. Copy!NoTornFile' /\ MarkedSteps' /\ PartMarked' /\ CarrierHeld'
      BY <1>6 DEF CopyInv, Copy!NoTornFile, MarkedSteps, PartMarked, CarrierHeld,
         Copy!retire_pending
    <2>q. QED
      BY <2>1, <2>2 DEF CopyInv
  <1>7. CASE Copy!same_file
    <2>1. CopyTypes'
      BY <1>7 DEF CopyInv, CopyTypes, Copy!TypeOK, Copy!Content, Copy!same_file
    <2>2. Copy!NoTornFile' /\ MarkedSteps' /\ PartMarked' /\ CarrierHeld'
      BY <1>7 DEF CopyInv, Copy!NoTornFile, MarkedSteps, PartMarked, CarrierHeld,
         Copy!same_file
    <2>q. QED
      BY <2>1, <2>2 DEF CopyInv
  <1>q. QED
    BY <1>1, <1>2, <1>3, <1>4, <1>5, <1>6, <1>7

\* The rollback, and what happens between the steps of a unit.
LEMMA CopyUndoStep ==
  ASSUME CopyInv,
         \/ Copy!_remove_captured \/ Copy!_unlink_created
         \/ Copy!retain_pending \/ Copy!Stop
         \/ Copy!Foreign \/ Copy!MarkWanted
  PROVE  CopyInv'
  <1> USE DEF Copy!To, Copy!Fail, Copy!Rows, Copy!Disk, Copy!Rest, Copy!Left,
      Copy!Begin
  <1>1. CASE Copy!_remove_captured
    <2>1. CopyTypes'
      BY <1>1 DEF CopyInv, CopyTypes, Copy!TypeOK, Copy!Content, Copy!_remove_captured
    <2>2. Copy!NoTornFile' /\ MarkedSteps' /\ PartMarked' /\ CarrierHeld'
      BY <1>1 DEF CopyInv, Copy!NoTornFile, MarkedSteps, PartMarked, CarrierHeld,
         Copy!_remove_captured
    <2>q. QED
      BY <2>1, <2>2 DEF CopyInv
  <1>2. CASE Copy!_unlink_created
    <2>1. CopyTypes'
      <3>1. (cc_marker \in BOOLEAN /\ cc_stage \in BOOLEAN /\ cc_evidence \in BOOLEAN)'
        BY <1>2 DEF CopyInv, CopyTypes, Copy!TypeOK, Copy!_unlink_created
      <3>2. (cc_made \in BOOLEAN /\ cc_sure \in BOOLEAN /\ cc_torn \in BOOLEAN)'
        BY <1>2 DEF CopyInv, CopyTypes, Copy!TypeOK, Copy!_unlink_created
      <3>3. (cc_legacy \in BOOLEAN /\ cc_row \in {"open", "downloaded"} /\ cc_kept \in Nat)'
        BY <1>2 DEF CopyInv, CopyTypes, Copy!TypeOK, Copy!_unlink_created
      <3>4. (Copy!TypeOK!1 /\ Copy!TypeOK!4)'
        BY <1>2 DEF CopyInv, CopyTypes, Copy!TypeOK, Copy!Content, Copy!_unlink_created
      <3>q. QED
        BY <3>1, <3>2, <3>3, <3>4 DEF CopyTypes, Copy!TypeOK
    <2>2. Copy!NoTornFile' /\ MarkedSteps' /\ PartMarked' /\ CarrierHeld'
      BY <1>2 DEF CopyInv, Copy!NoTornFile, MarkedSteps, PartMarked, CarrierHeld,
         Copy!_unlink_created
    <2>q. QED
      BY <2>1, <2>2 DEF CopyInv
  <1>3. CASE Copy!retain_pending
    <2>1. CopyTypes'
      BY <1>3 DEF CopyInv, CopyTypes, Copy!TypeOK, Copy!Content, Copy!retain_pending
    <2>2. Copy!NoTornFile' /\ MarkedSteps' /\ PartMarked' /\ CarrierHeld'
      BY <1>3 DEF CopyInv, Copy!NoTornFile, MarkedSteps, PartMarked, CarrierHeld,
         Copy!retain_pending
    <2>q. QED
      BY <2>1, <2>2 DEF CopyInv
  <1>4. CASE Copy!Stop
    <2>1. CopyTypes'
      BY <1>4 DEF CopyInv, CopyTypes, Copy!TypeOK, Copy!Content, Copy!Stop
    <2>2. Copy!NoTornFile' /\ MarkedSteps' /\ PartMarked' /\ CarrierHeld'
      BY <1>4 DEF CopyInv, Copy!NoTornFile, MarkedSteps, PartMarked, CarrierHeld,
         Copy!Stop
    <2>q. QED
      BY <2>1, <2>2 DEF CopyInv
  <1>5. CASE Copy!Foreign
    <2>1. CopyTypes'
      BY <1>5 DEF CopyInv, CopyTypes, Copy!TypeOK, Copy!Content, Copy!Foreign
    <2>2. Copy!NoTornFile' /\ MarkedSteps' /\ PartMarked' /\ CarrierHeld'
      BY <1>5 DEF CopyInv, Copy!NoTornFile, MarkedSteps, PartMarked, CarrierHeld,
         Copy!Foreign
    <2>q. QED
      BY <2>1, <2>2 DEF CopyInv
  <1>6. CASE Copy!MarkWanted
    <2>1. CopyTypes'
      <3>1. (cc_marker \in BOOLEAN /\ cc_stage \in BOOLEAN /\ cc_evidence \in BOOLEAN)'
        BY <1>6 DEF CopyInv, CopyTypes, Copy!TypeOK, Copy!MarkWanted
      <3>2. (cc_made \in BOOLEAN /\ cc_sure \in BOOLEAN /\ cc_torn \in BOOLEAN)'
        BY <1>6 DEF CopyInv, CopyTypes, Copy!TypeOK, Copy!MarkWanted
      <3>3. (cc_legacy \in BOOLEAN /\ cc_row \in {"open", "downloaded"} /\ cc_kept \in Nat)'
        BY <1>6 DEF CopyInv, CopyTypes, Copy!TypeOK, Copy!MarkWanted
      <3>4. (Copy!TypeOK!1 /\ Copy!TypeOK!4)'
        BY <1>6 DEF CopyInv, CopyTypes, Copy!TypeOK, Copy!Content, Copy!MarkWanted
      <3>q. QED
        BY <3>1, <3>2, <3>3, <3>4 DEF CopyTypes, Copy!TypeOK
    <2>2. Copy!NoTornFile' /\ MarkedSteps' /\ PartMarked' /\ CarrierHeld'
      BY <1>6 DEF CopyInv, Copy!NoTornFile, MarkedSteps, PartMarked, CarrierHeld,
         Copy!MarkWanted
    <2>q. QED
      BY <2>1, <2>2 DEF CopyInv
  <1>q. QED
    BY <1>1, <1>2, <1>3, <1>4, <1>5, <1>6

LEMMA CopyNextInv == ASSUME CopyInv, [Copy!Next]_cc_vars PROVE CopyInv'
  <1>1. CASE UNCHANGED cc_vars
    BY <1>1 DEF CopyInv, cc_vars, CopyTypes, Copy!TypeOK, Copy!NoTornFile, MarkedSteps,
       PartMarked, CarrierHeld
  <1>2. CASE Copy!Next
    BY <1>2, CopyChapterStep, CopySettleStep, CopyUndoStep DEF Copy!Next, Copy!Unit
  <1>q. QED
    BY <1>1, <1>2

\* A step of the unit moves a stranger's file to its carrier and back, or leaves it.
LEMMA CopyStrangersKept == ASSUME CopyInv, Copy!Next PROVE Copy!StrangersKept
  <1> SUFFICES ASSUME Copy!Unit, cc_pc # "inplace"
                PROVE  Copy!Strangers' = Copy!Strangers
    BY DEF Copy!StrangersKept
  <1> USE DEF Copy!To, Copy!Fail, Copy!Rows, Copy!Disk, Copy!Rest, Copy!Left,
      Copy!Begin, Copy!Strangers, CopyInv, CarrierHeld, CopyTypes
  <1>1. CASE Copy!_import_suwayomi_chapter_copy
    BY <1>1 DEF Copy!_import_suwayomi_chapter_copy
  <1>2. CASE Copy!_pending_copy
    BY <1>2 DEF Copy!_pending_copy
  <1>3. CASE Copy!_copy_new_file
    BY <1>3 DEF Copy!_copy_new_file
  <1>4. CASE Copy!_write_all
    BY <1>4 DEF Copy!_write_all
  <1>5. CASE Copy!fingerprint
    BY <1>5 DEF Copy!fingerprint
  <1>6. CASE Copy!_import_suwayomi_volume_result
    BY <1>6 DEF Copy!_import_suwayomi_volume_result
  <1>7. CASE Copy!_merge_into
    BY <1>7 DEF Copy!_merge_into
  <1>8. CASE Copy!_publish_absent_stage
    BY <1>8 DEF Copy!_publish_absent_stage
  <1>9. CASE Copy!_dispose_carrier
    BY <1>9 DEF Copy!_dispose_carrier
  <1>10. CASE Copy!CopySplit
    BY <1>10 DEF Copy!CopySplit
  <1>11. CASE Copy!CopiedInPlace
    BY <1>11 DEF Copy!CopiedInPlace
  <1>12. CASE Copy!_chapter_ownership_evidence
    BY <1>12 DEF Copy!_chapter_ownership_evidence
  <1>13. CASE Copy!_complete_suwayomi_job_files
    BY <1>13 DEF Copy!_complete_suwayomi_job_files
  <1>14. CASE Copy!retire_pending
    BY <1>14 DEF Copy!retire_pending
  <1>15. CASE Copy!same_file
    BY <1>15 DEF Copy!same_file
  <1>16. CASE Copy!_remove_captured
    BY <1>16 DEF Copy!_remove_captured
  <1>17. CASE Copy!_unlink_created
    BY <1>17 DEF Copy!_unlink_created
  <1>18. CASE Copy!retain_pending
    BY <1>18 DEF Copy!retain_pending
  <1>19. ~Copy!copy2
    BY DEF Copy!copy2
  <1>q. QED
    BY <1>1, <1>2, <1>3, <1>4, <1>5, <1>6, <1>7, <1>8, <1>9, <1>10,
       <1>11, <1>12, <1>13, <1>14, <1>15, <1>16, <1>17, <1>18, <1>19 DEF Copy!Unit

(***************************************************************************)
(* CopiesSafe holds: a file that was cut off is not settled as a chapter    *)
(* or a volume, unless it was copied in place, and no step of a unit loses  *)
(* a stranger's file (_import_suwayomi_chapter_copy, _remove_captured).     *)
(***************************************************************************)
THEOREM CopiesAreSafe == Spec => CopiesSafe
  <1>1. Init => CopyInv
    BY CopyInitInv DEF Init
  <1>0. [Next]_vars => [Copy!Next]_cc_vars
    BY DEF Next, vars, CopyStep, BinStep, CatalogStep, SourcesStep, SettingsStep, MetadataStep
  <1>2. CopyInv /\ [Next]_vars => CopyInv'
    BY <1>0, CopyNextInv
  <1>3. CopyInv /\ [Next]_vars =>
          [comp = "copy" => Copy!NoTornFile' /\ Copy!StrangersKept]_cc_vars
    <2>1. CopyInv' => Copy!NoTornFile'
      BY DEF CopyInv
    <2>q. QED
      BY <1>0, <1>2, <2>1, CopyStrangersKept
  <1>q. QED
    BY <1>1, <1>2, <1>3, PTL DEF Spec, CopiesSafe

-----------------------------------------------------------------------------
(* The catalogue: every mapped chapter of a series without a numbered      *)
(* special has a mainline row.                                             *)

VolumeRow == [st : Catalog!Status \cup {"absent"}, mon : BOOLEAN]
ChapterRow == [st : Catalog!Status \cup {"absent"}, mon : BOOLEAN,
               vol : Catalog!Volume \cup {Catalog!NoVolume}, end : Catalog!Chapter]
VolumeTable == [Catalog!Volume -> VolumeRow]
ChapterTable == [Catalog!Chapter -> ChapterRow]
MapTable == [Catalog!Chapter -> 0..sc_MaxVolume]

\* A chapter's volume is a row of vs.
Standing(vs, cs) == \A c \in Catalog!Chapter :
    cs[c].vol # Catalog!NoVolume => vs[cs[c].vol].st # "absent"
\* No range ends before it begins.
RangesRight(cs) == \A c \in Catalog!Chapter : c <= cs[c].end

CatalogInv == Catalog!TypeOK /\ Catalog!LinksStand /\ RangesRight(sc_chs)

\* The rows cs are still among ds, with their range.
RowsStay(cs, ds) == \A c \in Catalog!Chapter : cs[c].st # "absent" =>
    ds[c].st # "absent" /\ ds[c].end = cs[c].end
DownloadsStay(cs, ds) == \A c \in Catalog!Chapter :
    cs[c].st = "downloaded" => ds[c].st = "downloaded"

LEMMA CatalogTypes ==
  Catalog!TypeOK <=>
    /\ sc_vols \in VolumeTable /\ sc_chs \in ChapterTable /\ sc_cmap \in MapTable
    /\ sc_total \in 0..sc_MaxVolume
    /\ sc_series \in [mon : BOOLEAN, mode : Catalog!Mode]
    /\ sc_task \in Catalog!Volume \cup {Catalog!NoVolume}
  BY DEF Catalog!TypeOK, VolumeTable, VolumeRow, ChapterTable, ChapterRow, MapTable

LEMMA StandingIs == Catalog!LinksStand <=> Standing(sc_vols, sc_chs)
  BY DEF Catalog!LinksStand, Catalog!Exists, Standing

LEMMA VolumeBounds ==
  /\ sc_MaxVolume \in Nat \ {0} /\ sc_MaxChapter \in Nat
  /\ Catalog!NoVolume \notin Catalog!Volume /\ 0 \in Catalog!Volume
  /\ Catalog!Number \subseteq Catalog!Volume /\ Catalog!NoVolume # 0 /\ 0 \notin Catalog!Number
  /\ Catalog!Chapter \subseteq Int
  <1>1. sc_MaxVolume \in Nat \ {0} /\ sc_MaxChapter \in Nat
    BY CatalogueAssumption
  <1>q. QED
    BY <1>1 DEF Catalog!NoVolume, Catalog!Volume, Catalog!Number, Catalog!Chapter

-----------------------------------------------------------------------------
(* The helpers of volumes.py.                                              *)

\* A number is resolved to a row that is there, or to none.
LEMMA RowOfType ==
  ASSUME NEW vs \in VolumeTable, NEW n \in Catalog!Number, NEW r,
         r = Catalog!RowOf(vs, n) \/ r = Catalog!FirstRow(vs, n)
  PROVE  /\ r \in Catalog!Volume \cup {Catalog!NoVolume}
         /\ r # Catalog!NoVolume => r \in Catalog!Volume /\ vs[r].st # "absent"
         /\ vs[n].st # "absent" => r # Catalog!NoVolume
  BY VolumeBounds DEF Catalog!RowOf, Catalog!FirstRow

\* Stubs are rows, what has a row keeps it, and a special is not one.
LEMMA StubbedKeeps ==
  ASSUME NEW vs \in VolumeTable, NEW n \in 0..sc_MaxVolume, Catalog!TypeOK
  PROVE  /\ Catalog!Stubbed(vs, n) \in VolumeTable
         /\ \A v \in Catalog!Volume :
              vs[v].st # "absent" => Catalog!Stubbed(vs, n)[v] = vs[v]
         /\ Catalog!Stubbed(vs, n)[0] = vs[0]
  <1>1. Catalog!NewStub \in VolumeRow
    <2>1. (sc_series.mode \in {"all", "missing"}) \in BOOLEAN
      OBVIOUS
    <2>q. QED
      BY <2>1 DEF Catalog!NewStub, VolumeRow, Catalog!Status
  <1>2. 1..n \subseteq Catalog!Number /\ 0 \notin 1..n
    BY VolumeBounds DEF Catalog!Number
  <1>3. \A v \in Catalog!Volume : vs[v] \in VolumeRow
    BY DEF VolumeTable
  <1>4. Catalog!Stubbed(vs, n) \in VolumeTable
    BY <1>1, <1>3 DEF Catalog!Stubbed, VolumeTable
  <1>5. ASSUME NEW v \in Catalog!Volume, vs[v].st # "absent"
        PROVE  Catalog!Stubbed(vs, n)[v] = vs[v]
    <2>1. v \in 1..n => Catalog!RowOf(vs, v) # Catalog!NoVolume
      BY <1>2, <1>5, RowOfType
    <2>q. QED
      BY <2>1 DEF Catalog!Stubbed
  <1>6. Catalog!Stubbed(vs, n)[0] = vs[0]
    BY <1>2, VolumeBounds DEF Catalog!Stubbed
  <1>q. QED
    BY <1>4, <1>5, <1>6

\* Linking gives a row a volume that is there, if it has none, and nothing else.
LEMMA LinkedKeeps ==
  ASSUME NEW vs \in VolumeTable, NEW cs \in ChapterTable, NEW m \in MapTable,
         Standing(vs, cs), RangesRight(cs)
  PROVE  LET l == Catalog!Linked(vs, cs, m)
         IN /\ l \in ChapterTable /\ Standing(vs, l) /\ RangesRight(l)
            /\ RowsStay(cs, l) /\ DownloadsStay(cs, l)
  <1> DEFINE l == Catalog!Linked(vs, cs, m)
  <1>1. ASSUME NEW c \in Catalog!Chapter
        PROVE  /\ l[c] \in ChapterRow /\ l[c].st = cs[c].st /\ l[c].end = cs[c].end
               /\ l[c].vol # Catalog!NoVolume => vs[l[c].vol].st # "absent"
    <2>1. cs[c] \in ChapterRow
      BY DEF ChapterTable
    <2>2. l[c] = IF m[c] # 0 /\ cs[c].st # "absent" /\ cs[c].vol = Catalog!NoVolume
                 THEN [cs[c] EXCEPT !.vol = Catalog!RowOf(vs, m[c])] ELSE cs[c]
      BY DEF Catalog!Linked
    <2> DEFINE r == Catalog!RowOf(vs, m[c])
    <2>3. m[c] # 0 => m[c] \in Catalog!Number
      BY VolumeBounds DEF MapTable, Catalog!Number
    <2>4. m[c] # 0 => /\ r \in Catalog!Volume \cup {Catalog!NoVolume}
                      /\ r # Catalog!NoVolume => vs[r].st # "absent"
      BY <2>3, RowOfType
    <2> HIDE DEF r
    <2>5. CASE l[c] = cs[c]
      BY <2>1, <2>5 DEF Standing
    <2>6. CASE m[c] # 0 /\ l[c] = [cs[c] EXCEPT !.vol = r]
      BY <2>1, <2>4, <2>6 DEF ChapterRow
    <2>q. QED
      BY <2>2, <2>5, <2>6 DEF r
  <1>2. l = [c \in Catalog!Chapter |-> l[c]]
    BY DEF Catalog!Linked
  <1>3. l \in ChapterTable
    BY <1>1, <1>2 DEF ChapterTable
  <1> HIDE DEF l
  <1>q. QED
    BY <1>1, <1>3 DEF Standing, RangesRight, RowsStay, DownloadsStay, l

\* Populating keeps the rows, and what it links or makes has a volume that is there.
LEMMA PopulatedKeeps ==
  ASSUME NEW vs \in VolumeTable, NEW cs \in ChapterTable, NEW m \in MapTable,
         Standing(vs, cs), RangesRight(cs)
  PROVE  LET p == Catalog!populate_chapters(vs, cs, m)
         IN /\ p \in ChapterTable /\ Standing(vs, p) /\ RangesRight(p)
            /\ RowsStay(cs, p) /\ DownloadsStay(cs, p)
  <1> DEFINE l == Catalog!Linked(vs, cs, m)
             p == Catalog!populate_chapters(vs, cs, m)
             new(c) == [st |-> "wanted", mon |-> TRUE, vol |-> Catalog!RowOf(vs, m[c]), end |-> c]
  <1>1. /\ l \in ChapterTable /\ Standing(vs, l) /\ RangesRight(l)
        /\ RowsStay(cs, l) /\ DownloadsStay(cs, l)
    BY LinkedKeeps
  <1>2. p = [c \in Catalog!Chapter |->
               IF m[c] # 0 /\ ~Catalog!Covered(l, c) /\ l[c].st = "absent" THEN new(c) ELSE l[c]]
    BY DEF Catalog!populate_chapters
  <1> HIDE DEF l, p
  <1>3. ASSUME NEW c \in Catalog!Chapter, m[c] # 0
        PROVE  /\ new(c) \in ChapterRow /\ c <= new(c).end
               /\ new(c).vol # Catalog!NoVolume => vs[new(c).vol].st # "absent"
    <2>1. m[c] \in Catalog!Number
      BY <1>3, VolumeBounds DEF MapTable, Catalog!Number
    <2> DEFINE r == Catalog!RowOf(vs, m[c])
    <2>2. /\ r \in Catalog!Volume \cup {Catalog!NoVolume}
          /\ r # Catalog!NoVolume => vs[r].st # "absent"
      BY <2>1, RowOfType
    <2> HIDE DEF r
    <2>3. c <= c
      BY VolumeBounds
    <2>4. new(c) = [st |-> "wanted", mon |-> TRUE, vol |-> r, end |-> c]
      BY DEF r
    <2>q. QED
      BY <2>2, <2>3, <2>4 DEF ChapterRow, Catalog!Status
  <1> HIDE DEF new
  <1>4. ASSUME NEW c \in Catalog!Chapter
        PROVE  /\ p[c] \in ChapterRow /\ c <= p[c].end
               /\ p[c].vol # Catalog!NoVolume => vs[p[c].vol].st # "absent"
               /\ l[c].st # "absent" => p[c] = l[c]
    <2>1. l[c] \in ChapterRow
      BY <1>1 DEF ChapterTable
    <2>q. QED
      BY <1>1, <1>2, <1>3, <2>1 DEF Standing, RangesRight
  <1>5. p \in ChapterTable /\ Standing(vs, p) /\ RangesRight(p)
    <2>1. p = [c \in Catalog!Chapter |-> p[c]]
      BY <1>2
    <2>2. p \in ChapterTable
      BY <1>4, <2>1 DEF ChapterTable
    <2>q. QED
      BY <1>4, <2>2 DEF Standing, RangesRight
  <1>6. RowsStay(cs, p) /\ DownloadsStay(cs, p)
    BY <1>1, <1>4 DEF RowsStay, DownloadsStay
  <1>q. QED
    BY <1>5, <1>6 DEF p

\* After the chapters are populated a mapped chapter has a row or lies in a range.
LEMMA PopulatedCovers ==
  ASSUME NEW vs, NEW cs, NEW m, NEW c \in Catalog!Chapter, m[c] # 0
  PROVE  LET p == Catalog!populate_chapters(vs, cs, m)
         IN p[c].st # "absent" \/ \E d \in Catalog!Chapter : Catalog!Covers(p, d, c)
  <1> DEFINE l == Catalog!Linked(vs, cs, m)
             p == Catalog!populate_chapters(vs, cs, m)
             new(d) == [st |-> "wanted", mon |-> TRUE, vol |-> Catalog!RowOf(vs, m[d]), end |-> d]
  <1>1. p = [d \in Catalog!Chapter |->
               IF m[d] # 0 /\ ~Catalog!Covered(l, d) /\ l[d].st = "absent" THEN new(d) ELSE l[d]]
    BY DEF Catalog!populate_chapters
  <1> HIDE DEF l, p
  <1>2. CASE Catalog!Covered(l, c)
    <2>1. PICK d \in Catalog!Chapter : Catalog!Covers(l, d, c)
      BY <1>2 DEF Catalog!Covered
    <2>2. p[d] = l[d]
      BY <1>1, <2>1 DEF Catalog!Covers
    <2>3. Catalog!Covers(p, d, c)
      BY <2>1, <2>2 DEF Catalog!Covers
    <2>q. QED
      BY <2>3 DEF p
  <1>3. CASE ~Catalog!Covered(l, c) /\ l[c].st = "absent"
    <2>1. p[c].st = "wanted"
      BY <1>1, <1>3
    <2>q. QED
      BY <2>1 DEF p
  <1>4. CASE ~Catalog!Covered(l, c) /\ l[c].st # "absent"
    <2>1. p[c].st # "absent"
      BY <1>1, <1>4
    <2>q. QED
      BY <2>1 DEF p
  <1>q. QED
    BY <1>2, <1>3, <1>4

-----------------------------------------------------------------------------
(* The handlers.  CatalogKeeps is what a transaction has to show.          *)

CatalogKeeps ==
    CatalogInv' /\ Catalog!MappedKept /\ Catalog!AcquiredKept /\ Catalog!DownloadsKept

\* Wherever the map is applied: in a series without a numbered special every chapter of
\* it has a mainline row after that.
LEMMA PopulatesMainline ==
  ASSUME CatalogInv', ~Catalog!Exists(0)', Catalog!Populates
  PROVE  \A c \in Catalog!Chapter : sc_cmap'[c] # 0 => Catalog!InMainline(c)'
  <1> SUFFICES ASSUME NEW c \in Catalog!Chapter, sc_cmap'[c] # 0
               PROVE  \E d \in Catalog!Chapter : Catalog!Covers(sc_chs', d, c)
    BY DEF Catalog!InMainline, Catalog!Covers
  <1>1. PICK m \in Catalog!Maps : \/ Catalog!refresh_mangadex_map(m)
                                  \/ \E n \in 0..sc_MaxVolume :
                                        m # Catalog!NoMap /\ Catalog!edit_series(n, m)
    BY DEF Catalog!Populates
  <1>2. sc_cmap' = m /\ \E vs, cs : sc_chs' = Catalog!populate_chapters(vs, cs, m)
    <2>1. CASE Catalog!refresh_mangadex_map(m)
      BY <2>1 DEF Catalog!refresh_mangadex_map
    <2>2. ASSUME NEW n \in 0..sc_MaxVolume, m # Catalog!NoMap, Catalog!edit_series(n, m)
          PROVE  sc_cmap' = m /\ \E vs, cs : sc_chs' = Catalog!populate_chapters(vs, cs, m)
      BY <2>2 DEF Catalog!edit_series
    <2>q. QED
      BY <1>1, <2>1, <2>2
  <1>3. PICK vs, cs : sc_chs' = Catalog!populate_chapters(vs, cs, m)
    BY <1>2
  <1>4. sc_chs'[c].st # "absent" \/ \E d \in Catalog!Chapter : Catalog!Covers(sc_chs', d, c)
    BY <1>2, <1>3, PopulatedCovers
  <1>5. CASE sc_chs'[c].st # "absent"
    <2>1. c <= c /\ c <= sc_chs'[c].end
      BY VolumeBounds DEF CatalogInv, RangesRight
    <2>2. sc_chs'[c].vol # 0
      <3>1. sc_vols'[0].st = "absent"
        BY DEF Catalog!Exists
      <3>2. sc_chs'[c].vol # Catalog!NoVolume => sc_vols'[sc_chs'[c].vol].st # "absent"
        BY DEF CatalogInv, Catalog!LinksStand, Catalog!Exists
      <3>q. QED
        BY <3>1, <3>2, VolumeBounds
    <2>q. QED
      BY <1>5, <2>1, <2>2 DEF Catalog!Covers, Catalog!Special
  <1>q. QED
    BY <1>4, <1>5

\* A transaction that makes no special, and after which a row has its range, unless it
\* is one that an import narrows.
LEMMA RowsKeepMapped ==
  ASSUME CatalogInv, CatalogInv',
         sc_vols[0].st = "absent" => sc_vols'[0].st = "absent",
         \A d \in Catalog!Chapter : sc_chs[d].st # "absent" =>
           /\ sc_chs'[d].st # "absent"
           /\ \A c \in Catalog!Chapter :
                d <= c /\ c <= sc_chs[d].end => c <= sc_chs'[d].end \/ Catalog!Narrowed(c)
  PROVE  Catalog!MappedKept
  <1> SUFFICES ASSUME ~Catalog!Exists(0)
               PROVE  /\ Catalog!MainlinePopulated
                      /\ \A c \in Catalog!Chapter :
                           Catalog!InMainline(c) => Catalog!InMainline(c)' \/ Catalog!Narrowed(c)
    BY DEF Catalog!MappedKept
  <1>1. sc_vols'[0].st = "absent" /\ ~Catalog!Exists(0)'
    BY DEF Catalog!Exists
  <1>2. Catalog!MainlinePopulated
    BY <1>1, PopulatesMainline DEF Catalog!MainlinePopulated
  <1>3. ASSUME NEW c \in Catalog!Chapter, Catalog!InMainline(c), ~Catalog!Narrowed(c)
        PROVE  Catalog!InMainline(c)'
    <2>1. PICK d \in Catalog!Chapter : Catalog!Covers(sc_chs, d, c)
      BY <1>3 DEF Catalog!InMainline
    <2>2. sc_chs'[d].st # "absent" /\ d <= c /\ c <= sc_chs'[d].end
      BY <1>3, <2>1 DEF Catalog!Covers
    <2>3. sc_chs'[d].vol # 0
      <3>1. sc_chs'[d].vol # Catalog!NoVolume => sc_vols'[sc_chs'[d].vol].st # "absent"
        BY DEF CatalogInv, Catalog!LinksStand, Catalog!Exists
      <3>q. QED
        BY <1>1, <3>1, VolumeBounds
    <2>4. Catalog!Covers(sc_chs', d, c)
      BY <2>2, <2>3 DEF Catalog!Covers, Catalog!Special
    <2>q. QED
      BY <2>4 DEF Catalog!InMainline, Catalog!Covers
  <1>q. QED
    BY <1>2, <1>3

\* What a transaction shows of the tables it leaves.
LEMMA TablesInv ==
  ASSUME sc_vols' \in VolumeTable, sc_chs' \in ChapterTable, sc_cmap' \in MapTable,
         sc_total' \in 0..sc_MaxVolume, sc_series' \in [mon : BOOLEAN, mode : Catalog!Mode],
         sc_task' \in Catalog!Volume \cup {Catalog!NoVolume},
         Standing(sc_vols', sc_chs'), RangesRight(sc_chs')
  PROVE  CatalogInv'
  <1>1. Catalog!TypeOK'
    BY DEF Catalog!TypeOK, VolumeTable, VolumeRow, ChapterTable, ChapterRow, MapTable
  <1>2. Catalog!LinksStand'
    BY DEF Catalog!LinksStand, Catalog!Exists, Standing
  <1>q. QED
    BY <1>1, <1>2 DEF CatalogInv, RangesRight

LEMMA RowsStayMapped ==
  ASSUME CatalogInv, CatalogInv', RowsStay(sc_chs, sc_chs'),
         sc_vols[0].st = "absent" => sc_vols'[0].st = "absent"
  PROVE  Catalog!MappedKept
  BY RowsKeepMapped DEF RowsStay

\* No volume's row is removed and none is made a special.
VolumesStay == /\ \A v \in Catalog!Volume : sc_vols[v].st # "absent" => sc_vols'[v].st # "absent"
               /\ sc_vols[0].st = "absent" => sc_vols'[0].st = "absent"

\* A transaction that keeps the volume and the range of every chapter.
SameLinks == \A c \in Catalog!Chapter :
    /\ sc_chs[c].st # "absent" => sc_chs'[c].st # "absent"
    /\ sc_chs'[c].vol = sc_chs[c].vol /\ sc_chs'[c].end = sc_chs[c].end

LEMMA StatusStep ==
  ASSUME CatalogInv, sc_cmap' = sc_cmap, sc_total' \in 0..sc_MaxVolume,
         sc_series' \in [mon : BOOLEAN, mode : Catalog!Mode],
         sc_task' \in Catalog!Volume \cup {Catalog!NoVolume},
         sc_vols' \in VolumeTable, sc_chs' \in ChapterTable, VolumesStay, SameLinks
  PROVE  CatalogInv' /\ Catalog!MappedKept
  <1>0. /\ sc_chs \in ChapterTable /\ sc_cmap \in MapTable /\ Standing(sc_vols, sc_chs)
        /\ RangesRight(sc_chs)
    BY CatalogTypes, StandingIs DEF CatalogInv
  <1>1. Standing(sc_vols', sc_chs')
    <2> SUFFICES ASSUME NEW c \in Catalog!Chapter, sc_chs'[c].vol # Catalog!NoVolume
                 PROVE  sc_vols'[sc_chs'[c].vol].st # "absent"
      BY DEF Standing
    <2>1. sc_chs'[c].vol \in Catalog!Volume /\ sc_vols[sc_chs'[c].vol].st # "absent"
      <3>1. sc_chs[c] \in ChapterRow
        BY <1>0 DEF ChapterTable
      <3>2. sc_chs[c].vol \in Catalog!Volume \cup {Catalog!NoVolume}
        BY <3>1 DEF ChapterRow
      <3>q. QED
        BY <1>0, <3>2 DEF Standing, SameLinks
    <2>q. QED
      BY <2>1 DEF VolumesStay
  <1>2. RangesRight(sc_chs') /\ RowsStay(sc_chs, sc_chs')
    BY <1>0 DEF RangesRight, RowsStay, SameLinks
  <1>3. CatalogInv'
    BY <1>0, <1>1, <1>2, TablesInv
  <1>4. Catalog!MappedKept
    BY <1>2, <1>3, RowsStayMapped DEF VolumesStay
  <1>q. QED
    BY <1>3, <1>4

LEMMA DownloadsAreKept ==
  ASSUME DownloadsStay(sc_chs, sc_chs') PROVE Catalog!DownloadsKept
  BY DEF DownloadsStay, Catalog!DownloadsKept

\* A transaction that leaves the chapters and the map alone.
LEMMA VolumesStep ==
  ASSUME CatalogInv, UNCHANGED <<sc_chs, sc_cmap>>,
         sc_vols' \in VolumeTable, sc_total' \in 0..sc_MaxVolume,
         sc_series' \in [mon : BOOLEAN, mode : Catalog!Mode],
         sc_task' \in Catalog!Volume \cup {Catalog!NoVolume},
         VolumesStay, Catalog!Kept
  PROVE  CatalogKeeps
  <1>1. sc_chs' \in ChapterTable /\ SameLinks /\ DownloadsStay(sc_chs, sc_chs')
    BY CatalogTypes DEF CatalogInv, SameLinks, DownloadsStay
  <1>2. CatalogInv' /\ Catalog!MappedKept
    BY <1>1, StatusStep
  <1>3. Catalog!DownloadsKept
    BY <1>1, DownloadsAreKept
  <1>q. QED
    BY <1>2, <1>3 DEF CatalogKeeps, Catalog!AcquiredKept

LEMMA CatalogInitInv == ASSUME Catalog!Init PROVE CatalogInv
  <1>1. /\ sc_vols \in VolumeTable /\ sc_chs \in ChapterTable
        /\ Standing(sc_vols, sc_chs) /\ RangesRight(sc_chs)
    <2>1. CASE Catalog!EmptySeries
      <3>1. sc_vols \in VolumeTable
        BY <2>1 DEF Catalog!EmptySeries, Catalog!AbsentVolume, VolumeTable, VolumeRow
      <3>2. sc_chs \in ChapterTable
        BY <2>1 DEF Catalog!EmptySeries, Catalog!AbsentChapter, ChapterTable, ChapterRow
      <3>3. \A c \in Catalog!Chapter : sc_chs[c].vol = Catalog!NoVolume /\ c <= sc_chs[c].end
        BY <2>1, VolumeBounds DEF Catalog!EmptySeries, Catalog!AbsentChapter
      <3>q. QED
        BY <3>1, <3>2, <3>3 DEF Standing, RangesRight
    <2>2. CASE Catalog!NumberedSpecial
      <3> DEFINE row(e) == [st |-> "downloaded", mon |-> TRUE, vol |-> 0, end |-> e]
                 one == [st |-> "downloaded", mon |-> TRUE]
      <3>1. PICK c \in Catalog!Chapter, end \in Catalog!Chapter,
                 first \in {Catalog!AbsentVolume, [st |-> "wanted", mon |-> TRUE]} :
              /\ c <= end
              /\ sc_vols = [v \in Catalog!Volume |->
                              IF v = 0 THEN one
                              ELSE IF v = 1 THEN first ELSE Catalog!AbsentVolume]
              /\ sc_chs = [d \in Catalog!Chapter |->
                             IF d = c THEN row(end) ELSE Catalog!AbsentChapter(d)]
        BY <2>2 DEF Catalog!NumberedSpecial
      <3>2. one \in VolumeRow /\ first \in VolumeRow /\ Catalog!AbsentVolume \in VolumeRow
        <4>1. one \in VolumeRow /\ [st |-> "wanted", mon |-> TRUE] \in VolumeRow
          BY DEF VolumeRow, Catalog!Status
        <4>2. Catalog!AbsentVolume \in VolumeRow
          BY DEF Catalog!AbsentVolume, VolumeRow
        <4>q. QED
          BY <4>1, <4>2
      <3>3. /\ row(end) \in ChapterRow /\ row(end).vol = 0 /\ row(end).end = end
            /\ one.st = "downloaded"
        BY VolumeBounds DEF ChapterRow, Catalog!Status
      <3> HIDE DEF row, one
      <3>4. \A d \in Catalog!Chapter :
              /\ Catalog!AbsentChapter(d) \in ChapterRow
              /\ Catalog!AbsentChapter(d).vol = Catalog!NoVolume
              /\ d <= Catalog!AbsentChapter(d).end
        BY VolumeBounds DEF Catalog!AbsentChapter, ChapterRow
      <3>5. sc_vols \in VolumeTable /\ sc_chs \in ChapterTable
        BY <3>1, <3>2, <3>3, <3>4 DEF VolumeTable, ChapterTable
      <3>6. sc_vols[0].st = "downloaded"
        BY <3>1, <3>3, VolumeBounds
      <3>7. Standing(sc_vols, sc_chs) /\ RangesRight(sc_chs)
        BY <3>1, <3>3, <3>4, <3>6 DEF Standing, RangesRight
      <3>q. QED
        BY <3>5, <3>7
    <2>q. QED
      BY <2>1, <2>2 DEF Catalog!Init
  <1>2. /\ sc_cmap \in MapTable /\ sc_total \in 0..sc_MaxVolume
        /\ sc_series \in [mon : BOOLEAN, mode : Catalog!Mode] /\ sc_task = Catalog!NoVolume
    <2>1. sc_cmap \in MapTable /\ sc_total \in 0..sc_MaxVolume
      BY VolumeBounds DEF Catalog!Init, MapTable
    <2>q. QED
      BY <2>1 DEF Catalog!Init, Catalog!Mode
  <1>q. QED
    BY <1>1, <1>2, CatalogTypes, StandingIs DEF CatalogInv

-----------------------------------------------------------------------------
(* The handlers that set a status.                                         *)

\* Chapters that follow a volume keep their row, their volume and their range; only a
\* reset takes a download back, and only from the chapters of the volume.
LEMMA CascadeKeeps ==
  ASSUME NEW cs \in ChapterTable, NEW of, NEW st \in Catalog!Status
  PROVE  LET ds == Catalog!_cascade_chapters(cs, of, st)
         IN /\ ds \in ChapterTable
            /\ \A c \in Catalog!Chapter :
                 /\ cs[c].st # "absent" => ds[c].st # "absent"
                 /\ ds[c].vol = cs[c].vol /\ ds[c].end = cs[c].end
                 /\ cs[c].st = "downloaded" =>
                      ds[c].st = "downloaded" \/ (st = "wanted" /\ cs[c].vol \in of)
  <1> DEFINE ds == Catalog!_cascade_chapters(cs, of, st)
  <1>1. ds = [c \in Catalog!Chapter |-> ds[c]]
    BY DEF Catalog!_cascade_chapters
  <1>2. ASSUME NEW c \in Catalog!Chapter
        PROVE  /\ ds[c] \in ChapterRow /\ (cs[c].st # "absent" => ds[c].st # "absent")
               /\ ds[c].vol = cs[c].vol /\ ds[c].end = cs[c].end
               /\ cs[c].st = "downloaded" =>
                    ds[c].st = "downloaded" \/ (st = "wanted" /\ cs[c].vol \in of)
    <2>1. cs[c] \in ChapterRow
      BY DEF ChapterTable
    <2>2. \/ ds[c] = cs[c]
          \/ /\ ds[c] = [cs[c] EXCEPT !.st = st] /\ cs[c].vol \in of
             /\ st = "grabbed" => cs[c].st = "wanted"
      BY DEF Catalog!_cascade_chapters
    <2>q. QED
      BY <2>1, <2>2 DEF ChapterRow, Catalog!Status
  <1>3. ds \in ChapterTable
    BY <1>1, <1>2 DEF ChapterTable
  <1>q. QED
    BY <1>2, <1>3

\* The trigger makes chapters downloaded and nothing else.
LEMMA TriggerKeeps ==
  ASSUME NEW vs, NEW cs \in ChapterTable
  PROVE  LET ds == Catalog!trg_vol_downloaded_cascade(vs, cs)
         IN /\ ds \in ChapterTable
            /\ \A c \in Catalog!Chapter :
                 /\ cs[c].st # "absent" => ds[c].st # "absent"
                 /\ ds[c].vol = cs[c].vol /\ ds[c].end = cs[c].end
                 /\ cs[c].st = "downloaded" => ds[c].st = "downloaded"
  <1> DEFINE ds == Catalog!trg_vol_downloaded_cascade(vs, cs)
  <1>1. ds = [c \in Catalog!Chapter |-> ds[c]]
    BY DEF Catalog!trg_vol_downloaded_cascade
  <1>2. ASSUME NEW c \in Catalog!Chapter
        PROVE  /\ ds[c] \in ChapterRow /\ (cs[c].st # "absent" => ds[c].st # "absent")
               /\ ds[c].vol = cs[c].vol /\ ds[c].end = cs[c].end
               /\ cs[c].st = "downloaded" => ds[c].st = "downloaded"
    <2>1. cs[c] \in ChapterRow
      BY DEF ChapterTable
    <2>2. ds[c] = cs[c] \/ ds[c] = [cs[c] EXCEPT !.st = "downloaded"]
      BY DEF Catalog!trg_vol_downloaded_cascade
    <2>q. QED
      BY <2>1, <2>2 DEF ChapterRow, Catalog!Status
  <1>3. ds \in ChapterTable
    BY <1>1, <1>2 DEF ChapterTable
  <1>q. QED
    BY <1>2, <1>3

\* A volume that has a row takes a status, and so do its chapters.
LEMMA SetVolumeStep ==
  ASSUME CatalogInv, NEW v \in Catalog!Volume, NEW st \in Catalog!Status,
         Catalog!SetVolume(v, st), Catalog!Exists(v),
         UNCHANGED <<sc_cmap, sc_total, sc_series>>,
         sc_task' \in Catalog!Volume \cup {Catalog!NoVolume}
  PROVE  /\ CatalogInv' /\ Catalog!MappedKept
         /\ st # "wanted" => Catalog!Kept
         /\ \A c \in Catalog!Chapter :
              sc_chs[c].st = "downloaded" /\ sc_chs'[c].st # "downloaded" =>
                st = "wanted" /\ sc_chs[c].vol = v
  <1>1. /\ sc_vols \in VolumeTable /\ sc_chs \in ChapterTable /\ sc_total \in 0..sc_MaxVolume
        /\ sc_series \in [mon : BOOLEAN, mode : Catalog!Mode]
    BY CatalogTypes DEF CatalogInv
  <1>2. sc_vols' = [sc_vols EXCEPT ![v].st = st]
    BY DEF Catalog!SetVolume
  <1>3. sc_vols' \in VolumeTable
    BY <1>1, <1>2 DEF VolumeTable, VolumeRow
  <1>4. st # "wanted" => Catalog!Kept
    BY <1>1, <1>2 DEF VolumeTable, VolumeRow, Catalog!Kept, Catalog!Status
  <1>5. VolumesStay
    BY <1>1, <1>2, VolumeBounds DEF VolumeTable, VolumeRow, VolumesStay, Catalog!Exists,
       Catalog!Status
  <1> DEFINE ts == Catalog!trg_vol_downloaded_cascade(sc_vols', sc_chs)
  <1>6. sc_chs' = Catalog!_cascade_chapters(ts, {v}, st)
    BY DEF Catalog!SetVolume
  <1>7. /\ ts \in ChapterTable
        /\ \A c \in Catalog!Chapter :
             /\ sc_chs[c].st # "absent" => ts[c].st # "absent"
             /\ ts[c].vol = sc_chs[c].vol /\ ts[c].end = sc_chs[c].end
             /\ sc_chs[c].st = "downloaded" => ts[c].st = "downloaded"
    BY <1>1, TriggerKeeps
  <1> HIDE DEF ts
  <1>8. /\ sc_chs' \in ChapterTable
        /\ \A c \in Catalog!Chapter :
             /\ ts[c].st # "absent" => sc_chs'[c].st # "absent"
             /\ sc_chs'[c].vol = ts[c].vol /\ sc_chs'[c].end = ts[c].end
             /\ ts[c].st = "downloaded" =>
                  sc_chs'[c].st = "downloaded" \/ (st = "wanted" /\ ts[c].vol \in {v})
    BY <1>6, <1>7, CascadeKeeps
  <1>9. SameLinks
    BY <1>7, <1>8 DEF SameLinks
  <1>10. CatalogInv' /\ Catalog!MappedKept
    BY <1>1, <1>3, <1>5, <1>8, <1>9, StatusStep
  <1>11. \A c \in Catalog!Chapter :
            sc_chs[c].st = "downloaded" /\ sc_chs'[c].st # "downloaded" =>
              st = "wanted" /\ sc_chs[c].vol = v
    BY <1>7, <1>8
  <1>q. QED
    BY <1>4, <1>10, <1>11

LEMMA SameVolumesKept == ASSUME UNCHANGED sc_vols PROVE Catalog!Kept /\ VolumesStay
  BY DEF Catalog!Kept, VolumesStay

\* A volume takes a status that is not wanted.
LEMMA AcquireStep ==
  ASSUME CatalogInv, NEW v \in Catalog!Volume, NEW st \in {"grabbed", "downloaded"},
         Catalog!SetVolume(v, st), Catalog!Exists(v),
         UNCHANGED <<sc_cmap, sc_total, sc_series>>,
         sc_task' \in Catalog!Volume \cup {Catalog!NoVolume}
  PROVE  CatalogKeeps
  <1>1. st \in Catalog!Status /\ st # "wanted"
    BY DEF Catalog!Status
  <1>2. CatalogInv' /\ Catalog!MappedKept /\ Catalog!Kept /\ DownloadsStay(sc_chs, sc_chs')
    BY <1>1, SetVolumeStep DEF DownloadsStay
  <1>q. QED
    BY <1>2, DownloadsAreKept DEF CatalogKeeps, Catalog!AcquiredKept

\* The other rows of the volumes change with the chapters by the trigger only.
LEMMA TriggerStep ==
  ASSUME CatalogInv, UNCHANGED <<sc_cmap, sc_total, sc_series, sc_task>>,
         sc_vols' \in VolumeTable, VolumesStay, Catalog!Kept,
         NEW cs \in ChapterTable, sc_chs' = Catalog!trg_vol_downloaded_cascade(sc_vols', cs),
         \A c \in Catalog!Chapter :
           /\ sc_chs[c].st # "absent" => cs[c].st # "absent"
           /\ cs[c].vol = sc_chs[c].vol /\ cs[c].end = sc_chs[c].end
           /\ sc_chs[c].st = "downloaded" => cs[c].st = "downloaded"
  PROVE  CatalogKeeps
  <1>0. /\ sc_total \in 0..sc_MaxVolume /\ sc_series \in [mon : BOOLEAN, mode : Catalog!Mode]
        /\ sc_task \in Catalog!Volume \cup {Catalog!NoVolume}
    BY CatalogTypes DEF CatalogInv
  <1>1. sc_chs' \in ChapterTable /\ SameLinks /\ DownloadsStay(sc_chs, sc_chs')
    BY TriggerKeeps DEF SameLinks, DownloadsStay
  <1>2. CatalogInv' /\ Catalog!MappedKept
    BY <1>0, <1>1, StatusStep
  <1>q. QED
    BY <1>1, <1>2, DownloadsAreKept DEF CatalogKeeps, Catalog!AcquiredKept

-----------------------------------------------------------------------------
(* The handlers for volumes.                                               *)

LEMMA VolumeHandlers ==
  ASSUME CatalogInv,
         \/ \E n \in 0..sc_MaxVolume : Catalog!patch_series(n)
         \/ \E v \in Catalog!Volume : Catalog!toggle_volume_monitor(v) \/ Catalog!grab_volume(v)
         \/ Catalog!mark_all_grabbed_downloaded \/ Catalog!toggle_monitored
         \/ \E lo, hi \in Catalog!Number : Catalog!set_pack_range(lo, hi)
         \/ \E mode \in Catalog!Mode : Catalog!set_monitor_mode(mode)
  PROVE  CatalogKeeps
  <1>0. /\ sc_vols \in VolumeTable /\ sc_chs \in ChapterTable /\ sc_total \in 0..sc_MaxVolume
        /\ sc_series \in [mon : BOOLEAN, mode : Catalog!Mode]
        /\ sc_task \in Catalog!Volume \cup {Catalog!NoVolume}
    BY CatalogTypes DEF CatalogInv
  <1>r. \A v \in Catalog!Volume : sc_vols[v] \in VolumeRow
    BY <1>0 DEF VolumeTable
  <1>1. ASSUME NEW n \in 0..sc_MaxVolume, Catalog!patch_series(n) PROVE CatalogKeeps
    BY <1>0, <1>1, VolumesStep, SameVolumesKept DEF Catalog!patch_series
  <1>2. ASSUME NEW v \in Catalog!Volume, Catalog!toggle_volume_monitor(v) PROVE CatalogKeeps
    <2>1. sc_vols' = [sc_vols EXCEPT ![v] = [sc_vols[v] EXCEPT !.mon = ~sc_vols[v].mon]]
      BY <1>2 DEF Catalog!toggle_volume_monitor
    <2>2. /\ [sc_vols[v] EXCEPT !.mon = ~sc_vols[v].mon] \in VolumeRow
          /\ [sc_vols[v] EXCEPT !.mon = ~sc_vols[v].mon].st = sc_vols[v].st
      BY <1>r DEF VolumeRow
    <2>3. sc_vols' \in VolumeTable /\ \A u \in Catalog!Volume : sc_vols'[u].st = sc_vols[u].st
      BY <1>0, <2>1, <2>2 DEF VolumeTable
    <2>4. Catalog!Kept /\ VolumesStay
      BY <2>3, VolumeBounds DEF Catalog!Kept, VolumesStay
    <2>q. QED
      BY <1>0, <1>2, <2>3, <2>4, VolumesStep DEF Catalog!toggle_volume_monitor
  <1>3. ASSUME NEW v \in Catalog!Volume, Catalog!grab_volume(v) PROVE CatalogKeeps
    BY <1>0, <1>3, VolumesStep, SameVolumesKept DEF Catalog!grab_volume
  <1>4. CASE Catalog!mark_all_grabbed_downloaded
    <2>1. sc_vols' = [v \in Catalog!Volume |-> IF sc_vols[v].st = "grabbed"
                        THEN [sc_vols[v] EXCEPT !.st = "downloaded"] ELSE sc_vols[v]]
      BY <1>4 DEF Catalog!mark_all_grabbed_downloaded
    <2>2. sc_vols' \in VolumeTable /\ Catalog!Kept /\ VolumesStay
      BY <1>r, <2>1, VolumeBounds DEF VolumeTable, VolumeRow, Catalog!Status, Catalog!Kept,
         VolumesStay
    <2>q. QED
      BY <1>0, <1>4, <2>2, TriggerStep DEF Catalog!mark_all_grabbed_downloaded
  <1>5. CASE Catalog!toggle_monitored
    <2>1. sc_series' \in [mon : BOOLEAN, mode : Catalog!Mode]
      BY <1>0, <1>5 DEF Catalog!toggle_monitored
    <2>q. QED
      BY <1>0, <1>5, <2>1, VolumesStep, SameVolumesKept DEF Catalog!toggle_monitored
  <1>6. ASSUME NEW lo \in Catalog!Number, NEW hi \in Catalog!Number,
               Catalog!set_pack_range(lo, hi)
        PROVE  CatalogKeeps
    <2>1. sc_vols' = [v \in Catalog!Volume |->
                        IF sc_vols[v].st = "wanted" /\ Catalog!NumberOf(v) \in lo..hi
                        THEN [sc_vols[v] EXCEPT !.st = "grabbed"] ELSE sc_vols[v]]
      BY <1>6 DEF Catalog!set_pack_range
    <2>2. sc_vols' \in VolumeTable /\ Catalog!Kept /\ VolumesStay
      BY <1>r, <2>1, VolumeBounds DEF VolumeTable, VolumeRow, Catalog!Status, Catalog!Kept,
         VolumesStay
    <2>q. QED
      BY <1>0, <1>6, <2>2, VolumesStep DEF Catalog!set_pack_range
  <1>7. ASSUME NEW mode \in Catalog!Mode, Catalog!set_monitor_mode(mode) PROVE CatalogKeeps
    <2> DEFINE on(v) == Catalog!Exists(v) /\ Catalog!MonitoredIn(mode, v)
    <2>1. sc_vols' = [v \in Catalog!Volume |-> [sc_vols[v] EXCEPT !.mon = on(v)]]
      BY <1>7 DEF Catalog!set_monitor_mode
    <2>2. \A v \in Catalog!Volume : on(v) \in BOOLEAN
      OBVIOUS
    <2> HIDE DEF on
    <2>3. sc_vols' \in VolumeTable /\ Catalog!Kept /\ VolumesStay
      BY <1>r, <2>1, <2>2, VolumeBounds DEF VolumeTable, VolumeRow, Catalog!Kept, VolumesStay
    <2>4. sc_series' \in [mon : BOOLEAN, mode : Catalog!Mode]
      BY <1>0, <1>7 DEF Catalog!set_monitor_mode
    <2>q. QED
      BY <1>0, <1>7, <2>3, <2>4, VolumesStep DEF Catalog!set_monitor_mode
  <1>q. QED
    BY <1>1, <1>2, <1>3, <1>4, <1>5, <1>6, <1>7

LEMMA ResetHandlers ==
  ASSUME CatalogInv, NEW v \in Catalog!Volume, Catalog!UserReset(v)
  PROVE  CatalogKeeps
  <1>1. /\ Catalog!SetVolume(v, "wanted") /\ Catalog!Exists(v)
        /\ UNCHANGED <<sc_cmap, sc_total, sc_series, sc_task>>
    BY DEF Catalog!UserReset, Catalog!mark_volume_wanted, Catalog!reset_volume_to_wanted,
       Catalog!Exists
  <1>2. sc_task' \in Catalog!Volume \cup {Catalog!NoVolume} /\ "wanted" \in Catalog!Status
    BY <1>1, CatalogTypes DEF CatalogInv, Catalog!Status
  <1>3. /\ CatalogInv' /\ Catalog!MappedKept
        /\ \A c \in Catalog!Chapter :
             sc_chs[c].st = "downloaded" /\ sc_chs'[c].st # "downloaded" => sc_chs[c].vol = v
    BY <1>1, <1>2, SetVolumeStep
  <1>4. Catalog!DownloadsKept
    BY <1>3 DEF Catalog!DownloadsKept
  <1>q. QED
    BY <1>3, <1>4 DEF CatalogKeeps, Catalog!AcquiredKept

LEMMA GrabVolumeStep ==
  ASSUME CatalogInv, Catalog!_grab_volume_task
  PROVE  CatalogKeeps
  <1>0. /\ sc_vols \in VolumeTable /\ sc_chs \in ChapterTable /\ sc_total \in 0..sc_MaxVolume
        /\ sc_series \in [mon : BOOLEAN, mode : Catalog!Mode]
        /\ sc_task \in Catalog!Volume \cup {Catalog!NoVolume}
    BY CatalogTypes DEF CatalogInv
  <1>1. UNCHANGED <<sc_cmap, sc_total, sc_series>> /\ sc_task' = Catalog!NoVolume
    BY DEF Catalog!_grab_volume_task
  <1>r. \A v \in Catalog!Volume : sc_vols[v] \in VolumeRow
    BY <1>0 DEF VolumeTable
  <1>2. CASE Catalog!grab_single
    <2> DEFINE v == Catalog!FirstRow(sc_vols, Catalog!NumberOf(sc_task))
    <2>1. Catalog!SetVolume(v, "grabbed") /\ sc_task \in Catalog!Volume
          /\ sc_vols[sc_task].st # "absent"
      BY <1>0, <1>2 DEF Catalog!grab_single, Catalog!StillWanted, Catalog!Exists
    <2>2. v \in Catalog!Volume /\ Catalog!Exists(v)
      <3>1. CASE sc_task = 0
        BY <2>1, <3>1, VolumeBounds DEF Catalog!FirstRow, Catalog!RowOf, Catalog!NumberOf,
           Catalog!Exists, Catalog!Volume
      <3>2. CASE sc_task # 0
        BY <2>1, <3>2 DEF Catalog!FirstRow, Catalog!NumberOf, Catalog!Exists
      <3>q. QED
        BY <3>1, <3>2
    <2> HIDE DEF v
    <2>q. QED
      BY <1>1, <2>1, <2>2, AcquireStep
  <1>3. ASSUME NEW lo \in Catalog!Number, NEW hi \in Catalog!Number, NEW complete \in BOOLEAN,
               Catalog!grab_pack(lo, hi, complete)
        PROVE  CatalogKeeps
    <2>1. PICK taken \in SUBSET Catalog!Number, made \in SUBSET Catalog!Number :
            /\ \A v \in taken : sc_vols[v].st = "wanted"
            /\ \A v \in made : Catalog!RowOf(sc_vols, v) = Catalog!NoVolume
            /\ sc_vols' = [v \in Catalog!Volume |->
                             CASE v \in taken -> [sc_vols[v] EXCEPT !.st = "grabbed"]
                               [] v \in made -> [st |-> "grabbed", mon |-> TRUE]
                               [] OTHER -> sc_vols[v]]
            /\ sc_chs' = Catalog!_cascade_chapters(sc_chs, taken \cup made, "grabbed")
      <3> DEFINE t == {v \in Catalog!Number : /\ v \in lo..hi /\ sc_vols[v].st = "wanted"
                                              /\ sc_vols[v].mon}
                 m == {v \in Catalog!Number : /\ ~complete /\ v \in lo..hi
                                              /\ Catalog!RowOf(sc_vols, v) = Catalog!NoVolume}
      <3>1. /\ sc_vols' = [v \in Catalog!Volume |->
                             CASE v \in t -> [sc_vols[v] EXCEPT !.st = "grabbed"]
                               [] v \in m -> [st |-> "grabbed", mon |-> TRUE]
                               [] OTHER -> sc_vols[v]]
            /\ sc_chs' = Catalog!_cascade_chapters(sc_chs, t \cup m, "grabbed")
        BY <1>3 DEF Catalog!grab_pack
      <3>2. /\ t \in SUBSET Catalog!Number /\ m \in SUBSET Catalog!Number
            /\ \A v \in t : sc_vols[v].st = "wanted"
            /\ \A v \in m : Catalog!RowOf(sc_vols, v) = Catalog!NoVolume
        OBVIOUS
      <3> HIDE DEF t, m
      <3>q. QED
        BY <3>1, <3>2
    <2>2. ASSUME NEW v \in Catalog!Volume
          PROVE  /\ sc_vols'[v] \in VolumeRow
                 /\ \/ sc_vols'[v] = sc_vols[v]
                    \/ /\ sc_vols'[v].st = "grabbed" /\ v # 0
                       /\ sc_vols[v].st \in {"wanted", "absent"}
      <3>1. CASE v \in taken
        <4>1. v \notin made
          <5>1. v \in made => sc_vols[v].st = "absent"
            BY <1>0, <2>1, RowOfType
          <5>q. QED
            BY <2>1, <3>1, <5>1
        <4>2. sc_vols'[v] = [sc_vols[v] EXCEPT !.st = "grabbed"]
          BY <2>1, <3>1, <4>1
        <4>q. QED
          BY <1>r, <2>1, <3>1, <4>2, VolumeBounds DEF VolumeRow, Catalog!Status
      <3>2. CASE v \notin taken /\ v \in made
        <4>1. sc_vols'[v] = [st |-> "grabbed", mon |-> TRUE]
          BY <2>1, <3>2
        <4>2. sc_vols[v].st = "absent"
          BY <1>0, <2>1, <3>2, RowOfType
        <4>q. QED
          BY <3>2, <4>1, <4>2, VolumeBounds DEF VolumeRow, Catalog!Status
      <3>3. CASE v \notin taken /\ v \notin made
        BY <1>r, <2>1, <3>3
      <3>q. QED
        BY <3>1, <3>2, <3>3
    <2>3. sc_vols' \in VolumeTable
      <3>1. sc_vols' = [v \in Catalog!Volume |-> sc_vols'[v]]
        BY <2>1
      <3>q. QED
        BY <2>2, <3>1 DEF VolumeTable
    <2>4. Catalog!Kept /\ VolumesStay
      BY <2>2, VolumeBounds DEF Catalog!Kept, VolumesStay
    <2>5. sc_chs' \in ChapterTable /\ SameLinks /\ DownloadsStay(sc_chs, sc_chs')
      BY <1>0, <2>1, CascadeKeeps DEF SameLinks, DownloadsStay, Catalog!Status
    <2>6. CatalogInv' /\ Catalog!MappedKept
      BY <1>0, <1>1, <2>3, <2>4, <2>5, StatusStep
    <2>q. QED
      BY <2>4, <2>5, <2>6, DownloadsAreKept DEF CatalogKeeps, Catalog!AcquiredKept
  <1>4. CASE UNCHANGED <<sc_vols, sc_chs>>
    BY <1>0, <1>1, <1>4, VolumesStep, SameVolumesKept
  <1>q. QED
    BY <1>2, <1>3, <1>4 DEF Catalog!_grab_volume_task

-----------------------------------------------------------------------------
(* The handlers for chapters, and imports.                                 *)

\* A volume whose chapters are all there becomes downloaded, if it has a row.
LEMMA CompletedKeeps ==
  ASSUME NEW vs \in VolumeTable, NEW cs, NEW v \in Catalog!Volume \cup {Catalog!NoVolume},
         v # Catalog!NoVolume => vs[v].st # "absent"
  PROVE  LET ws == Catalog!Completed(vs, cs, v)
         IN /\ ws \in VolumeTable
            /\ \A u \in Catalog!Volume : \/ ws[u] = vs[u]
                                         \/ vs[u].st # "absent" /\ ws[u].st = "downloaded"
  <1> DEFINE ws == Catalog!Completed(vs, cs, v)
  <1>1. CASE ws = vs
    BY <1>1
  <1>2. CASE v \in Catalog!Volume /\ ws = [vs EXCEPT ![v].st = "downloaded"]
    BY <1>2, VolumeBounds DEF VolumeTable, VolumeRow, Catalog!Status
  <1>q. QED
    BY <1>1, <1>2 DEF Catalog!Completed

LEMMA ChapterHandlers ==
  ASSUME CatalogInv,
         \/ \E c \in Catalog!Chapter : \/ Catalog!mark_chapter_downloaded(c)
                                       \/ Catalog!mark_chapter_wanted(c)
                                       \/ Catalog!toggle_chapter_monitor(c)
                                       \/ Catalog!_grab_chapter_task(c)
         \/ Catalog!uncollected_mark_downloaded \/ Catalog!uncollected_toggle_monitor
  PROVE  CatalogKeeps
  <1> DEFINE Same(cs) == \A c \in Catalog!Chapter :
                           /\ sc_chs[c].st # "absent" => cs[c].st # "absent"
                           /\ cs[c].vol = sc_chs[c].vol /\ cs[c].end = sc_chs[c].end
  <1>0. /\ sc_vols \in VolumeTable /\ sc_chs \in ChapterTable /\ sc_total \in 0..sc_MaxVolume
        /\ sc_series \in [mon : BOOLEAN, mode : Catalog!Mode]
        /\ sc_task \in Catalog!Volume \cup {Catalog!NoVolume}
    BY CatalogTypes DEF CatalogInv
  <1>r. \A c \in Catalog!Chapter : sc_chs[c] \in ChapterRow
    BY <1>0 DEF ChapterTable
  <1> DEFINE set(c, st) == [sc_chs EXCEPT ![c].st = st]
  <1>1. ASSUME NEW c \in Catalog!Chapter, NEW st \in {"wanted", "grabbed", "downloaded"}
        PROVE  /\ set(c, st) \in ChapterTable /\ Same(set(c, st))
               /\ st = "downloaded" => DownloadsStay(sc_chs, set(c, st))
               /\ \A d \in Catalog!Chapter : d # c => set(c, st)[d] = sc_chs[d]
    BY <1>0 DEF ChapterTable, ChapterRow, Catalog!Status, DownloadsStay
  <1>2. ASSUME sc_chs' \in ChapterTable, Same(sc_chs'), Catalog!DownloadsKept,
               UNCHANGED <<sc_vols, sc_cmap, sc_total, sc_series, sc_task>>
        PROVE  CatalogKeeps
    <2>1. SameLinks /\ VolumesStay /\ Catalog!Kept
      BY <1>2, SameVolumesKept DEF SameLinks
    <2>2. CatalogInv' /\ Catalog!MappedKept
      BY <1>0, <1>2, <2>1, StatusStep
    <2>q. QED
      BY <1>2, <2>1, <2>2 DEF CatalogKeeps, Catalog!AcquiredKept
  <1>4. ASSUME NEW c \in Catalog!Chapter, Catalog!mark_chapter_downloaded(c) PROVE CatalogKeeps
    <2> DEFINE cs == set(c, "downloaded")
    <2>1. /\ sc_vols' = Catalog!Completed(sc_vols, cs, sc_chs[c].vol)
          /\ sc_chs' = Catalog!trg_vol_downloaded_cascade(sc_vols', cs)
          /\ UNCHANGED <<sc_cmap, sc_total, sc_series, sc_task>>
      BY <1>4 DEF Catalog!mark_chapter_downloaded
    <2>2. cs \in ChapterTable /\ Same(cs) /\ DownloadsStay(sc_chs, cs)
      BY <1>1
    <2> HIDE DEF cs
    <2>3. /\ sc_chs[c].vol \in Catalog!Volume \cup {Catalog!NoVolume}
          /\ sc_chs[c].vol # Catalog!NoVolume => sc_vols[sc_chs[c].vol].st # "absent"
      BY <1>r DEF ChapterRow, CatalogInv, Catalog!LinksStand, Catalog!Exists
    <2>4. /\ sc_vols' \in VolumeTable
          /\ \A u \in Catalog!Volume :
               \/ sc_vols'[u] = sc_vols[u]
               \/ sc_vols[u].st # "absent" /\ sc_vols'[u].st = "downloaded"
      BY <1>0, <2>1, <2>3, CompletedKeeps
    <2>5. Catalog!Kept /\ VolumesStay
      BY <2>4, VolumeBounds DEF Catalog!Kept, VolumesStay
    <2>6. \A d \in Catalog!Chapter :
             /\ sc_chs[d].st # "absent" => cs[d].st # "absent"
             /\ cs[d].vol = sc_chs[d].vol /\ cs[d].end = sc_chs[d].end
             /\ sc_chs[d].st = "downloaded" => cs[d].st = "downloaded"
      BY <2>2 DEF DownloadsStay
    <2>q. QED
      BY <2>1, <2>2, <2>4, <2>5, <2>6, TriggerStep
  <1>5. ASSUME NEW c \in Catalog!Chapter, Catalog!mark_chapter_wanted(c) PROVE CatalogKeeps
    <2>1. /\ sc_chs' = set(c, "wanted")
          /\ UNCHANGED <<sc_vols, sc_cmap, sc_total, sc_series, sc_task>>
      BY <1>5 DEF Catalog!mark_chapter_wanted
    <2>2. /\ sc_chs' \in ChapterTable /\ Same(sc_chs')
          /\ \A d \in Catalog!Chapter : d # c => sc_chs'[d] = sc_chs[d]
      BY <1>1, <2>1
    <2>3. Catalog!DownloadsKept
      BY <1>5, <2>2 DEF Catalog!DownloadsKept
    <2>q. QED
      BY <1>2, <2>1, <2>2, <2>3
  <1>6. ASSUME NEW c \in Catalog!Chapter, Catalog!_grab_chapter_task(c) PROVE CatalogKeeps
    <2>1. /\ sc_chs' = set(c, "grabbed") /\ sc_chs[c].st = "wanted"
          /\ UNCHANGED <<sc_vols, sc_cmap, sc_total, sc_series, sc_task>>
      BY <1>6 DEF Catalog!_grab_chapter_task
    <2>2. /\ sc_chs' \in ChapterTable /\ Same(sc_chs')
          /\ \A d \in Catalog!Chapter : d # c => sc_chs'[d] = sc_chs[d]
      BY <1>1, <2>1
    <2>3. DownloadsStay(sc_chs, sc_chs')
      BY <2>1, <2>2 DEF DownloadsStay
    <2>q. QED
      BY <1>2, <2>1, <2>2, <2>3, DownloadsAreKept
  <1>7. ASSUME NEW c \in Catalog!Chapter, Catalog!toggle_chapter_monitor(c) PROVE CatalogKeeps
    <2>1. /\ sc_chs' = [sc_chs EXCEPT ![c] = [sc_chs[c] EXCEPT !.mon = ~sc_chs[c].mon]]
          /\ UNCHANGED <<sc_vols, sc_cmap, sc_total, sc_series, sc_task>>
      BY <1>7 DEF Catalog!toggle_chapter_monitor
    <2> DEFINE on == ~sc_chs[c].mon
               row == [sc_chs[c] EXCEPT !.mon = on]
    <2>b. on \in BOOLEAN
      OBVIOUS
    <2>2. /\ row \in ChapterRow /\ row.st = sc_chs[c].st /\ row.vol = sc_chs[c].vol
          /\ row.end = sc_chs[c].end
      <3> HIDE DEF on
      <3>q. QED
        BY <1>r, <2>b DEF ChapterRow
    <2> HIDE DEF row
    <2>3. sc_chs' \in ChapterTable /\ Same(sc_chs') /\ DownloadsStay(sc_chs, sc_chs')
      BY <1>0, <2>1, <2>2 DEF DownloadsStay, ChapterTable, row
    <2>q. QED
      BY <1>2, <2>1, <2>3, DownloadsAreKept
  <1>8. CASE Catalog!uncollected_mark_downloaded
    <2>1. /\ sc_chs' = [c \in Catalog!Chapter |->
                          IF c \in Catalog!Uncollected THEN [sc_chs[c] EXCEPT !.st = "downloaded"]
                          ELSE sc_chs[c]]
          /\ UNCHANGED <<sc_vols, sc_cmap, sc_total, sc_series, sc_task>>
      BY <1>8 DEF Catalog!uncollected_mark_downloaded
    <2>2. sc_chs' \in ChapterTable /\ Same(sc_chs') /\ DownloadsStay(sc_chs, sc_chs')
      BY <1>r, <2>1 DEF DownloadsStay, ChapterTable, ChapterRow, Catalog!Status
    <2>q. QED
      BY <1>2, <2>1, <2>2, DownloadsAreKept
  <1>9. CASE Catalog!uncollected_toggle_monitor
    <2>1. PICK first \in Catalog!Uncollected :
            sc_chs' = [c \in Catalog!Chapter |->
                         IF c \in Catalog!Uncollected
                         THEN [sc_chs[c] EXCEPT !.mon = ~sc_chs[first].mon] ELSE sc_chs[c]]
      BY <1>9 DEF Catalog!uncollected_toggle_monitor
    <2>2. UNCHANGED <<sc_vols, sc_cmap, sc_total, sc_series, sc_task>>
      BY <1>9 DEF Catalog!uncollected_toggle_monitor
    <2> DEFINE on == ~sc_chs[first].mon
    <2>3. on \in BOOLEAN
      OBVIOUS
    <2>4. sc_chs' = [c \in Catalog!Chapter |->
                       IF c \in Catalog!Uncollected THEN [sc_chs[c] EXCEPT !.mon = on]
                       ELSE sc_chs[c]]
      BY <2>1
    <2> HIDE DEF on
    <2>5. sc_chs' \in ChapterTable /\ Same(sc_chs') /\ DownloadsStay(sc_chs, sc_chs')
      BY <1>r, <2>3, <2>4 DEF DownloadsStay, ChapterTable, ChapterRow
    <2>q. QED
      BY <1>2, <2>2, <2>5, DownloadsAreKept
  <1>q. QED
    BY <1>4, <1>5, <1>6, <1>7, <1>8, <1>9

\* An import writes the row of its first chapter, narrows it at most, and makes the row
\* of its volume, if it has none.
LEMMA ImportChapterStep ==
  ASSUME CatalogInv, NEW c \in Catalog!Chapter, NEW end \in 0..sc_MaxChapter,
         NEW n \in 0..sc_MaxVolume, Catalog!import_chapter(c, end, n)
  PROVE  CatalogKeeps
  <1> DEFINE first == Catalog!FirstRow(sc_vols, n)
             at == IF n = 0 THEN Catalog!NoVolume ELSE IF first # Catalog!NoVolume THEN first ELSE n
             vs == IF n # 0 /\ first = Catalog!NoVolume
                   THEN [sc_vols EXCEPT ![n] = [st |-> "wanted", mon |-> TRUE]] ELSE sc_vols
             on == Catalog!Present(c) => sc_chs[c].mon
             of == IF Catalog!Present(c) /\ sc_chs[c].vol # Catalog!NoVolume
                   THEN sc_chs[c].vol ELSE at
             to == Catalog!RangeEnd(c, end)
             row == [st |-> "downloaded", mon |-> on, vol |-> of, end |-> to]
             cs == [sc_chs EXCEPT ![c] = row]
  <1>0. /\ sc_vols \in VolumeTable /\ sc_chs \in ChapterTable /\ sc_total \in 0..sc_MaxVolume
        /\ sc_cmap \in MapTable /\ sc_series \in [mon : BOOLEAN, mode : Catalog!Mode]
        /\ sc_task \in Catalog!Volume \cup {Catalog!NoVolume}
        /\ Standing(sc_vols, sc_chs) /\ RangesRight(sc_chs)
    BY CatalogTypes, StandingIs DEF CatalogInv
  <1>1. /\ end # 0 => c <= end
        /\ sc_vols' = Catalog!Completed(vs, cs, at)
        /\ sc_chs' = Catalog!trg_vol_downloaded_cascade(sc_vols', cs)
        /\ UNCHANGED <<sc_cmap, sc_total, sc_series, sc_task>>
    BY DEF Catalog!import_chapter
  <1>r. sc_chs[c] \in ChapterRow
    BY <1>0 DEF ChapterTable
  <1>2. /\ vs \in VolumeTable /\ at \in Catalog!Volume \cup {Catalog!NoVolume}
        /\ at # Catalog!NoVolume => vs[at].st # "absent"
        /\ \A v \in Catalog!Volume : vs[v] = sc_vols[v] \/ (sc_vols[v].st = "absent" /\ v # 0)
    <2>1. CASE n = 0
      BY <1>0, <2>1
    <2>2. CASE n # 0
      <3>1. n \in Catalog!Number /\ n \in Catalog!Volume
        BY <2>2, VolumeBounds DEF Catalog!Number
      <3>2. /\ first # Catalog!NoVolume => first \in Catalog!Volume /\ sc_vols[first].st # "absent"
            /\ sc_vols[n].st # "absent" => first # Catalog!NoVolume
        BY <1>0, <3>1, RowOfType
      <3> HIDE DEF first
      <3>3. [st |-> "wanted", mon |-> TRUE] \in VolumeRow
        BY DEF VolumeRow, Catalog!Status
      <3>4. vs \in VolumeTable
        BY <1>0, <3>1, <3>3 DEF VolumeTable
      <3>q. QED
        BY <1>0, <2>2, <3>1, <3>2, <3>4, VolumeBounds DEF VolumeTable
    <2>q. QED
      BY <2>1, <2>2
  <1>3. to \in Catalog!Chapter /\ c <= to
    <2>1. end # 0 => end \in Catalog!Chapter
      BY VolumeBounds DEF Catalog!Chapter
    <2>q. QED
      BY <1>0, <1>1, <1>r, <2>1, VolumeBounds DEF Catalog!RangeEnd, ChapterRow, RangesRight
  <1>4. of \in Catalog!Volume \cup {Catalog!NoVolume}
    BY <1>2, <1>r DEF ChapterRow
  <1>5. of # Catalog!NoVolume => of \in Catalog!Volume /\ vs[of].st # "absent"
    <2>1. CASE of = at
      BY <1>2, <1>4, <2>1
    <2>2. CASE of = sc_chs[c].vol
      BY <1>0, <1>2, <1>4, <2>2 DEF Standing
    <2>q. QED
      BY <2>1, <2>2
  <1>6. on \in BOOLEAN
    BY <1>r DEF ChapterRow
  <1>n. Catalog!Present(c) /\ end = 0 => to = sc_chs[c].end
    BY DEF Catalog!RangeEnd
  <1>e. end # 0 => to = end
    BY DEF Catalog!RangeEnd
  <1> HIDE DEF vs, at, on, of, to
  <1>7. row \in ChapterRow /\ row.st = "downloaded" /\ row.vol = of /\ row.end = to
    BY <1>3, <1>4, <1>6 DEF ChapterRow, Catalog!Status
  <1> HIDE DEF row
  <1>8. /\ cs \in ChapterTable /\ cs[c] = row
        /\ \A d \in Catalog!Chapter : d # c => cs[d] = sc_chs[d]
    BY <1>0, <1>7 DEF ChapterTable
  <1> HIDE DEF cs
  <1>9. /\ sc_vols' \in VolumeTable
        /\ \A v \in Catalog!Volume :
             \/ sc_vols'[v] = vs[v]
             \/ vs[v].st # "absent" /\ sc_vols'[v].st = "downloaded"
    BY <1>1, <1>2, CompletedKeeps
  <1>10. Catalog!Kept /\ VolumesStay
    BY <1>2, <1>9, VolumeBounds DEF Catalog!Kept, VolumesStay
  <1>11. /\ sc_chs' \in ChapterTable
         /\ \A d \in Catalog!Chapter :
              /\ cs[d].st # "absent" => sc_chs'[d].st # "absent"
              /\ sc_chs'[d].vol = cs[d].vol /\ sc_chs'[d].end = cs[d].end
              /\ cs[d].st = "downloaded" => sc_chs'[d].st = "downloaded"
    BY <1>1, <1>8, TriggerKeeps
  <1>12. Standing(sc_vols', sc_chs')
    <2> SUFFICES ASSUME NEW d \in Catalog!Chapter, sc_chs'[d].vol # Catalog!NoVolume
                 PROVE  sc_vols'[sc_chs'[d].vol].st # "absent"
      BY DEF Standing
    <2>1. CASE d = c
      <3>1. sc_chs'[d].vol = of
        BY <1>7, <1>8, <1>11, <2>1
      <3>q. QED
        BY <1>5, <1>9, <3>1
    <2>2. CASE d # c
      <3>1. sc_chs'[d].vol = sc_chs[d].vol
        BY <1>8, <1>11, <2>2
      <3>2. sc_chs[d].vol \in Catalog!Volume \cup {Catalog!NoVolume}
        BY <1>0 DEF ChapterTable, ChapterRow
      <3>3. sc_chs[d].vol \in Catalog!Volume /\ sc_vols[sc_chs[d].vol].st # "absent"
        BY <1>0, <3>1, <3>2 DEF Standing
      <3>q. QED
        BY <1>10, <3>1, <3>3 DEF VolumesStay
    <2>q. QED
      BY <2>1, <2>2
  <1>13. RangesRight(sc_chs')
    BY <1>0, <1>3, <1>7, <1>8, <1>11 DEF RangesRight
  <1>14. CatalogInv'
    BY <1>0, <1>1, <1>9, <1>11, <1>12, <1>13, TablesInv
  <1>15. ASSUME NEW d \in Catalog!Chapter, sc_chs[d].st # "absent"
         PROVE  /\ sc_chs'[d].st # "absent"
                /\ \A b \in Catalog!Chapter :
                     d <= b /\ b <= sc_chs[d].end => b <= sc_chs'[d].end \/ Catalog!Narrowed(b)
    <2>1. CASE d # c
      BY <1>8, <1>11, <1>15, <2>1
    <2>2. CASE d = c
      <3>1. sc_chs'[d].st # "absent" /\ sc_chs'[d].end = to
        BY <1>7, <1>8, <1>11, <2>2
      <3>2. ASSUME NEW b \in Catalog!Chapter, d <= b, b <= sc_chs[d].end, ~(b <= to)
            PROVE  Catalog!Narrowed(b)
        <4>1. end # 0
          BY <1>15, <1>n, <2>2, <3>2 DEF Catalog!Present
        <4>2. end \in Catalog!Chapter /\ end < b
          BY <1>e, <3>2, <4>1, VolumeBounds DEF Catalog!Chapter
        <4>q. QED
          BY <2>2, <3>2, <4>2 DEF Catalog!Narrowed
      <3>q. QED
        BY <3>1, <3>2
    <2>q. QED
      BY <2>1, <2>2
  <1>16. Catalog!MappedKept
    BY <1>10, <1>14, <1>15, RowsKeepMapped DEF VolumesStay
  <1>17. DownloadsStay(sc_chs, sc_chs')
    BY <1>7, <1>8, <1>11 DEF DownloadsStay
  <1>q. QED
    BY <1>10, <1>14, <1>16, <1>17, DownloadsAreKept DEF CatalogKeeps, Catalog!AcquiredKept

\* An import of a volume makes its row, if the number has none.
LEMMA ImportVolumeStep ==
  ASSUME CatalogInv, NEW n \in Catalog!Number, Catalog!import_volume(n)
  PROVE  CatalogKeeps
  <1> DEFINE first == Catalog!FirstRow(sc_vols, n)
  <1>0. /\ sc_vols \in VolumeTable /\ sc_total \in 0..sc_MaxVolume
        /\ sc_series \in [mon : BOOLEAN, mode : Catalog!Mode]
        /\ sc_task \in Catalog!Volume \cup {Catalog!NoVolume}
    BY CatalogTypes DEF CatalogInv
  <1>1. /\ first # Catalog!NoVolume => first \in Catalog!Volume /\ Catalog!Exists(first)
        /\ sc_vols[n].st # "absent" => first # Catalog!NoVolume
    BY <1>0, RowOfType DEF Catalog!Exists
  <1>2. /\ \/ first # Catalog!NoVolume /\ Catalog!SetVolume(first, "downloaded")
           \/ /\ first = Catalog!NoVolume /\ UNCHANGED sc_chs
              /\ sc_vols' = [sc_vols EXCEPT ![n] = [st |-> "downloaded", mon |-> TRUE]]
        /\ UNCHANGED <<sc_cmap, sc_total, sc_series, sc_task>>
    BY DEF Catalog!import_volume
  <1> HIDE DEF first
  <1>3. CASE first # Catalog!NoVolume /\ Catalog!SetVolume(first, "downloaded")
    BY <1>0, <1>1, <1>2, <1>3, AcquireStep
  <1>4. CASE /\ first = Catalog!NoVolume /\ UNCHANGED sc_chs
             /\ sc_vols' = [sc_vols EXCEPT ![n] = [st |-> "downloaded", mon |-> TRUE]]
    <2>1. [st |-> "downloaded", mon |-> TRUE] \in VolumeRow
      BY DEF VolumeRow, Catalog!Status
    <2>2. sc_vols' \in VolumeTable /\ Catalog!Kept /\ VolumesStay
      BY <1>0, <1>1, <1>4, <2>1, VolumeBounds DEF VolumeTable, Catalog!Kept, VolumesStay
    <2>q. QED
      BY <1>0, <1>2, <1>4, <2>2, VolumesStep
  <1>q. QED
    BY <1>2, <1>3, <1>4

-----------------------------------------------------------------------------
(* The map: refreshes, edits, counts and the reconciler.                   *)

\* A transaction that keeps the rows and links them to rows that are there.
LEMMA LinkStep ==
  ASSUME CatalogInv, UNCHANGED <<sc_series, sc_task>>, sc_total' \in 0..sc_MaxVolume,
         sc_cmap' \in MapTable, sc_vols' \in VolumeTable, sc_chs' \in ChapterTable,
         Standing(sc_vols', sc_chs'), RangesRight(sc_chs'),
         RowsStay(sc_chs, sc_chs'), DownloadsStay(sc_chs, sc_chs'),
         sc_vols[0].st = "absent" => sc_vols'[0].st = "absent", Catalog!Kept
  PROVE  CatalogKeeps
  <1>1. /\ sc_series \in [mon : BOOLEAN, mode : Catalog!Mode]
        /\ sc_task \in Catalog!Volume \cup {Catalog!NoVolume}
    BY CatalogTypes DEF CatalogInv
  <1>2. CatalogInv'
    BY <1>1, TablesInv
  <1>3. Catalog!MappedKept
    BY <1>2, RowsStayMapped
  <1>q. QED
    BY <1>2, <1>3, DownloadsAreKept DEF CatalogKeeps, Catalog!AcquiredKept

LEMMA CountStep ==
  ASSUME CatalogInv, NEW n \in Catalog!Number, Catalog!provider_count(n)
  PROVE  CatalogKeeps
  <1>0. /\ sc_vols \in VolumeTable /\ sc_chs \in ChapterTable /\ sc_cmap \in MapTable
        /\ Standing(sc_vols, sc_chs) /\ RangesRight(sc_chs)
    BY CatalogTypes, StandingIs DEF CatalogInv
  <1>1. n \in 0..sc_MaxVolume
    BY VolumeBounds DEF Catalog!Number
  <1>2. /\ sc_vols' = Catalog!Stubbed(sc_vols, n)
        /\ sc_chs' = Catalog!Linked(sc_vols', sc_chs, sc_cmap)
        /\ sc_total' = n /\ UNCHANGED <<sc_cmap, sc_series, sc_task>>
    BY DEF Catalog!provider_count, Catalog!create_volume_stubs
  <1>3. /\ sc_vols' \in VolumeTable /\ sc_vols'[0] = sc_vols[0]
        /\ \A v \in Catalog!Volume : sc_vols[v].st # "absent" => sc_vols'[v] = sc_vols[v]
    BY <1>0, <1>1, <1>2, StubbedKeeps DEF CatalogInv
  <1>4. Standing(sc_vols', sc_chs)
    <2>1. \A c \in Catalog!Chapter : sc_chs[c].vol \in Catalog!Volume \cup {Catalog!NoVolume}
      BY <1>0 DEF ChapterTable, ChapterRow
    <2>q. QED
      BY <1>0, <1>3, <2>1 DEF Standing
  <1>5. /\ sc_chs' \in ChapterTable /\ Standing(sc_vols', sc_chs') /\ RangesRight(sc_chs')
        /\ RowsStay(sc_chs, sc_chs') /\ DownloadsStay(sc_chs, sc_chs')
    BY <1>0, <1>2, <1>3, <1>4, LinkedKeeps
  <1>6. Catalog!Kept
    BY <1>3 DEF Catalog!Kept
  <1>q. QED
    BY <1>0, <1>1, <1>2, <1>3, <1>5, <1>6, LinkStep

LEMMA RefreshMapStep ==
  ASSUME CatalogInv, NEW m \in MapTable, Catalog!refresh_mangadex_map(m)
  PROVE  CatalogKeeps
  <1>0. /\ sc_vols \in VolumeTable /\ sc_chs \in ChapterTable
        /\ sc_total \in 0..sc_MaxVolume
        /\ Standing(sc_vols, sc_chs) /\ RangesRight(sc_chs)
    BY CatalogTypes, StandingIs DEF CatalogInv
  <1>1. /\ sc_cmap' = m /\ sc_chs' = Catalog!populate_chapters(sc_vols, sc_chs, m)
        /\ UNCHANGED <<sc_vols, sc_total, sc_series, sc_task>>
    BY DEF Catalog!refresh_mangadex_map
  <1>2. /\ sc_chs' \in ChapterTable /\ Standing(sc_vols, sc_chs') /\ RangesRight(sc_chs')
        /\ RowsStay(sc_chs, sc_chs') /\ DownloadsStay(sc_chs, sc_chs')
    BY <1>0, <1>1, PopulatedKeeps
  <1>q. QED
    BY <1>0, <1>1, <1>2, SameVolumesKept, LinkStep

LEMMA EditSeriesStep ==
  ASSUME CatalogInv, NEW n \in 0..sc_MaxVolume, NEW m \in MapTable,
         Catalog!edit_series(n, m)
  PROVE  CatalogKeeps
  <1> DEFINE gone == IF n # 0 /\ sc_total # 0 /\ n < sc_total THEN Catalog!Dropped(n) ELSE {}
             left == [v \in Catalog!Volume |-> IF v \in gone THEN Catalog!AbsentVolume
                                               ELSE sc_vols[v]]
             loose == [c \in Catalog!Chapter |->
                         IF sc_chs[c].vol \in gone
                         THEN [sc_chs[c] EXCEPT !.vol = Catalog!NoVolume] ELSE sc_chs[c]]
             count == IF n # 0 THEN n ELSE sc_total
             map == IF m # Catalog!NoMap THEN m ELSE sc_cmap
             linked == IF count = 0 THEN loose
                       ELSE Catalog!Linked(Catalog!Stubbed(left, count), loose, map)
  <1>0. /\ sc_vols \in VolumeTable /\ sc_chs \in ChapterTable /\ sc_cmap \in MapTable
        /\ sc_total \in 0..sc_MaxVolume
        /\ Standing(sc_vols, sc_chs) /\ RangesRight(sc_chs)
    BY CatalogTypes, StandingIs DEF CatalogInv
  <1>1. /\ sc_total' = count /\ sc_cmap' = map /\ sc_vols' = Catalog!Stubbed(left, count)
        /\ UNCHANGED <<sc_series, sc_task>>
        /\ \/ sc_chs' = Catalog!populate_chapters(sc_vols', linked, map)
           \/ sc_chs' = linked
    BY DEF Catalog!edit_series
  <1>2. \A v \in gone : sc_vols[v].st = "wanted"
    BY DEF Catalog!Dropped
  <1> HIDE DEF gone
  <1>3. /\ left \in VolumeTable
        /\ \A v \in Catalog!Volume : v \notin gone => left[v] = sc_vols[v]
        /\ sc_vols[0].st = "absent" => left[0].st = "absent"
    BY <1>0, VolumeBounds DEF VolumeTable, VolumeRow, Catalog!AbsentVolume
  <1>4. /\ loose \in ChapterTable /\ RangesRight(loose)
        /\ RowsStay(sc_chs, loose) /\ DownloadsStay(sc_chs, loose)
        /\ \A c \in Catalog!Chapter : loose[c].vol # Catalog!NoVolume =>
             /\ loose[c].vol \in Catalog!Volume \ gone
             /\ sc_vols[loose[c].vol].st # "absent"
    <2>1. ASSUME NEW c \in Catalog!Chapter
          PROVE  /\ loose[c] \in ChapterRow /\ loose[c].st = sc_chs[c].st
                 /\ loose[c].end = sc_chs[c].end
                 /\ loose[c].vol # Catalog!NoVolume =>
                      /\ loose[c].vol \in Catalog!Volume \ gone
                      /\ sc_vols[loose[c].vol].st # "absent"
      <3>1. sc_chs[c] \in ChapterRow
        BY <1>0 DEF ChapterTable
      <3>2. CASE sc_chs[c].vol \in gone
        <4>1. loose[c] = [sc_chs[c] EXCEPT !.vol = Catalog!NoVolume]
          BY <3>2
        <4>q. QED
          BY <3>1, <4>1 DEF ChapterRow
      <3>3. CASE sc_chs[c].vol \notin gone
        <4>1. loose[c] = sc_chs[c]
          BY <3>3
        <4>q. QED
          BY <1>0, <3>1, <3>3, <4>1 DEF ChapterRow, Standing
      <3>q. QED
        BY <3>2, <3>3
    <2>2. loose = [c \in Catalog!Chapter |-> loose[c]]
      OBVIOUS
    <2>3. loose \in ChapterTable
      BY <2>1, <2>2 DEF ChapterTable
    <2> HIDE DEF loose
    <2>q. QED
      BY <1>0, <2>1, <2>3 DEF RangesRight, RowsStay, DownloadsStay
  <1>5. count \in 0..sc_MaxVolume /\ map \in MapTable
    BY <1>0
  <1> HIDE DEF left, loose, count, map
  <1>6. /\ sc_vols' \in VolumeTable /\ sc_vols'[0] = left[0]
        /\ \A v \in Catalog!Volume : left[v].st # "absent" => sc_vols'[v] = left[v]
    BY <1>1, <1>3, <1>5, StubbedKeeps DEF CatalogInv
  <1>7. Catalog!Kept
    <2> SUFFICES ASSUME NEW v \in Catalog!Volume, sc_vols[v].st \in {"grabbed", "downloaded"}
                 PROVE  sc_vols'[v] = sc_vols[v]
      BY DEF Catalog!Kept
    <2>1. v \notin gone
      BY <1>2
    <2>q. QED
      BY <1>3, <1>6, <2>1
  <1>8. Standing(sc_vols', loose)
    BY <1>3, <1>4, <1>6 DEF Standing
  <1>9. /\ linked \in ChapterTable /\ Standing(sc_vols', linked) /\ RangesRight(linked)
        /\ RowsStay(sc_chs, linked) /\ DownloadsStay(sc_chs, linked)
    <2>1. CASE count = 0
      BY <1>4, <1>8, <2>1
    <2>2. CASE count # 0
      <3>1. linked = Catalog!Linked(sc_vols', loose, map)
        BY <1>1, <2>2
      <3>2. /\ linked \in ChapterTable /\ Standing(sc_vols', linked) /\ RangesRight(linked)
            /\ RowsStay(loose, linked) /\ DownloadsStay(loose, linked)
        BY <1>4, <1>5, <1>6, <1>8, <3>1, LinkedKeeps
      <3> HIDE DEF linked
      <3>3. RowsStay(sc_chs, linked) /\ DownloadsStay(sc_chs, linked)
        BY <1>4, <3>2 DEF RowsStay, DownloadsStay
      <3>q. QED
        BY <3>2, <3>3
    <2>q. QED
      BY <2>1, <2>2
  <1> HIDE DEF linked
  <1>10. /\ sc_chs' \in ChapterTable /\ Standing(sc_vols', sc_chs') /\ RangesRight(sc_chs')
         /\ RowsStay(sc_chs, sc_chs') /\ DownloadsStay(sc_chs, sc_chs')
    <2>1. CASE sc_chs' = Catalog!populate_chapters(sc_vols', linked, map)
      <3>1. /\ sc_chs' \in ChapterTable /\ Standing(sc_vols', sc_chs') /\ RangesRight(sc_chs')
            /\ RowsStay(linked, sc_chs') /\ DownloadsStay(linked, sc_chs')
        BY <1>5, <1>6, <1>9, <2>1, PopulatedKeeps
      <3>2. RowsStay(sc_chs, sc_chs') /\ DownloadsStay(sc_chs, sc_chs')
        BY <1>9, <3>1 DEF RowsStay, DownloadsStay
      <3>q. QED
        BY <3>1, <3>2
    <2>2. CASE sc_chs' = linked
      BY <1>9, <2>2
    <2>q. QED
      BY <1>1, <2>1, <2>2
  <1>q. QED
    BY <1>1, <1>3, <1>5, <1>6, <1>7, <1>10, LinkStep

LEMMA ReconcileStep ==
  ASSUME CatalogInv, Catalog!reconcile_series_chapter_map
  PROVE  CatalogKeeps
  <1>0. /\ sc_vols \in VolumeTable /\ sc_chs \in ChapterTable /\ sc_cmap \in MapTable
        /\ sc_total \in 0..sc_MaxVolume
        /\ Standing(sc_vols, sc_chs) /\ RangesRight(sc_chs)
    BY CatalogTypes, StandingIs DEF CatalogInv
  <1>1. /\ sc_chs' = [c \in Catalog!Chapter |->
                        IF Catalog!_chapter_plan_row(c) THEN [sc_chs[c] EXCEPT !.vol = sc_cmap[c]]
                        ELSE sc_chs[c]]
        /\ UNCHANGED <<sc_vols, sc_cmap, sc_total, sc_series, sc_task>>
    BY DEF Catalog!reconcile_series_chapter_map
  <1>2. ASSUME NEW c \in Catalog!Chapter
        PROVE  /\ sc_chs'[c] \in ChapterRow
               /\ sc_chs'[c].st = sc_chs[c].st /\ sc_chs'[c].end = sc_chs[c].end
               /\ sc_chs'[c].vol # Catalog!NoVolume => sc_vols[sc_chs'[c].vol].st # "absent"
    <2>1. sc_chs[c] \in ChapterRow
      BY <1>0 DEF ChapterTable
    <2>2. CASE Catalog!_chapter_plan_row(c)
      <3>1. sc_cmap[c] \in Catalog!Volume /\ sc_vols[sc_cmap[c]].st # "absent"
        BY <1>0, <2>2 DEF MapTable, Catalog!_chapter_plan_row, Catalog!Volume
      <3>2. sc_chs'[c] = [sc_chs[c] EXCEPT !.vol = sc_cmap[c]]
        BY <1>1, <2>2
      <3>q. QED
        BY <2>1, <3>1, <3>2 DEF ChapterRow
    <2>3. CASE ~Catalog!_chapter_plan_row(c)
      BY <1>0, <1>1, <2>1, <2>3 DEF Standing
    <2>q. QED
      BY <2>2, <2>3
  <1>3. sc_chs' \in ChapterTable
    BY <1>1, <1>2 DEF ChapterTable
  <1>4. /\ Standing(sc_vols, sc_chs') /\ RangesRight(sc_chs')
        /\ RowsStay(sc_chs, sc_chs') /\ DownloadsStay(sc_chs, sc_chs')
    BY <1>0, <1>2 DEF Standing, RangesRight, RowsStay, DownloadsStay
  <1>q. QED
    BY <1>0, <1>1, <1>3, <1>4, SameVolumesKept, LinkStep

LEMMA CatalogNextKeeps ==
  ASSUME CatalogInv, Catalog!Next
  PROVE  CatalogKeeps
  <1>1. Catalog!Maps = MapTable
    BY DEF Catalog!Maps, MapTable
  <1>2. CASE \/ \E n \in Catalog!Number : Catalog!provider_count(n)
             \/ \E m \in Catalog!Maps : Catalog!refresh_mangadex_map(m)
             \/ \E n \in 0..sc_MaxVolume, m \in Catalog!Maps : Catalog!edit_series(n, m)
             \/ Catalog!reconcile_series_chapter_map
    BY <1>1, <1>2, CountStep, RefreshMapStep, EditSeriesStep, ReconcileStep
  <1>3. CASE \/ \E n \in 0..sc_MaxVolume : Catalog!patch_series(n)
             \/ \E v \in Catalog!Volume : Catalog!toggle_volume_monitor(v) \/ Catalog!grab_volume(v)
             \/ Catalog!mark_all_grabbed_downloaded \/ Catalog!toggle_monitored
             \/ \E lo, hi \in Catalog!Number : Catalog!set_pack_range(lo, hi)
             \/ \E mode \in Catalog!Mode : Catalog!set_monitor_mode(mode)
    BY <1>3, VolumeHandlers
  <1>4. ASSUME NEW v \in Catalog!Volume, Catalog!mark_volume_downloaded(v) PROVE CatalogKeeps
    <2>1. sc_task' \in Catalog!Volume \cup {Catalog!NoVolume}
      BY <1>4, CatalogTypes DEF CatalogInv, Catalog!mark_volume_downloaded
    <2>q. QED
      BY <1>4, <2>1, AcquireStep DEF Catalog!mark_volume_downloaded
  <1>5. CASE \E v \in Catalog!Volume : Catalog!mark_volume_wanted(v)
                                       \/ Catalog!reset_volume_to_wanted(v)
    BY <1>5, ResetHandlers DEF Catalog!UserReset
  <1>6. CASE Catalog!_grab_volume_task
    BY <1>6, GrabVolumeStep
  <1>7. CASE \/ \E c \in Catalog!Chapter : \/ Catalog!mark_chapter_downloaded(c)
                                           \/ Catalog!mark_chapter_wanted(c)
                                           \/ Catalog!toggle_chapter_monitor(c)
                                           \/ Catalog!_grab_chapter_task(c)
             \/ Catalog!uncollected_mark_downloaded \/ Catalog!uncollected_toggle_monitor
    BY <1>7, ChapterHandlers
  <1>8. CASE \/ \E c \in Catalog!Chapter, end \in 0..sc_MaxChapter, n \in 0..sc_MaxVolume :
                  Catalog!import_chapter(c, end, n)
             \/ \E n \in Catalog!Number : Catalog!import_volume(n)
    BY <1>8, ImportChapterStep, ImportVolumeStep
  <1>q. QED
    BY <1>2, <1>3, <1>4, <1>5, <1>6, <1>7, <1>8 DEF Catalog!Next

\* volumes.populate_chapters, reconcile_series_chapter_map, edit_series, the grabs and
\* the imports: a map that is applied gives each of its chapters a mainline row, which no
\* other transaction takes away, every chapter's volume exists, and only the user makes
\* what was acquired wanted again.
THEOREM CatalogueIsKept == Spec => CatalogueKept
  <1>1. Init => CatalogInv
    BY CatalogInitInv DEF Init
  <1>0. [Next]_vars => [Catalog!Next]_sc_vars
    BY DEF Next, vars, CopyStep, BinStep, CatalogStep, SourcesStep, SettingsStep, MetadataStep
  <1>2. CatalogInv /\ [Next]_vars => CatalogInv'
    <2>1. CASE CatalogInv /\ Catalog!Next
      BY <2>1, CatalogNextKeeps DEF CatalogKeeps
    <2>2. CASE CatalogInv /\ UNCHANGED sc_vars
      <3>1. UNCHANGED <<sc_vols, sc_chs, sc_cmap, sc_total, sc_series, sc_task>>
        BY <2>2 DEF sc_vars
      <3>q. QED
        BY <2>2, <3>1 DEF CatalogInv, Catalog!TypeOK, Catalog!LinksStand, Catalog!Exists,
           RangesRight
    <2>q. QED
      BY <1>0, <2>1, <2>2
  <1>3. CatalogInv /\ [Next]_vars =>
          [comp = "catalog" =>
             /\ Catalog!MappedKept /\ Catalog!LinksStand'
             /\ Catalog!AcquiredKept /\ Catalog!DownloadsKept]_sc_vars
    BY <1>0, CatalogNextKeeps DEF CatalogKeeps, CatalogInv
  <1>q. QED
    BY <1>1, <1>2, <1>3, PTL DEF Spec, CatalogueKept

-----------------------------------------------------------------------------
(* Release sources: a token stands for one endpoint.                       *)

ScopeType == [tok : Nat, sub : BOOLEAN]
ItemType == [row : Sources!Row \cup {"none", "posted"}, scope : ScopeType, url : rs_Url,
             id : BOOLEAN, ep : Sources!Endpoint, gen : Nat]
GrabType == [pc : {"idle", "check", "io"}, item : ItemType]
BlockType == [url : rs_Url, id : BOOLEAN, scope : ScopeType, gen : Nat]
SourcesTypes ==
    /\ rs_ix \in [Sources!Row -> [on : BOOLEAN, en : BOOLEAN, ep : Sources!Endpoint,
                                  scope : ScopeType]]
    /\ rs_toks \in Nat /\ rs_gen \in [Sources!Row -> Nat]
    /\ rs_sync \in [pc : {"idle", "await"}, ep : Sources!Endpoint, scope : ScopeType]
    /\ {rs_found, rs_pend, rs_sel, rs_seen} \subseteq ItemType
    /\ rs_grab \in GrabType /\ rs_blocks \subseteq BlockType

\* Whatever carries a scope: rows, the parent a sync has read, and releases.
Held == {Sources!NoItem, rs_found, rs_pend, rs_sel, rs_grab.item, rs_seen}
Stamped == {rs_ix[r] : r \in Sources!Row} \cup {rs_sync} \cup Held
\* Every token was drawn, for one endpoint.
Fixes(ep) ==
    \A x \in Stamped : x.scope.tok \in 0..rs_toks /\ x.ep = ep[x.scope.tok]
TokenFixesEndpoint == \E ep \in [Nat -> Sources!Endpoint] : Fixes(ep)
\* A release has a row, or was posted; what is grabbed is a release.
RowsNamed ==
    /\ \A x \in Held : x.row = "none" => x = Sources!NoItem
    /\ rs_grab.pc # "idle" => rs_grab.item.row # "none"
\* A generation is the token of the Prowlarr row, and what is seen in it through either
\* row has the identity of the sub-indexer under that token.
OfGeneration(x, scope) == x.gen # 0 => scope = Sources!Scope(x.gen, TRUE)
GenerationFixesScope ==
    /\ rs_ix["parent"].scope = Sources!Scope(rs_gen["parent"], FALSE)
    /\ rs_gen["child"] # 0 =>
         rs_ix["child"].scope = Sources!Scope(rs_gen["child"], TRUE)
    /\ \A x \in Held : OfGeneration(x, Sources!source_scope(x))
    /\ \A b \in rs_blocks : OfGeneration(b, b.scope)

SourcesInv == SourcesTypes /\ TokenFixesEndpoint /\ GenerationFixesScope /\ RowsNamed

\* What a step of the sources has to show.
SourcesKeeps ==
    SourcesInv' /\ Sources!SourceStands /\ Sources!BlockHoldsOnBothWays

LEMMA NothingAdmitted ==
  ASSUME SourcesInv', rs_grab' = rs_grab \/ rs_grab.pc # "check" \/ rs_grab'.pc # "io"
  PROVE  SourcesKeeps
  BY DEF SourcesKeeps, Sources!SourceStands, Sources!BlockHoldsOnBothWays, Sources!Admitted

LEMMA NoItemIs ==
  /\ Sources!NoItem \in ItemType /\ Sources!NoItem.row = "none"
  /\ Sources!NoItem.scope = Sources!Scope(0, FALSE) /\ Sources!NoItem.ep = "A"
  /\ Sources!NoItem.gen = 0
  <1>1. (CHOOSE u \in rs_Url : TRUE) \in rs_Url
    BY CatalogueAssumption
  <1>q. QED
    BY <1>1 DEF Sources!NoItem, ItemType, ScopeType, Sources!Scope, Sources!Row, Sources!Endpoint

LEMMA ScopeIs ==
  ASSUME NEW t \in Nat, NEW sub \in BOOLEAN
  PROVE  /\ Sources!Scope(t, sub) \in ScopeType
         /\ Sources!Scope(t, sub).tok = t /\ Sources!Scope(t, sub).sub = sub
  BY DEF Sources!Scope, ScopeType

\* A release may be held: its token has one endpoint and its generation one identity.
Sound(x) ==
    /\ x \in ItemType /\ (x.row = "none" => x = Sources!NoItem)
    /\ OfGeneration(x, Sources!source_scope(x))
    /\ \A ep \in [Nat -> Sources!Endpoint] :
         Fixes(ep) => x.scope.tok \in 0..rs_toks /\ x.ep = ep[x.scope.tok]

LEMMA HeldSound == ASSUME SourcesInv PROVE \A x \in Held : Sound(x)
  <1> SUFFICES ASSUME NEW x \in Held PROVE Sound(x)
    OBVIOUS
  <1>1. x \in ItemType
    BY NoItemIs DEF SourcesInv, SourcesTypes, GrabType, Held
  <1>2. x.row = "none" => x = Sources!NoItem
    BY DEF SourcesInv, RowsNamed
  <1>3. OfGeneration(x, Sources!source_scope(x))
    BY DEF SourcesInv, GenerationFixesScope
  <1>4. \A ep \in [Nat -> Sources!Endpoint] :
          Fixes(ep) => x.scope.tok \in 0..rs_toks /\ x.ep = ep[x.scope.tok]
    BY DEF Fixes, Stamped
  <1>q. QED
    BY <1>1, <1>2, <1>3, <1>4 DEF Sound

\* A request that a fetch captures (release_sources.capture_source_request).
LEMMA CapturedSound ==
  ASSUME SourcesInv, NEW r \in Sources!Row, NEW u \in rs_Url, NEW id \in BOOLEAN
  PROVE  Sound(Sources!capture_source_request(r, u, id))
  <1> DEFINE x == Sources!capture_source_request(r, u, id)
  <1>1. x = [row |-> r, scope |-> rs_ix[r].scope, url |-> u, id |-> id, ep |-> rs_ix[r].ep,
             gen |-> rs_gen[r]]
    BY DEF Sources!capture_source_request
  <1>2. /\ rs_ix[r].scope \in ScopeType /\ rs_ix[r].ep \in Sources!Endpoint
        /\ rs_gen[r] \in Nat
    BY DEF SourcesInv, SourcesTypes
  <1> HIDE DEF x
  <1>3. x \in ItemType /\ x.row # "none"
    BY <1>1, <1>2 DEF ItemType, Sources!Row
  <1>4. OfGeneration(x, Sources!source_scope(x))
    <2>1. CASE r = "parent"
      <3>1. rs_ix["parent"].scope = Sources!Scope(rs_gen["parent"], FALSE)
        BY DEF SourcesInv, GenerationFixesScope
      <3>2. x.row = "parent" /\ x.gen = rs_gen["parent"] /\ x.scope = rs_ix["parent"].scope
        BY <1>1, <2>1
      <3>3. x.scope.tok = x.gen
        BY <1>2, <2>1, <3>1, <3>2, ScopeIs
      <3>q. QED
        BY <3>2, <3>3 DEF OfGeneration, Sources!source_scope
    <2>2. CASE r = "child"
      <3>1. rs_gen["child"] # 0 => rs_ix["child"].scope = Sources!Scope(rs_gen["child"], TRUE)
        BY DEF SourcesInv, GenerationFixesScope
      <3>2. x.row # "parent" /\ x.gen = rs_gen["child"] /\ x.scope = rs_ix["child"].scope
        BY <1>1, <2>2
      <3>q. QED
        BY <3>1, <3>2 DEF OfGeneration, Sources!source_scope
    <2>q. QED
      BY <2>1, <2>2 DEF Sources!Row
  <1>5. ASSUME NEW ep \in [Nat -> Sources!Endpoint], Fixes(ep)
        PROVE  x.scope.tok \in 0..rs_toks /\ x.ep = ep[x.scope.tok]
    <2>1. rs_ix[r].scope.tok \in 0..rs_toks /\ rs_ix[r].ep = ep[rs_ix[r].scope.tok]
      BY <1>5 DEF Fixes, Stamped
    <2>q. QED
      BY <1>1, <2>1
  <1>6. Sound(x)
    BY <1>3, <1>4, <1>5 DEF Sound
  <1>q. QED
    BY <1>6 DEF x

\* A posted URL carries nothing.
LEMMA PostedSound ==
  ASSUME SourcesInv, NEW u \in rs_Url
  PROVE  LET x == [Sources!NoItem EXCEPT !.row = "posted", !.url = u]
         IN Sound(x) /\ x.row # "none"
  <1> DEFINE x == [Sources!NoItem EXCEPT !.row = "posted", !.url = u]
  <1>1. /\ x \in ItemType /\ x.row = "posted" /\ x.gen = 0
        /\ x.scope = Sources!NoItem.scope /\ x.ep = Sources!NoItem.ep
    BY NoItemIs DEF ItemType
  <1> HIDE DEF x
  <1>2. Sources!NoItem \in Held
    BY DEF Held
  <1>3. Sound(Sources!NoItem)
    BY <1>2, HeldSound
  <1>4. Sound(x) /\ x.row # "none"
    BY <1>1, <1>3 DEF Sound, OfGeneration
  <1>q. QED
    BY <1>4 DEF x

-----------------------------------------------------------------------------
(* Releases: fetches, the delay queue, receipts, grabs and blocks.         *)

GrabSound(g) == g \in GrabType /\ Sound(g.item) /\ (g.pc # "idle" => g.item.row # "none")
BlockSound(b) == b \in BlockType /\ OfGeneration(b, b.scope)

LEMMA ItemsStep ==
  ASSUME SourcesInv, UNCHANGED <<rs_ix, rs_toks, rs_gen, rs_sync>>,
         NEW f, NEW p, NEW s, NEW g, NEW n, NEW B,
         rs_found' = f, rs_pend' = p, rs_sel' = s, rs_grab' = g, rs_seen' = n, rs_blocks' = B,
         Sound(f), Sound(p), Sound(s), Sound(n), GrabSound(g), \A b \in B : BlockSound(b)
  PROVE  SourcesInv'
  <1>0. Held' = {Sources!NoItem, f, p, s, g.item, n}
    BY DEF Held
  <1>1. \A x \in Held' : Sound(x)
    <2>1. Sources!NoItem \in Held
      BY DEF Held
    <2>2. Sound(Sources!NoItem)
      BY <2>1, HeldSound
    <2>q. QED
      BY <1>0, <2>2 DEF GrabSound
  <1>2. SourcesTypes'
    BY DEF SourcesInv, SourcesTypes, Sound, GrabSound, BlockSound
  <1>3. TokenFixesEndpoint'
    <2>1. PICK ep \in [Nat -> Sources!Endpoint] : Fixes(ep)
      BY DEF SourcesInv, TokenFixesEndpoint
    <2>2. ASSUME NEW x \in Stamped'
          PROVE  x.scope.tok \in 0..rs_toks' /\ x.ep = ep[x.scope.tok]
      <3>1. CASE x \in Held'
        BY <1>1, <2>1, <3>1 DEF Sound
      <3>2. CASE x \notin Held'
        <4>1. x \in Stamped
          BY <3>2 DEF Stamped
        <4>q. QED
          BY <2>1, <4>1 DEF Fixes
      <3>q. QED
        BY <3>1, <3>2
    <2>q. QED
      BY <2>2 DEF TokenFixesEndpoint, Fixes
  <1>4. GenerationFixesScope'
    <2>1. \A x \in Held' : OfGeneration(x, Sources!source_scope(x))
      BY <1>1 DEF Sound
    <2>q. QED
      BY <2>1 DEF SourcesInv, GenerationFixesScope, BlockSound
  <1>5. RowsNamed'
    <2>1. \A x \in Held' : x.row = "none" => x = Sources!NoItem
      BY <1>1 DEF Sound
    <2>2. rs_grab'.pc # "idle" => rs_grab'.item.row # "none"
      BY DEF GrabSound
    <2>q. QED
      BY <2>1, <2>2 DEF RowsNamed
  <1>q. QED
    BY <1>2, <1>3, <1>4, <1>5 DEF SourcesInv

LEMMA SoundNow ==
  ASSUME SourcesInv
  PROVE  /\ Sound(Sources!NoItem) /\ Sound(rs_found) /\ Sound(rs_pend) /\ Sound(rs_sel)
         /\ Sound(rs_seen) /\ GrabSound(rs_grab) /\ \A b \in rs_blocks : BlockSound(b)
         /\ GrabSound([pc |-> "idle", item |-> Sources!NoItem])
         /\ rs_found # Sources!NoItem => rs_found.row # "none"
         /\ rs_pend # Sources!NoItem => rs_pend.row # "none"
         /\ rs_sel # Sources!NoItem => rs_sel.row # "none"
  <1>1. {Sources!NoItem, rs_found, rs_pend, rs_sel, rs_grab.item, rs_seen} \subseteq Held
    BY DEF Held
  <1>2. /\ Sound(Sources!NoItem) /\ Sound(rs_found) /\ Sound(rs_pend) /\ Sound(rs_sel)
        /\ Sound(rs_seen) /\ Sound(rs_grab.item)
    BY <1>1, HeldSound
  <1>3. GrabSound(rs_grab)
    BY <1>2 DEF GrabSound, SourcesInv, SourcesTypes, RowsNamed
  <1>4. \A b \in rs_blocks : BlockSound(b)
    BY DEF BlockSound, SourcesInv, SourcesTypes, GenerationFixesScope
  <1>5. GrabSound([pc |-> "idle", item |-> Sources!NoItem])
    BY <1>2, NoItemIs DEF GrabSound, GrabType
  <1>6. /\ rs_found # Sources!NoItem => rs_found.row # "none"
        /\ rs_pend # Sources!NoItem => rs_pend.row # "none"
        /\ rs_sel # Sources!NoItem => rs_sel.row # "none"
    BY <1>1 DEF SourcesInv, RowsNamed
  <1>q. QED
    BY <1>2, <1>3, <1>4, <1>5, <1>6

LEMMA StartSound ==
  ASSUME SourcesInv, NEW i, Sound(i), i.row # "none", Sources!Start(i)
  PROVE  GrabSound(rs_grab') /\ rs_grab.pc # "check"
  <1>1. rs_grab' = [pc |-> "check", item |-> i] /\ rs_grab.pc = "idle"
    BY DEF Sources!Start
  <1>2. i \in ItemType
    BY DEF Sound
  <1>q. QED
    BY <1>1, <1>2 DEF GrabSound, GrabType

LEMMA ReleaseHandlers ==
  ASSUME SourcesInv,
         \/ \E r \in Sources!Row, u \in rs_Url, id \in BOOLEAN :
               Sources!fetch_all_rss(r, u, id) \/ Sources!search_all_indexers(r, u, id)
         \/ Sources!poll_rss \/ Sources!force_grab_pending \/ Sources!dismiss_pending_release
         \/ Sources!issue_selections \/ Sources!consume_selection
         \/ Sources!clear_selection_evidence
         \/ \E u \in rs_Url : Sources!grab_volume_release(u)
  PROVE  SourcesKeeps
  <1> DEFINE Quiet == rs_grab' = rs_grab \/ rs_grab.pc # "check" \/ rs_grab'.pc # "io"
             Releases == /\ Sound(rs_found') /\ Sound(rs_pend') /\ Sound(rs_sel')
                         /\ GrabSound(rs_grab')
             Still == UNCHANGED <<rs_ix, rs_toks, rs_gen, rs_sync, rs_seen, rs_blocks>>
  <1>1. ASSUME Still, Releases, Quiet PROVE SourcesKeeps
    <2>1. /\ Sound(rs_found') /\ Sound(rs_pend') /\ Sound(rs_sel') /\ GrabSound(rs_grab')
          /\ Sound(rs_seen') /\ \A b \in rs_blocks' : BlockSound(b)
      BY <1>1, SoundNow
    <2>2. SourcesInv'
      BY <1>1, <2>1, ItemsStep
    <2>q. QED
      BY <1>1, <2>2, NothingAdmitted
  <1>2. ASSUME NEW r \in Sources!Row, NEW u \in rs_Url, NEW id \in BOOLEAN,
               Sources!fetch_all_rss(r, u, id) \/ Sources!search_all_indexers(r, u, id)
        PROVE  SourcesKeeps
    <2>1. /\ rs_found' = Sources!capture_source_request(r, u, id)
          /\ UNCHANGED <<rs_ix, rs_toks, rs_gen, rs_sync, rs_seen, rs_blocks, rs_pend, rs_sel,
                         rs_grab>>
      BY <1>2 DEF Sources!fetch_all_rss, Sources!search_all_indexers
    <2>2. Still /\ Quiet
      BY <2>1
    <2>3. Releases
      BY <2>1, SoundNow, CapturedSound
    <2>q. QED
      BY <1>1, <2>2, <2>3
  <1>3. CASE Sources!poll_rss
    <2>1. /\ rs_found # Sources!NoItem /\ rs_found' = Sources!NoItem
          /\ rs_pend' \in {rs_pend, rs_found, Sources!NoItem} /\ rs_sel' = rs_sel
          /\ rs_grab' = rs_grab \/ Sources!Start(rs_found)
      BY <1>3 DEF Sources!poll_rss, Sources!Config
    <2>2. Still
      BY <1>3 DEF Sources!poll_rss, Sources!Config
    <2>3. GrabSound(rs_grab') /\ Quiet
      BY <2>1, SoundNow, StartSound
    <2>4. Releases
      BY <2>1, <2>3, SoundNow
    <2>q. QED
      BY <1>1, <2>2, <2>3, <2>4
  <1>4. CASE Sources!force_grab_pending
    <2>1. /\ rs_pend # Sources!NoItem /\ rs_pend' = Sources!NoItem
          /\ UNCHANGED <<rs_found, rs_sel>> /\ Sources!Start(rs_pend)
      BY <1>4 DEF Sources!force_grab_pending
    <2>2. Still
      BY <1>4 DEF Sources!force_grab_pending, Sources!Config
    <2>3. GrabSound(rs_grab') /\ Quiet
      BY <2>1, SoundNow, StartSound
    <2>4. Releases
      BY <2>1, <2>3, SoundNow
    <2>q. QED
      BY <1>1, <2>2, <2>3, <2>4
  <1>5. CASE \/ Sources!dismiss_pending_release \/ Sources!issue_selections
             \/ Sources!clear_selection_evidence
    <2>1. /\ rs_pend' \in {rs_pend, Sources!NoItem} /\ rs_found' \in {rs_found, Sources!NoItem}
          /\ rs_sel' \in {rs_sel, rs_found, Sources!NoItem} /\ rs_grab' = rs_grab
      BY <1>5 DEF Sources!dismiss_pending_release, Sources!issue_selections,
         Sources!clear_selection_evidence
    <2>2. Still
      BY <1>5 DEF Sources!dismiss_pending_release, Sources!issue_selections,
         Sources!clear_selection_evidence, Sources!Config
    <2>3. Releases
      BY <2>1, SoundNow
    <2>q. QED
      BY <1>1, <2>1, <2>2, <2>3
  <1>6. CASE Sources!consume_selection
    <2>1. /\ rs_sel # Sources!NoItem /\ rs_sel' = Sources!NoItem
          /\ UNCHANGED <<rs_found, rs_pend>> /\ Sources!Start(rs_sel)
      BY <1>6 DEF Sources!consume_selection
    <2>2. Still
      BY <1>6 DEF Sources!consume_selection, Sources!Config
    <2>3. GrabSound(rs_grab') /\ Quiet
      BY <2>1, SoundNow, StartSound
    <2>4. Releases
      BY <2>1, <2>3, SoundNow
    <2>q. QED
      BY <1>1, <2>2, <2>3, <2>4
  <1>7. ASSUME NEW u \in rs_Url, Sources!grab_volume_release(u) PROVE SourcesKeeps
    <2> DEFINE x == [Sources!NoItem EXCEPT !.row = "posted", !.url = u]
    <2>1. UNCHANGED <<rs_found, rs_pend, rs_sel>> /\ Sources!Start(x)
      BY <1>7 DEF Sources!grab_volume_release
    <2>2. Still
      BY <1>7 DEF Sources!grab_volume_release, Sources!Config
    <2>3. Sound(x) /\ x.row # "none"
      BY PostedSound
    <2> HIDE DEF x
    <2>4. GrabSound(rs_grab') /\ Quiet
      BY <2>1, <2>3, StartSound
    <2>5. Releases
      BY <2>1, <2>4, SoundNow
    <2>q. QED
      BY <1>1, <2>2, <2>4, <2>5
  <1>q. QED
    BY <1>2, <1>3, <1>4, <1>5, <1>6, <1>7

\* What is sent to a client has a row that stands and no block.
LEMMA GrabStep ==
  ASSUME SourcesInv, Sources!grab_item
  PROVE  SourcesKeeps
  <1> DEFINE i == rs_grab.item
  <1>1. /\ rs_grab.pc = "check"
        /\ rs_grab' = IF Sources!item_source_is_current(i) /\ ~Sources!is_blocked(i)
                      THEN [rs_grab EXCEPT !.pc = "io"]
                      ELSE [pc |-> "idle", item |-> Sources!NoItem]
        /\ UNCHANGED <<rs_ix, rs_toks, rs_gen, rs_sync, rs_found, rs_pend, rs_sel, rs_seen,
                       rs_blocks>>
    BY DEF Sources!grab_item, Sources!Config
  <1>2. GrabSound(rs_grab) /\ i \in ItemType /\ Sound(i) /\ i.row # "none"
    BY <1>1, SoundNow DEF GrabSound, GrabType
  <1>3. GrabSound(rs_grab')
    <2>1. GrabSound([rs_grab EXCEPT !.pc = "io"])
      BY <1>2 DEF GrabSound, GrabType
    <2>q. QED
      BY <1>1, <2>1, SoundNow
  <1>4. SourcesInv'
    <2>1. /\ Sound(rs_found') /\ Sound(rs_pend') /\ Sound(rs_sel') /\ Sound(rs_seen')
          /\ \A b \in rs_blocks' : BlockSound(b)
      BY <1>1, SoundNow
    <2>q. QED
      BY <1>1, <1>3, <2>1, ItemsStep
  <1>5. ASSUME Sources!Admitted
        PROVE  /\ Sources!_active_indexer_rows(i.row) /\ rs_ix[i.row].scope = i.scope
               /\ i.row \in Sources!Row /\ ~Sources!is_blocked(i)
    <2>1. Sources!item_source_is_current(i) /\ ~Sources!is_blocked(i) /\ i.row # "posted"
      BY <1>1, <1>5 DEF Sources!Admitted
    <2>2. i.row \in Sources!Row
      BY <1>2, <2>1 DEF ItemType
    <2>q. QED
      BY <2>1, <2>2 DEF Sources!item_source_is_current, Sources!_source_is_current
  <1>6. Sources!SourceStands
    <2> SUFFICES ASSUME Sources!Admitted
                 PROVE  rs_ix[i.row].on /\ rs_ix[i.row].en /\ rs_ix[i.row].ep = i.ep
      BY DEF Sources!SourceStands
    <2>1. PICK ep \in [Nat -> Sources!Endpoint] : Fixes(ep)
      BY DEF SourcesInv, TokenFixesEndpoint
    <2>2. i.ep = ep[i.scope.tok]
      BY <1>2, <2>1 DEF Sound
    <2>3. rs_ix[i.row].ep = ep[rs_ix[i.row].scope.tok]
      BY <1>5, <2>1 DEF Fixes, Stamped
    <2>q. QED
      BY <1>5, <2>2, <2>3 DEF Sources!_active_indexer_rows
  <1>7. Sources!BlockHoldsOnBothWays
    <2> SUFFICES ASSUME Sources!Admitted, i.id, i.gen # 0,
                        NEW b \in rs_blocks, b.id, b.gen = i.gen
                 PROVE  FALSE
      BY DEF Sources!BlockHoldsOnBothWays
    <2>1. Sources!source_scope(i) = Sources!Scope(i.gen, TRUE)
      BY <1>2 DEF Sound, OfGeneration
    <2>2. b.scope = Sources!Scope(b.gen, TRUE)
      BY SoundNow DEF BlockSound, OfGeneration
    <2>3. Sources!is_blocked(i)
      BY <2>1, <2>2 DEF Sources!is_blocked
    <2>q. QED
      BY <1>5, <2>3
  <1>q. QED
    BY <1>4, <1>6, <1>7 DEF SourcesKeeps

LEMMA RecordHandlers ==
  ASSUME SourcesInv,
         \/ \E ok \in BOOLEAN : Sources!record_grab(ok)
         \/ Sources!add_block \/ \E u \in rs_Url : Sources!delete_blocklist_entry(u)
  PROVE  SourcesKeeps
  <1>1. UNCHANGED <<rs_ix, rs_toks, rs_gen, rs_sync, rs_found, rs_pend, rs_sel>>
    BY DEF Sources!record_grab, Sources!add_block, Sources!delete_blocklist_entry,
       Sources!Config
  <1>2. Sound(rs_found') /\ Sound(rs_pend') /\ Sound(rs_sel')
    BY <1>1, SoundNow
  <1>3. ASSUME NEW ok \in BOOLEAN, Sources!record_grab(ok) PROVE SourcesKeeps
    <2>1. /\ rs_grab.pc = "io" /\ rs_grab' = [pc |-> "idle", item |-> Sources!NoItem]
          /\ rs_seen' \in {rs_grab.item, rs_seen} /\ rs_blocks' = rs_blocks
      BY <1>3 DEF Sources!record_grab
    <2>2. GrabSound(rs_grab') /\ Sound(rs_seen') /\ \A b \in rs_blocks' : BlockSound(b)
      BY <2>1, SoundNow DEF GrabSound
    <2>3. SourcesInv'
      BY <1>1, <1>2, <2>2, ItemsStep
    <2>q. QED
      BY <2>1, <2>3, NothingAdmitted
  <1>4. CASE Sources!add_block
    <2> DEFINE new == [url |-> rs_seen.url, id |-> rs_seen.id,
                       scope |-> Sources!source_scope(rs_seen), gen |-> rs_seen.gen]
    <2>1. /\ rs_seen' = Sources!NoItem /\ rs_blocks' = rs_blocks \cup {new} /\ rs_grab' = rs_grab
      BY <1>4 DEF Sources!add_block
    <2>2. rs_seen \in ItemType /\ OfGeneration(rs_seen, Sources!source_scope(rs_seen))
      BY SoundNow DEF Sound
    <2>3. Sources!source_scope(rs_seen) \in ScopeType
      BY <2>2 DEF Sources!source_scope, ItemType, ScopeType, Sources!Scope
    <2>4. BlockSound(new)
      BY <2>2, <2>3 DEF BlockSound, BlockType, ItemType, OfGeneration
    <2> HIDE DEF new
    <2>5. GrabSound(rs_grab') /\ Sound(rs_seen') /\ \A b \in rs_blocks' : BlockSound(b)
      BY <2>1, <2>4, SoundNow
    <2>6. SourcesInv'
      BY <1>1, <1>2, <2>5, ItemsStep
    <2>q. QED
      BY <2>1, <2>6, NothingAdmitted
  <1>5. ASSUME NEW u \in rs_Url, Sources!delete_blocklist_entry(u) PROVE SourcesKeeps
    <2>1. rs_blocks' \subseteq rs_blocks /\ rs_grab' = rs_grab /\ rs_seen' = rs_seen
      BY <1>5 DEF Sources!delete_blocklist_entry
    <2>2. GrabSound(rs_grab') /\ Sound(rs_seen') /\ \A b \in rs_blocks' : BlockSound(b)
      BY <2>1, SoundNow
    <2>3. SourcesInv'
      BY <1>1, <1>2, <2>2, ItemsStep
    <2>q. QED
      BY <2>1, <2>3, NothingAdmitted
  <1>q. QED
    BY <1>3, <1>4, <1>5

-----------------------------------------------------------------------------
(* The rows.                                                               *)

\* A row step: what is held stays; every row and the sync's parent has an endpoint
\* that its token was drawn for.
LEMMA RowsStep ==
  ASSUME SourcesInv, UNCHANGED <<rs_found, rs_pend, rs_sel, rs_grab, rs_seen, rs_blocks>>,
         SourcesTypes', rs_toks <= rs_toks',
         rs_ix'["parent"].scope = Sources!Scope(rs_gen'["parent"], FALSE),
         rs_gen'["child"] # 0 => rs_ix'["child"].scope = Sources!Scope(rs_gen'["child"], TRUE),
         NEW old \in [Nat -> Sources!Endpoint], NEW ep \in [Nat -> Sources!Endpoint],
         Fixes(old), \A t \in 0..rs_toks : ep[t] = old[t],
         \A r \in Sources!Row :
           rs_ix'[r].scope.tok \in 0..rs_toks' /\ rs_ix'[r].ep = ep[rs_ix'[r].scope.tok],
         rs_sync'.scope.tok \in 0..rs_toks' /\ rs_sync'.ep = ep[rs_sync'.scope.tok]
  PROVE  SourcesKeeps
  <1>1. Held' = Held
    BY DEF Held
  <1>2. TokenFixesEndpoint'
    <2>1. ASSUME NEW x \in Stamped'
          PROVE  x.scope.tok \in 0..rs_toks' /\ x.ep = ep[x.scope.tok]
      <3>1. CASE x \in Held
        <4>1. x.scope.tok \in 0..rs_toks /\ x.ep = old[x.scope.tok]
          BY <3>1 DEF Fixes, Stamped
        <4>q. QED
          BY <4>1 DEF SourcesInv, SourcesTypes
      <3>2. CASE x \notin Held
        <4>1. x \in {rs_ix'[r] : r \in Sources!Row} \cup {rs_sync'}
          BY <1>1, <3>2 DEF Stamped
        <4>q. QED
          BY <4>1
      <3>q. QED
        BY <3>1, <3>2
    <2>q. QED
      BY <2>1 DEF TokenFixesEndpoint, Fixes
  <1>3. GenerationFixesScope'
    BY <1>1 DEF SourcesInv, GenerationFixesScope
  <1>4. RowsNamed'
    BY <1>1 DEF SourcesInv, RowsNamed
  <1>5. SourcesInv'
    BY <1>2, <1>3, <1>4 DEF SourcesInv
  <1>q. QED
    BY <1>5, NothingAdmitted

LEMMA RowTypes ==
  ASSUME SourcesInv
  PROVE  /\ \A r \in Sources!Row : /\ rs_ix[r].on \in BOOLEAN /\ rs_ix[r].en \in BOOLEAN
                                   /\ rs_ix[r].ep \in Sources!Endpoint
                                   /\ rs_ix[r].scope \in ScopeType /\ rs_gen[r] \in Nat
         /\ rs_toks \in Nat /\ rs_sync.scope \in ScopeType /\ rs_sync.ep \in Sources!Endpoint
  BY DEF SourcesInv, SourcesTypes

\* The endpoint of every token drawn so far, and of the next one.
LEMMA NextToken ==
  ASSUME SourcesInv, NEW e \in Sources!Endpoint
  PROVE  \E old, ep \in [Nat -> Sources!Endpoint] :
           Fixes(old) /\ ep[rs_toks + 1] = e /\ \A t \in 0..rs_toks : ep[t] = old[t]
  <1>1. PICK old \in [Nat -> Sources!Endpoint] : Fixes(old)
    BY DEF SourcesInv, TokenFixesEndpoint
  <1> DEFINE ep == [old EXCEPT ![rs_toks + 1] = e]
  <1>2. /\ ep \in [Nat -> Sources!Endpoint] /\ ep[rs_toks + 1] = e
        /\ \A t \in 0..rs_toks : ep[t] = old[t]
    BY RowTypes
  <1>q. QED
    BY <1>1, <1>2

LEMMA EditStep ==
  ASSUME SourcesInv, NEW r \in Sources!Row, NEW e \in Sources!Endpoint, NEW en \in BOOLEAN,
         Sources!edit_indexer(r, e, en)
  PROVE  SourcesKeeps
  <1> DEFINE scope == IF e = rs_ix[r].ep THEN rs_ix[r].scope
                      ELSE Sources!Scope(rs_toks + 1, FALSE)
  <1>0. /\ rs_ix \in [Sources!Row -> [on : BOOLEAN, en : BOOLEAN, ep : Sources!Endpoint,
                                      scope : ScopeType]]
        /\ rs_gen \in [Sources!Row -> Nat] /\ rs_toks \in Nat
    BY DEF SourcesInv, SourcesTypes
  <1>1. /\ rs_ix' = [rs_ix EXCEPT ![r] = [rs_ix[r] EXCEPT !.ep = e, !.en = en, !.scope = scope]]
        /\ UNCHANGED <<rs_sync, rs_found, rs_pend, rs_sel, rs_grab, rs_seen, rs_blocks>>
        /\ \/ e = rs_ix[r].ep /\ UNCHANGED <<rs_toks, rs_gen>>
           \/ /\ e # rs_ix[r].ep /\ rs_toks' = rs_toks + 1
              /\ rs_gen' = [rs_gen EXCEPT ![r] = IF r = "parent" THEN rs_toks + 1 ELSE 0]
    BY DEF Sources!edit_indexer, Sources!bind_indexer_scope, Sources!Items
  <1>t. /\ Sources!Scope(rs_toks + 1, FALSE) \in ScopeType
        /\ Sources!Scope(rs_toks + 1, FALSE).tok = rs_toks + 1
    <2>1. rs_toks + 1 \in Nat /\ FALSE \in BOOLEAN
      BY <1>0
    <2>q. QED
      BY <2>1, ScopeIs
  <1>2. scope \in ScopeType
    BY <1>0, <1>t
  <1> HIDE DEF scope
  <1>3. /\ rs_ix'[r].scope = scope /\ rs_ix'[r].ep = e
        /\ \A s \in Sources!Row \ {r} : rs_ix'[s] = rs_ix[s]
    BY <1>0, <1>1
  <1>4. SourcesTypes'
    <2>1. rs_ix' \in [Sources!Row -> [on : BOOLEAN, en : BOOLEAN, ep : Sources!Endpoint,
                                     scope : ScopeType]]
      BY <1>0, <1>1, <1>2
    <2>2. rs_gen' \in [Sources!Row -> Nat] /\ rs_toks' \in Nat
      BY <1>0, <1>1
    <2>q. QED
      BY <1>1, <2>1, <2>2 DEF SourcesInv, SourcesTypes
  <1>5. PICK old, ep \in [Nat -> Sources!Endpoint] :
          Fixes(old) /\ ep[rs_toks + 1] = e /\ \A t \in 0..rs_toks : ep[t] = old[t]
    BY NextToken
  <1>6. /\ \A s \in Sources!Row :
             rs_ix[s].scope.tok \in 0..rs_toks /\ rs_ix[s].ep = ep[rs_ix[s].scope.tok]
        /\ rs_sync.scope.tok \in 0..rs_toks /\ rs_sync.ep = ep[rs_sync.scope.tok]
    BY <1>5 DEF Fixes, Stamped
  <1>7. CASE e = rs_ix[r].ep
    <2>1. scope = rs_ix[r].scope /\ rs_toks' = rs_toks /\ rs_gen' = rs_gen
      BY <1>1, <1>7 DEF scope
    <2>2. \A s \in Sources!Row : rs_ix'[s].scope = rs_ix[s].scope /\ rs_ix'[s].ep = rs_ix[s].ep
      BY <1>3, <1>7, <2>1
    <2>3. /\ \A s \in Sources!Row :
               rs_ix'[s].scope.tok \in 0..rs_toks' /\ rs_ix'[s].ep = ep[rs_ix'[s].scope.tok]
          /\ rs_sync'.scope.tok \in 0..rs_toks' /\ rs_sync'.ep = ep[rs_sync'.scope.tok]
      BY <1>1, <1>6, <2>1, <2>2
    <2>4. /\ rs_ix'["parent"].scope = Sources!Scope(rs_gen'["parent"], FALSE)
          /\ rs_gen'["child"] # 0 =>
               rs_ix'["child"].scope = Sources!Scope(rs_gen'["child"], TRUE)
      BY <2>1, <2>2 DEF SourcesInv, GenerationFixesScope, Sources!Row
    <2>5. rs_toks <= rs_toks'
      BY <1>0, <2>1
    <2>q. QED
      BY <1>1, <1>4, <1>5, <2>3, <2>4, <2>5, RowsStep
  <1>8. CASE e # rs_ix[r].ep
    <2>1. /\ scope = Sources!Scope(rs_toks + 1, FALSE) /\ rs_toks' = rs_toks + 1
          /\ rs_gen' = [rs_gen EXCEPT ![r] = IF r = "parent" THEN rs_toks + 1 ELSE 0]
      BY <1>1, <1>8 DEF scope
    <2>2. scope.tok = rs_toks + 1 /\ rs_toks <= rs_toks' /\ rs_toks + 1 \in 0..rs_toks'
      <3>1. scope.tok = rs_toks + 1
        BY <1>t, <2>1
      <3>2. rs_toks' = rs_toks + 1 /\ rs_toks \in Nat
        BY <1>0, <2>1
      <3>q. QED
        BY <3>1, <3>2
    <2>3. /\ \A s \in Sources!Row :
               rs_ix'[s].scope.tok \in 0..rs_toks' /\ rs_ix'[s].ep = ep[rs_ix'[s].scope.tok]
          /\ rs_sync'.scope.tok \in 0..rs_toks' /\ rs_sync'.ep = ep[rs_sync'.scope.tok]
      <3>1. 0..rs_toks \subseteq 0..rs_toks'
        BY <1>0, <2>1
      <3>2. rs_ix'[r].scope.tok \in 0..rs_toks' /\ rs_ix'[r].ep = ep[rs_ix'[r].scope.tok]
        BY <1>3, <1>5, <2>2
      <3>q. QED
        BY <1>1, <1>3, <1>6, <3>1, <3>2
    <2>4. /\ rs_ix'["parent"].scope = Sources!Scope(rs_gen'["parent"], FALSE)
          /\ rs_gen'["child"] # 0 =>
               rs_ix'["child"].scope = Sources!Scope(rs_gen'["child"], TRUE)
      BY <1>0, <1>3, <2>1 DEF SourcesInv, GenerationFixesScope, Sources!Row
    <2>q. QED
      BY <1>1, <1>4, <1>5, <2>2, <2>3, <2>4, RowsStep
  <1>q. QED
    BY <1>7, <1>8

LEMMA DeleteIndexerStep ==
  ASSUME SourcesInv, NEW r \in Sources!Row, Sources!delete_indexer(r)
  PROVE  SourcesKeeps
  <1>1. /\ rs_ix' = [rs_ix EXCEPT ![r].on = FALSE]
        /\ UNCHANGED <<rs_toks, rs_gen, rs_sync, rs_found, rs_pend, rs_sel, rs_grab, rs_seen,
                       rs_blocks>>
    BY DEF Sources!delete_indexer, Sources!Items
  <1>2. SourcesTypes' /\ rs_toks \in Nat
    BY <1>1 DEF SourcesInv, SourcesTypes
  <1>3. \A s \in Sources!Row : rs_ix'[s].scope = rs_ix[s].scope /\ rs_ix'[s].ep = rs_ix[s].ep
    BY <1>1 DEF SourcesInv, SourcesTypes
  <1>4. PICK ep \in [Nat -> Sources!Endpoint] : Fixes(ep)
    BY DEF SourcesInv, TokenFixesEndpoint
  <1>5. /\ \A s \in Sources!Row :
             rs_ix[s].scope.tok \in 0..rs_toks /\ rs_ix[s].ep = ep[rs_ix[s].scope.tok]
        /\ rs_sync.scope.tok \in 0..rs_toks /\ rs_sync.ep = ep[rs_sync.scope.tok]
    BY <1>4 DEF Fixes, Stamped
  <1>6. /\ \A s \in Sources!Row :
             rs_ix'[s].scope.tok \in 0..rs_toks' /\ rs_ix'[s].ep = ep[rs_ix'[s].scope.tok]
        /\ rs_sync'.scope.tok \in 0..rs_toks' /\ rs_sync'.ep = ep[rs_sync'.scope.tok]
    BY <1>1, <1>3, <1>5
  <1>7. /\ rs_ix'["parent"].scope = Sources!Scope(rs_gen'["parent"], FALSE)
        /\ rs_gen'["child"] # 0 =>
             rs_ix'["child"].scope = Sources!Scope(rs_gen'["child"], TRUE)
    BY <1>1, <1>3 DEF SourcesInv, GenerationFixesScope, Sources!Row
  <1>8. rs_toks <= rs_toks'
    BY <1>1, <1>2
  <1>q. QED
    BY <1>1, <1>2, <1>4, <1>6, <1>7, <1>8, RowsStep

\* A sync reads the parent, and commits what it read if the parent is unchanged.
LEMMA SyncHandlers ==
  ASSUME SourcesInv,
         Sources!prowlarr_sync_start \/ \E en \in BOOLEAN : Sources!prowlarr_sync_commit(en)
  PROVE  SourcesKeeps
  <1> DEFINE sub == Sources!Scope(rs_sync.scope.tok, TRUE)
             Stays(r) == rs_ix'[r].scope = rs_ix[r].scope /\ rs_ix'[r].ep = rs_ix[r].ep
  <1>0. /\ rs_ix \in [Sources!Row -> [on : BOOLEAN, en : BOOLEAN, ep : Sources!Endpoint,
                                      scope : ScopeType]]
        /\ rs_gen \in [Sources!Row -> Nat] /\ rs_toks \in Nat
        /\ rs_sync.scope.tok \in Nat /\ rs_sync.ep \in Sources!Endpoint
        /\ "parent" \in Sources!Row /\ "child" \in Sources!Row
    BY DEF SourcesInv, SourcesTypes, ScopeType, Sources!Row
  <1>1. UNCHANGED <<rs_toks, rs_found, rs_pend, rs_sel, rs_grab, rs_seen, rs_blocks>>
    BY DEF Sources!prowlarr_sync_start, Sources!prowlarr_sync_commit, Sources!Items
  <1>2. PICK ep \in [Nat -> Sources!Endpoint] : Fixes(ep)
    BY DEF SourcesInv, TokenFixesEndpoint
  <1>3. \A x \in {rs_ix[s] : s \in Sources!Row} \cup {rs_sync, Sources!NoItem} :
          x.scope.tok \in 0..rs_toks /\ x.ep = ep[x.scope.tok]
    BY <1>2 DEF Fixes, Stamped, Held
  <1>4. /\ sub \in ScopeType /\ sub.tok = rs_sync.scope.tok
        /\ Sources!Scope(0, FALSE) \in ScopeType /\ Sources!Scope(0, FALSE).tok = 0
    BY <1>0, ScopeIs
  <1>5. 0 \in 0..rs_toks /\ "A" = ep[0]
    <2>1. Sources!NoItem.scope.tok = 0 /\ Sources!NoItem.ep = "A"
      BY <1>4, NoItemIs
    <2>q. QED
      BY <1>3, <2>1
  <1>6. ASSUME SourcesTypes',
               \A r \in Sources!Row :
                 Stays(r) \/ (rs_ix'[r].scope = sub /\ rs_ix'[r].ep = rs_sync.ep),
               \/ rs_sync' = Sources!NoSync
               \/ rs_sync'.scope = rs_ix["parent"].scope /\ rs_sync'.ep = rs_ix["parent"].ep,
               Stays("parent"), rs_gen'["parent"] = rs_gen["parent"],
               rs_gen'["child"] # 0 =>
                 rs_ix'["child"].scope = Sources!Scope(rs_gen'["child"], TRUE)
        PROVE  SourcesKeeps
    <2>1. \A r \in Sources!Row :
            rs_ix'[r].scope.tok \in 0..rs_toks /\ rs_ix'[r].ep = ep[rs_ix'[r].scope.tok]
      BY <1>3, <1>4, <1>6
    <2>2. rs_sync'.scope.tok \in 0..rs_toks /\ rs_sync'.ep = ep[rs_sync'.scope.tok]
      <3>1. CASE rs_sync' = Sources!NoSync
        BY <1>4, <1>5, <3>1 DEF Sources!NoSync
      <3>2. CASE rs_sync'.scope = rs_ix["parent"].scope /\ rs_sync'.ep = rs_ix["parent"].ep
        BY <1>0, <1>3, <3>2
      <3>q. QED
        BY <1>6, <3>1, <3>2
    <2>3. /\ \A r \in Sources!Row :
               rs_ix'[r].scope.tok \in 0..rs_toks' /\ rs_ix'[r].ep = ep[rs_ix'[r].scope.tok]
          /\ rs_sync'.scope.tok \in 0..rs_toks' /\ rs_sync'.ep = ep[rs_sync'.scope.tok]
      BY <1>1, <2>1, <2>2
    <2>4. rs_ix'["parent"].scope = Sources!Scope(rs_gen'["parent"], FALSE)
      BY <1>6 DEF SourcesInv, GenerationFixesScope
    <2>5. rs_toks <= rs_toks'
      BY <1>0, <1>1
    <2>q. QED
      BY <1>1, <1>2, <1>6, <2>3, <2>4, <2>5, RowsStep
  <1>7. Sources!NoSync \in [pc : {"idle", "await"}, ep : Sources!Endpoint, scope : ScopeType]
    BY <1>4 DEF Sources!NoSync, Sources!Endpoint
  <1>8. CASE Sources!prowlarr_sync_start
    <2>1. /\ rs_sync' = [pc |-> "await", ep |-> rs_ix["parent"].ep, scope |-> rs_ix["parent"].scope]
          /\ UNCHANGED <<rs_ix, rs_gen>>
      BY <1>8 DEF Sources!prowlarr_sync_start
    <2>2. SourcesTypes'
      BY <1>0, <1>1, <2>1 DEF SourcesInv, SourcesTypes
    <2>3. rs_gen'["child"] # 0 => rs_ix'["child"].scope = Sources!Scope(rs_gen'["child"], TRUE)
      BY <2>1 DEF SourcesInv, GenerationFixesScope
    <2>q. QED
      BY <1>6, <2>1, <2>2, <2>3
  <1>9. ASSUME NEW en \in BOOLEAN, Sources!prowlarr_sync_commit(en) PROVE SourcesKeeps
    <2>1. rs_sync' = Sources!NoSync
      BY <1>9 DEF Sources!prowlarr_sync_commit
    <2>2. CASE UNCHANGED <<rs_ix, rs_gen>>
      <3>1. SourcesTypes'
        BY <1>1, <1>7, <2>1, <2>2 DEF SourcesInv, SourcesTypes
      <3>2. rs_gen'["child"] # 0 => rs_ix'["child"].scope = Sources!Scope(rs_gen'["child"], TRUE)
        BY <2>2 DEF SourcesInv, GenerationFixesScope
      <3>q. QED
        BY <1>6, <2>1, <2>2, <3>1, <3>2
    <2>3. CASE ~UNCHANGED <<rs_ix, rs_gen>>
      <3>1. /\ Sources!ParentUnchanged
            /\ \/ /\ rs_ix["child"].on /\ Sources!facade_matches(rs_ix["child"], rs_sync.ep)
                  /\ rs_ix' = [rs_ix EXCEPT !["child"].scope = sub]
               \/ rs_ix' = Sources!Imported(en)
            /\ rs_gen' = [rs_gen EXCEPT !["child"] = rs_gen["parent"]]
        BY <1>9, <2>3 DEF Sources!prowlarr_sync_commit
      <3>2. sub = Sources!Scope(rs_gen["parent"], TRUE)
        <4>1. rs_sync.scope = Sources!Scope(rs_gen["parent"], FALSE)
          BY <3>1 DEF Sources!ParentUnchanged, SourcesInv, GenerationFixesScope
        <4>q. QED
          BY <1>0, <4>1, ScopeIs
      <3>3. CASE /\ rs_ix["child"].on /\ Sources!facade_matches(rs_ix["child"], rs_sync.ep)
                 /\ rs_ix' = [rs_ix EXCEPT !["child"].scope = sub]
        <4> HIDE DEF sub
        <4>1. /\ rs_ix' \in [Sources!Row -> [on : BOOLEAN, en : BOOLEAN, ep : Sources!Endpoint,
                                             scope : ScopeType]]
              /\ Stays("parent") /\ rs_ix'["child"].scope = sub
              /\ rs_ix'["child"].ep = rs_ix["child"].ep
          BY <1>0, <1>4, <3>3
        <4>2. rs_ix["child"].ep = rs_sync.ep
          BY <3>3 DEF Sources!facade_matches
        <4>3. rs_gen' \in [Sources!Row -> Nat] /\ rs_gen'["parent"] = rs_gen["parent"]
              /\ rs_gen'["child"] = rs_gen["parent"]
          BY <1>0, <3>1
        <4>4. SourcesTypes'
          BY <1>1, <1>7, <2>1, <4>1, <4>3 DEF SourcesInv, SourcesTypes
        <4>5. \A r \in Sources!Row :
                Stays(r) \/ (rs_ix'[r].scope = sub /\ rs_ix'[r].ep = rs_sync.ep)
          BY <4>1, <4>2 DEF Sources!Row
        <4>q. QED
          BY <1>6, <2>1, <3>2, <4>1, <4>3, <4>4, <4>5
      <3>4. CASE rs_ix' = Sources!Imported(en)
        <4>1. rs_ix' = [rs_ix EXCEPT !["parent"].en = FALSE,
                                     !["child"] = [on |-> TRUE, en |-> en, ep |-> rs_sync.ep,
                                                   scope |-> sub]]
          BY <3>4 DEF Sources!Imported
        <4> HIDE DEF sub
        <4>2. /\ rs_ix' \in [Sources!Row -> [on : BOOLEAN, en : BOOLEAN, ep : Sources!Endpoint,
                                             scope : ScopeType]]
              /\ Stays("parent") /\ rs_ix'["child"].scope = sub
              /\ rs_ix'["child"].ep = rs_sync.ep
          BY <1>0, <1>4, <4>1
        <4>3. rs_gen' \in [Sources!Row -> Nat] /\ rs_gen'["parent"] = rs_gen["parent"]
              /\ rs_gen'["child"] = rs_gen["parent"]
          BY <1>0, <3>1
        <4>4. SourcesTypes'
          BY <1>1, <1>7, <2>1, <4>2, <4>3 DEF SourcesInv, SourcesTypes
        <4>5. \A r \in Sources!Row :
                Stays(r) \/ (rs_ix'[r].scope = sub /\ rs_ix'[r].ep = rs_sync.ep)
          BY <4>2 DEF Sources!Row
        <4>q. QED
          BY <1>6, <2>1, <3>2, <4>2, <4>3, <4>4, <4>5
      <3>q. QED
        BY <3>1, <3>3, <3>4
    <2>q. QED
      BY <2>2, <2>3
  <1>q. QED
    BY <1>8, <1>9

LEMMA SourcesInit == ASSUME Sources!Init PROVE SourcesInv
  <1>1. /\ Sources!Scope(0, FALSE) \in ScopeType /\ Sources!Scope(1, FALSE) \in ScopeType
        /\ Sources!Scope(0, FALSE).tok = 0 /\ Sources!Scope(1, FALSE).tok = 1
    BY ScopeIs
  <1>2. /\ rs_ix = [r \in Sources!Row |->
                      [on |-> r = "parent", en |-> TRUE, ep |-> "A",
                       scope |-> Sources!Scope(IF r = "parent" THEN 1 ELSE 0, FALSE)]]
        /\ rs_toks = 1 /\ rs_gen = [r \in Sources!Row |-> IF r = "parent" THEN 1 ELSE 0]
        /\ rs_sync = Sources!NoSync /\ rs_found = Sources!NoItem /\ rs_pend = Sources!NoItem
        /\ rs_sel = Sources!NoItem /\ rs_grab = [pc |-> "idle", item |-> Sources!NoItem]
        /\ rs_seen = Sources!NoItem /\ rs_blocks = {}
    BY DEF Sources!Init
  <1>3. Held = {Sources!NoItem}
    BY <1>2 DEF Held
  <1>4. SourcesTypes
    <2>1. \A r \in Sources!Row : (r = "parent") \in BOOLEAN
      OBVIOUS
    <2>2. rs_ix \in [Sources!Row -> [on : BOOLEAN, en : BOOLEAN, ep : Sources!Endpoint,
                                    scope : ScopeType]]
      BY <1>1, <1>2, <2>1 DEF Sources!Endpoint
    <2>3. /\ rs_sync \in [pc : {"idle", "await"}, ep : Sources!Endpoint, scope : ScopeType]
          /\ rs_grab \in GrabType
      BY <1>1, <1>2, NoItemIs DEF Sources!NoSync, Sources!Endpoint, GrabType
    <2>q. QED
      BY <1>2, <2>2, <2>3, NoItemIs DEF SourcesTypes
  <1>5. TokenFixesEndpoint
    <2> DEFINE ep == [t \in Nat |-> "A"]
    <2>1. ep \in [Nat -> Sources!Endpoint] /\ ep[0] = "A" /\ ep[1] = "A"
      BY DEF Sources!Endpoint
    <2> HIDE DEF ep
    <2>2. \A r \in Sources!Row : rs_ix[r].scope.tok \in {0, 1} /\ rs_ix[r].ep = "A"
      BY <1>1, <1>2
    <2>3. /\ Sources!NoItem.scope.tok = 0 /\ Sources!NoItem.ep = "A"
          /\ rs_sync.scope.tok = 0 /\ rs_sync.ep = "A"
      <3>1. rs_sync.scope = Sources!Scope(0, FALSE) /\ rs_sync.ep = "A"
        BY <1>2 DEF Sources!NoSync
      <3>q. QED
        BY <1>1, <3>1, NoItemIs
    <2>4. Fixes(ep)
      <3> SUFFICES ASSUME NEW x \in Stamped
                   PROVE  x.scope.tok \in 0..rs_toks /\ x.ep = ep[x.scope.tok]
        BY DEF Fixes
      <3>1. x \in {rs_ix[r] : r \in Sources!Row} \/ x = rs_sync \/ x = Sources!NoItem
        BY <1>3 DEF Stamped
      <3>2. x.scope.tok \in {0, 1} /\ x.ep = "A"
        BY <2>2, <2>3, <3>1
      <3>q. QED
        BY <1>2, <2>1, <3>2
    <2>q. QED
      BY <2>1, <2>4 DEF TokenFixesEndpoint
  <1>6. GenerationFixesScope
    BY <1>2, <1>3, NoItemIs DEF GenerationFixesScope, OfGeneration, Sources!Row
  <1>7. RowsNamed
    BY <1>2, <1>3 DEF RowsNamed
  <1>q. QED
    BY <1>4, <1>5, <1>6, <1>7 DEF SourcesInv

LEMMA SourcesNextKeeps == ASSUME SourcesInv, Sources!Next PROVE SourcesKeeps
  <1>1. CASE \/ \E r \in Sources!Row, ep \in Sources!Endpoint, en \in BOOLEAN :
                  Sources!edit_indexer(r, ep, en) \/ Sources!api_v1_update_indexer(r, ep, en)
             \/ \E r \in Sources!Row :
                  Sources!delete_indexer(r) \/ Sources!api_v1_delete_indexer(r)
    BY <1>1, EditStep, DeleteIndexerStep DEF Sources!api_v1_update_indexer,
       Sources!api_v1_delete_indexer
  <1>2. CASE \/ Sources!prowlarr_sync_start
             \/ \E en \in BOOLEAN : Sources!prowlarr_sync_commit(en)
    BY <1>2, SyncHandlers
  <1>3. CASE \/ \E r \in Sources!Row, u \in rs_Url, id \in BOOLEAN :
                  Sources!fetch_all_rss(r, u, id) \/ Sources!search_all_indexers(r, u, id)
             \/ Sources!poll_rss \/ Sources!force_grab_pending
             \/ Sources!dismiss_pending_release \/ Sources!issue_selections
             \/ Sources!consume_selection \/ Sources!clear_selection_evidence
             \/ \E u \in rs_Url : Sources!grab_volume_release(u)
    BY <1>3, ReleaseHandlers
  <1>4. CASE Sources!grab_item
    BY <1>4, GrabStep
  <1>5. CASE \/ \E ok \in BOOLEAN : Sources!record_grab(ok)
             \/ Sources!add_block \/ \E u \in rs_Url : Sources!delete_blocklist_entry(u)
    BY <1>5, RecordHandlers
  <1>q. QED
    BY <1>1, <1>2, <1>3, <1>4, <1>5 DEF Sources!Next

\* release_sources._source_is_current, release_identity.is_blocked and grab_core.grab_item:
\* what is sent to a client has a row that stands at the endpoint where it was seen, and
\* was not blocked through either row of its sub-indexer.
THEOREM SourcesAreHonoured == Spec => SourcesHonoured
  <1>1. Init => SourcesInv
    BY SourcesInit DEF Init
  <1>0. [Next]_vars => [Sources!Next]_rs_vars
    BY DEF Next, vars, CopyStep, BinStep, CatalogStep, SourcesStep, SettingsStep, MetadataStep
  <1>2. SourcesInv /\ [Next]_vars => SourcesInv'
    <2>1. CASE Sources!Next
      BY <2>1, SourcesNextKeeps DEF SourcesKeeps
    <2>2. ASSUME SourcesInv, UNCHANGED rs_vars PROVE SourcesInv'
      <3>1. UNCHANGED <<rs_ix, rs_toks, rs_gen, rs_sync, rs_found, rs_pend, rs_sel, rs_grab,
                        rs_seen, rs_blocks>>
        BY <2>2 DEF rs_vars
      <3>2. /\ Sound(rs_found') /\ Sound(rs_pend') /\ Sound(rs_sel') /\ Sound(rs_seen')
            /\ GrabSound(rs_grab') /\ \A b \in rs_blocks' : BlockSound(b)
        BY <2>2, <3>1, SoundNow
      <3>q. QED
        BY <2>2, <3>1, <3>2, ItemsStep
    <2>q. QED
      BY <1>0, <2>1, <2>2
  <1>3. SourcesInv /\ [Next]_vars =>
          [comp = "sources" => Sources!SourceStands /\ Sources!BlockHoldsOnBothWays]_rs_vars
    BY <1>0, SourcesNextKeeps DEF SourcesKeeps
  <1>q. QED
    BY <1>1, <1>2, <1>3, PTL DEF Spec, SourcesHonoured

-----------------------------------------------------------------------------
(* The settings: what is the default exists.  Their inductive invariant is *)
(* the type invariant of LibrarySettings.                                  *)

\* What a transaction of the settings has to show.
SettingsKeeps ==
    Settings!TypeOK' /\ Settings!PlacedOnArrival /\ Settings!ExclusionHonoured

LEMMA NothingAppears ==
  ASSUME Settings!TypeOK', ls_ser' = ls_ser \/ ls_ser.st # "none" \/ ls_ser'.st # "active"
  PROVE  SettingsKeeps
  BY DEF SettingsKeeps, Settings!PlacedOnArrival, Settings!ExclusionHonoured, Settings!Appears

LEMMA IdBounds ==
  /\ Settings!Id \subseteq Nat /\ Settings!Ref = Settings!Id \cup {0}
  /\ 0 \notin Settings!Id /\ 1 \in Settings!Id
  <1>1. ls_MaxId \in Nat \ {0}
    BY CatalogueAssumption
  <1>q. QED
    BY <1>1 DEF Settings!Id, Settings!Ref

\* Rows come and go one at a time.
LEMMA LiveOf ==
  ASSUME NEW t \in Settings!Table
  PROVE  /\ Settings!Live(t) \subseteq Settings!Id
         /\ \A i \in Settings!Id :
              /\ [t EXCEPT ![i] = "live"] \in Settings!Table
              /\ Settings!Live([t EXCEPT ![i] = "live"]) = Settings!Live(t) \cup {i}
              /\ [t EXCEPT ![i] = "gone"] \in Settings!Table
              /\ Settings!Live([t EXCEPT ![i] = "gone"]) = Settings!Live(t) \ {i}
  BY DEF Settings!Live, Settings!Table

LEMMA LowestLive ==
  ASSUME NEW S \in SUBSET Settings!Id, S # {}
  PROVE  Settings!Lowest(S) \in S
  <1>1. S \in SUBSET Nat
    BY IdBounds
  <1>q. QED
    BY <1>1, LowestIn

\* The folder a new series gets exists, if there is one (helpers.resolve_root_folder_id).
LEMMA ResolvedLive ==
  ASSUME Settings!TypeOK, NEW f \in Settings!Ref, Settings!resolve_root_folder_id(f) # 0
  PROVE  /\ Settings!resolve_root_folder_id(f) \in Settings!Live(ls_folder)
         /\ Settings!resolve_root_folder_id(f) \in Settings!Ref
  <1>1. ls_folder \in Settings!Table /\ ls_fdef \subseteq Settings!Live(ls_folder)
    BY DEF Settings!TypeOK
  <1>2. Settings!Live(ls_folder) \subseteq Settings!Id
    BY <1>1, LiveOf
  <1>3. CASE f \in Settings!Live(ls_folder)
    BY <1>3 DEF Settings!resolve_root_folder_id
  <1>4. CASE f \notin Settings!Live(ls_folder)
    <2> DEFINE S == IF ls_fdef # {} THEN ls_fdef ELSE Settings!Live(ls_folder)
    <2>1. /\ Settings!Live(ls_folder) # {}
          /\ Settings!resolve_root_folder_id(f) = Settings!Lowest(S)
      BY <1>4 DEF Settings!resolve_root_folder_id
    <2>2. S \in SUBSET Settings!Id /\ S # {} /\ S \subseteq Settings!Live(ls_folder)
      BY <1>1, <1>2, <2>1
    <2> HIDE DEF S
    <2>3. Settings!Lowest(S) \in S
      BY <2>2, LowestLive
    <2>q. QED
      BY <1>2, <2>1, <2>2, <2>3, IdBounds
  <1>q. QED
    BY <1>2, <1>3, <1>4, IdBounds

\* Whatever refers to what a transaction left alone keeps its type.
RestTypes == /\ ls_lst \in [on : BOOLEAN, root : Settings!Ref, q : Settings!Ref]
             /\ ls_sync \in [pc : {"idle", "await"}, root : Settings!Ref, q : Settings!Ref]
             /\ ls_excl \in BOOLEAN
FolderTypes == ls_folder \in Settings!Table /\ ls_fdef \subseteq Settings!Live(ls_folder)
QualityTypes == /\ ls_quality \in Settings!Table
                /\ ls_qdef \subseteq Settings!Live(ls_quality)
                /\ ls_scored \subseteq Settings!Live(ls_quality) /\ ls_fmt \in BOOLEAN
LangTypes == ls_lang \in Settings!Table /\ ls_ldef \in Settings!Ref
SeriesTypes == ls_ser \in [st : {"none", "active", "binned"}, root : Settings!Ref,
                           q : Settings!Ref, lang : Settings!Ref]

LEMMA SettingsTypes ==
  /\ Settings!TypeOK <=> FolderTypes /\ QualityTypes /\ LangTypes /\ SeriesTypes /\ RestTypes
  /\ Settings!TypeOK' <=>
       FolderTypes' /\ QualityTypes' /\ LangTypes' /\ SeriesTypes' /\ RestTypes'
  BY DEF Settings!TypeOK, FolderTypes, QualityTypes, LangTypes, SeriesTypes, RestTypes

LEMMA SettingsFrames ==
  /\ FolderTypes /\ UNCHANGED <<ls_folder, ls_fdef>> => FolderTypes'
  /\ QualityTypes /\ UNCHANGED <<ls_quality, ls_qdef, ls_scored, ls_fmt>> => QualityTypes'
  /\ LangTypes /\ UNCHANGED <<ls_lang, ls_ldef>> => LangTypes'
  /\ SeriesTypes /\ UNCHANGED ls_ser => SeriesTypes'
  /\ RestTypes /\ UNCHANGED <<ls_lst, ls_sync, ls_excl>> => RestTypes'
  BY DEF FolderTypes, QualityTypes, LangTypes, SeriesTypes, RestTypes

-----------------------------------------------------------------------------
(* Root folders.                                                           *)

LEMMA FolderStep ==
  ASSUME Settings!TypeOK, FolderTypes',
         UNCHANGED <<ls_quality, ls_qdef, ls_lang, ls_ldef, ls_scored, ls_fmt, ls_ser,
                     ls_lst, ls_sync, ls_excl>>
  PROVE  SettingsKeeps
  <1>1. Settings!TypeOK'
    BY SettingsTypes, SettingsFrames
  <1>q. QED
    BY <1>1, NothingAppears

LEMMA FolderHandlers ==
  ASSUME Settings!TypeOK, NEW f \in Settings!Id, NEW d \in BOOLEAN,
         \/ Settings!delete_root_folder_entry(f) \/ Settings!set_default_root_folder_entry(f)
         \/ Settings!add_root_folder_entry(f, d) \/ Settings!update_root_folder_entry(f, d)
  PROVE  SettingsKeeps
  <1> DEFINE L == Settings!Live(ls_folder)
  <1>1. ls_folder \in Settings!Table /\ ls_fdef \subseteq L /\ L \subseteq Settings!Id
    BY LiveOf DEF Settings!TypeOK
  <1>2. /\ [ls_folder EXCEPT ![f] = "live"] \in Settings!Table
        /\ Settings!Live([ls_folder EXCEPT ![f] = "live"]) = L \cup {f}
        /\ [ls_folder EXCEPT ![f] = "gone"] \in Settings!Table
        /\ Settings!Live([ls_folder EXCEPT ![f] = "gone"]) = L \ {f}
    BY <1>1, LiveOf
  <1>3. L \ {f} # {} => Settings!Lowest(L \ {f}) \in L \ {f}
    <2>1. L \ {f} \in SUBSET Settings!Id
      BY <1>1
    <2>q. QED
      BY <2>1, LowestLive
  <1>4. UNCHANGED <<ls_quality, ls_qdef, ls_lang, ls_ldef, ls_scored, ls_fmt, ls_ser,
                    ls_lst, ls_sync, ls_excl>>
    BY DEF Settings!delete_root_folder_entry, Settings!set_default_root_folder_entry,
       Settings!add_root_folder_entry, Settings!update_root_folder_entry, Settings!Others
  <1>5. CASE Settings!delete_root_folder_entry(f)
    <2>1. /\ ls_folder' = [ls_folder EXCEPT ![f] = "gone"]
          /\ ls_fdef' = Settings!WithDefault(L \ {f}, ls_fdef \ {f}, Settings!Lowest(L \ {f}))
      BY <1>5 DEF Settings!delete_root_folder_entry
    <2>2. ls_fdef' \subseteq L \ {f}
      BY <1>1, <1>3, <2>1 DEF Settings!WithDefault
    <2>3. FolderTypes'
      BY <1>2, <2>1, <2>2 DEF FolderTypes
    <2>q. QED
      BY <1>4, <2>3, FolderStep
  <1>6. CASE Settings!set_default_root_folder_entry(f)
    <2>1. FolderTypes'
      BY <1>1, <1>6 DEF Settings!set_default_root_folder_entry, FolderTypes
    <2>q. QED
      BY <1>4, <2>1, FolderStep
  <1>7. CASE Settings!add_root_folder_entry(f, d)
    <2>1. /\ ls_folder' = [ls_folder EXCEPT ![f] = "live"]
          /\ ls_fdef' \subseteq L \cup {f}
      BY <1>1, <1>7 DEF Settings!add_root_folder_entry
    <2>2. FolderTypes'
      BY <1>2, <2>1 DEF FolderTypes
    <2>q. QED
      BY <1>4, <2>2, FolderStep
  <1>8. CASE Settings!update_root_folder_entry(f, d)
    <2> DEFINE got == IF d THEN {f} ELSE ls_fdef \ {f}
               pick == IF L \ {f} = {} THEN f ELSE Settings!Lowest(L \ {f})
    <2>1. /\ f \in L /\ ls_folder' = ls_folder
          /\ ls_fdef' = Settings!WithDefault(L, got, pick)
      BY <1>8 DEF Settings!update_root_folder_entry
    <2>2. got \subseteq L /\ pick \in L
      BY <1>1, <1>3, <2>1
    <2> HIDE DEF got, pick
    <2>3. ls_fdef' \subseteq L
      BY <2>1, <2>2 DEF Settings!WithDefault
    <2>4. FolderTypes'
      BY <1>1, <2>1, <2>3 DEF FolderTypes
    <2>q. QED
      BY <1>4, <2>4, FolderStep
  <1>q. QED
    BY <1>5, <1>6, <1>7, <1>8

-----------------------------------------------------------------------------
(* Quality profiles and the scores of the custom format.                   *)

LEMMA QualityStep ==
  ASSUME Settings!TypeOK, QualityTypes', SeriesTypes', ls_ser'.st = ls_ser.st,
         UNCHANGED <<ls_folder, ls_fdef, ls_lang, ls_ldef, ls_lst, ls_sync, ls_excl>>
  PROVE  SettingsKeeps
  <1>1. Settings!TypeOK'
    BY SettingsTypes, SettingsFrames
  <1>q. QED
    BY <1>1, NothingAppears

LEMMA QualityHandlers ==
  ASSUME Settings!TypeOK, NEW p \in Settings!Id, NEW d \in BOOLEAN,
         \/ Settings!create_quality_profile(p, d) \/ Settings!set_default_quality_profile(p)
         \/ Settings!api_v1_set_default_quality_profile(p)
         \/ Settings!delete_quality_profile(p) \/ Settings!api_v1_delete_quality_profile(p)
         \/ Settings!api_v1_create_quality_profile(p, d)
         \/ Settings!api_v1_update_quality_profile(p, d)
  PROVE  SettingsKeeps
  <1> DEFINE L == Settings!Live(ls_quality)
  <1>1. /\ ls_quality \in Settings!Table /\ ls_qdef \subseteq L /\ ls_scored \subseteq L
        /\ ls_fmt \in BOOLEAN /\ L \subseteq Settings!Id /\ SeriesTypes
    BY LiveOf DEF Settings!TypeOK, SeriesTypes
  <1>2. /\ [ls_quality EXCEPT ![p] = "live"] \in Settings!Table
        /\ Settings!Live([ls_quality EXCEPT ![p] = "live"]) = L \cup {p}
        /\ [ls_quality EXCEPT ![p] = "gone"] \in Settings!Table
        /\ Settings!Live([ls_quality EXCEPT ![p] = "gone"]) = L \ {p}
    BY <1>1, LiveOf
  <1>3. UNCHANGED <<ls_folder, ls_fdef, ls_lang, ls_ldef, ls_lst, ls_sync, ls_excl>>
    BY DEF Settings!create_quality_profile, Settings!set_default_quality_profile,
       Settings!api_v1_set_default_quality_profile, Settings!delete_quality_profile,
       Settings!api_v1_delete_quality_profile, Settings!api_v1_create_quality_profile,
       Settings!api_v1_update_quality_profile, Settings!FoldersAndLangs, Settings!Others
  <1>4. CASE Settings!create_quality_profile(p, d) \/ Settings!api_v1_create_quality_profile(p, d)
    <2>1. /\ ls_quality' = [ls_quality EXCEPT ![p] = "live"]
          /\ ls_qdef' = (IF d THEN {p} ELSE ls_qdef) /\ UNCHANGED <<ls_scored, ls_fmt, ls_ser>>
      BY <1>4 DEF Settings!create_quality_profile, Settings!api_v1_create_quality_profile
    <2>2. QualityTypes'
      BY <1>1, <1>2, <2>1 DEF QualityTypes
    <2>q. QED
      BY <1>1, <1>3, <2>1, <2>2, QualityStep, SettingsFrames
  <1>5. CASE \/ Settings!set_default_quality_profile(p)
             \/ Settings!api_v1_set_default_quality_profile(p)
             \/ Settings!api_v1_update_quality_profile(p, d)
    <2>1. /\ UNCHANGED <<ls_quality, ls_scored, ls_fmt, ls_ser>> /\ ls_qdef' \subseteq L
      BY <1>1, <1>5 DEF Settings!set_default_quality_profile,
         Settings!api_v1_set_default_quality_profile, Settings!api_v1_update_quality_profile
    <2>2. QualityTypes'
      BY <1>1, <2>1 DEF QualityTypes
    <2>q. QED
      BY <1>1, <1>3, <2>1, <2>2, QualityStep, SettingsFrames
  <1>6. CASE Settings!delete_quality_profile(p) \/ Settings!api_v1_delete_quality_profile(p)
    <2>1. /\ ls_quality' = [ls_quality EXCEPT ![p] = "gone"]
          /\ ls_qdef' = ls_qdef \ {p} /\ ls_scored' = ls_scored \ {p} /\ UNCHANGED ls_fmt
          /\ ls_ser' = IF ls_ser.q = p THEN [ls_ser EXCEPT !.q = 0] ELSE ls_ser
      BY <1>6 DEF Settings!delete_quality_profile, Settings!api_v1_delete_quality_profile
    <2>2. QualityTypes'
      BY <1>1, <1>2, <2>1 DEF QualityTypes
    <2>3. SeriesTypes' /\ ls_ser'.st = ls_ser.st
      BY <1>1, <2>1, IdBounds DEF SeriesTypes
    <2>q. QED
      BY <1>3, <2>2, <2>3, QualityStep
  <1>q. QED
    BY <1>4, <1>5, <1>6

LEMMA ScoreHandlers ==
  ASSUME Settings!TypeOK,
         \/ Settings!create_custom_format \/ Settings!api_v1_delete_custom_format
         \/ \E P \in SUBSET Settings!Id : \/ Settings!api_v1_create_custom_format(P)
                                          \/ Settings!api_v1_update_custom_format(P)
         \/ \E p \in Settings!Id, d \in BOOLEAN : \/ Settings!cf_score_matrix_save(p, d)
                                                  \/ Settings!set_format_scores(p, d)
  PROVE  SettingsKeeps
  <1>1. /\ QualityTypes /\ SeriesTypes
    BY SettingsTypes
  <1>2. /\ UNCHANGED <<ls_folder, ls_fdef, ls_lang, ls_ldef, ls_lst, ls_sync, ls_excl>>
        /\ UNCHANGED <<ls_quality, ls_qdef, ls_ser>>
    BY DEF Settings!create_custom_format, Settings!api_v1_delete_custom_format,
       Settings!api_v1_create_custom_format, Settings!api_v1_update_custom_format,
       Settings!_replace_custom_format_scores, Settings!cf_score_matrix_save,
       Settings!set_format_scores, Settings!ButScores, Settings!Others
  <1>3. /\ ls_scored' \subseteq Settings!Live(ls_quality)
        /\ ls_fmt' = TRUE \/ ls_fmt' = FALSE \/ ls_fmt' = ls_fmt
    BY <1>1 DEF Settings!create_custom_format, Settings!api_v1_delete_custom_format,
       Settings!api_v1_create_custom_format, Settings!api_v1_update_custom_format,
       Settings!_replace_custom_format_scores, Settings!cf_score_matrix_save,
       Settings!set_format_scores, QualityTypes
  <1>4. ls_fmt' \in BOOLEAN
    BY <1>1, <1>3 DEF QualityTypes
  <1>5. QualityTypes'
    BY <1>1, <1>2, <1>3, <1>4 DEF QualityTypes
  <1>q. QED
    BY <1>1, <1>2, <1>5, QualityStep, SettingsFrames

-----------------------------------------------------------------------------
(* Language profiles.                                                      *)

LEMMA LangHandlers ==
  ASSUME Settings!TypeOK, NEW p \in Settings!Id, NEW d \in BOOLEAN,
         \/ Settings!create_language_profile(p) \/ Settings!set_default_language_profile(p)
         \/ Settings!api_v1_set_default_language_profile(p)
         \/ Settings!delete_language_profile(p) \/ Settings!api_v1_delete_language_profile(p)
         \/ Settings!api_v1_create_language_profile(p, d)
         \/ Settings!api_v1_update_language_profile(p, d)
  PROVE  SettingsKeeps
  <1>1. ls_lang \in Settings!Table /\ ls_ldef \in Settings!Ref /\ p \in Settings!Ref
        /\ 0 \in Settings!Ref
    BY IdBounds DEF Settings!TypeOK
  <1>2. /\ UNCHANGED <<ls_folder, ls_fdef, ls_quality, ls_qdef, ls_scored, ls_fmt, ls_ser,
                       ls_lst, ls_sync, ls_excl>>
    BY DEF Settings!create_language_profile, Settings!set_default_language_profile,
       Settings!api_v1_set_default_language_profile, Settings!delete_language_profile,
       Settings!api_v1_delete_language_profile, Settings!api_v1_create_language_profile,
       Settings!api_v1_update_language_profile, Settings!ButLangs, Settings!Others
  <1>3. /\ \/ ls_lang' = ls_lang \/ ls_lang' = [ls_lang EXCEPT ![p] = "live"]
           \/ ls_lang' = [ls_lang EXCEPT ![p] = "gone"]
        /\ ls_ldef' \in {ls_ldef, p, 0}
    BY DEF Settings!create_language_profile, Settings!set_default_language_profile,
       Settings!api_v1_set_default_language_profile, Settings!delete_language_profile,
       Settings!api_v1_delete_language_profile, Settings!api_v1_create_language_profile,
       Settings!api_v1_update_language_profile
  <1>4. LangTypes'
    BY <1>1, <1>3, LiveOf DEF LangTypes
  <1>5. Settings!TypeOK'
    BY <1>2, <1>4, SettingsTypes, SettingsFrames
  <1>q. QED
    BY <1>2, <1>5, NothingAppears

-----------------------------------------------------------------------------
(* The series row.                                                         *)

LEMMA ResolvesRef ==
  ASSUME NEW t \in Settings!Table, NEW r, Settings!Resolves(t, r)
  PROVE  r \in Settings!Ref
  BY LiveOf, IdBounds DEF Settings!Resolves

\* An insert into a folder that exists, by a step that is no sync.
LEMMA InsertTypes ==
  ASSUME Settings!TypeOK, NEW root \in Settings!Ref, NEW q, NEW l, Settings!Insert(root, q, l)
  PROVE  SeriesTypes' /\ ls_ser'.root = root
  <1>1. q \in Settings!Ref /\ l \in Settings!Ref
    BY ResolvesRef DEF Settings!TypeOK, Settings!Insert
  <1>q. QED
    BY <1>1 DEF Settings!Insert, SeriesTypes

LEMMA AddHandlers ==
  ASSUME Settings!TypeOK, NEW f \in Settings!Ref, NEW q \in Settings!Ref, NEW l \in Settings!Ref,
         Settings!add_series(f) \/ Settings!api_v1_create_series(f, q, l)
  PROVE  SettingsKeeps
  <1> DEFINE root == Settings!resolve_root_folder_id(f)
  <1>1. /\ root # 0 /\ \E q1, l1 : Settings!Insert(root, q1, l1)
        /\ UNCHANGED <<ls_folder, ls_fdef, ls_quality, ls_qdef, ls_lang, ls_ldef, ls_scored,
                       ls_fmt, ls_lst, ls_sync, ls_excl>>
    BY DEF Settings!add_series, Settings!api_v1_create_series, Settings!ButSeries,
       Settings!Others
  <1>2. root \in Settings!Live(ls_folder) /\ root \in Settings!Ref
    BY <1>1, ResolvedLive
  <1> HIDE DEF root
  <1>3. SeriesTypes' /\ ls_ser'.root = root
    BY <1>1, <1>2, InsertTypes
  <1>4. Settings!TypeOK'
    BY <1>1, <1>3, SettingsTypes, SettingsFrames
  <1>q. QED
    BY <1>1, <1>2, <1>3, <1>4 DEF SettingsKeeps, Settings!PlacedOnArrival,
       Settings!ExclusionHonoured, Settings!Appears

LEMMA RowHandlers ==
  ASSUME Settings!TypeOK, NEW f \in Settings!Ref, NEW q \in Settings!Ref, NEW l \in Settings!Ref,
         \/ Settings!series_editor_save(f, q, l) \/ Settings!set_series_root_folder(f)
         \/ Settings!delete_series \/ Settings!restore_series \/ Settings!purge_series
  PROVE  SettingsKeeps
  <1>1. SeriesTypes /\ 0 \in Settings!Ref
    BY SettingsTypes, IdBounds
  <1>2. /\ UNCHANGED <<ls_folder, ls_fdef, ls_quality, ls_qdef, ls_lang, ls_ldef, ls_scored,
                       ls_fmt, ls_lst, ls_sync, ls_excl>>
        /\ ls_ser.st # "none"
    BY DEF Settings!series_editor_save, Settings!set_series_root_folder,
       Settings!delete_series, Settings!restore_series, Settings!purge_series,
       Settings!ButSeries, Settings!Others
  <1>3. SeriesTypes'
    <2>1. ASSUME NEW q1 \in Settings!Ref, NEW l1 \in Settings!Ref,
                 Settings!series_editor_save(f, q1, l1)
          PROVE  SeriesTypes'
      <3>1. ls_ser' = [ls_ser EXCEPT !.root = f, !.q = q1, !.lang = l1]
        BY <2>1 DEF Settings!series_editor_save
      <3>q. QED
        BY <1>1, <3>1 DEF SeriesTypes
    <2>2. CASE Settings!set_series_root_folder(f)
      <3>1. ls_ser.q \in Settings!Ref /\ ls_ser.lang \in Settings!Ref
        BY <1>1 DEF SeriesTypes
      <3>q. QED
        BY <2>1, <2>2, <3>1 DEF Settings!set_series_root_folder
    <2>3. CASE Settings!delete_series \/ Settings!restore_series
      BY <1>1, <2>3 DEF Settings!delete_series, Settings!restore_series, SeriesTypes
    <2>4. CASE Settings!purge_series
      BY <1>1, <2>4 DEF Settings!purge_series, SeriesTypes, Settings!Absent
    <2>q. QED
      BY <2>1, <2>2, <2>3, <2>4
  <1>4. Settings!TypeOK'
    BY <1>2, <1>3, SettingsTypes, SettingsFrames
  <1>q. QED
    BY <1>2, <1>4, NothingAppears

LEMMA BootstrapStep ==
  ASSUME Settings!TypeOK, Settings!_bootstrap_root_folders_locked
  PROVE  SettingsKeeps
  <1> DEFINE L == Settings!Live(ls_folder)
             new == IF L = {} THEN Settings!Fresh(ls_folder) ELSE {}
             live == L \cup new
             def == IF ls_fdef # {} THEN ls_fdef ELSE IF new # {} THEN new ELSE live
  <1>0. /\ ls_folder \in Settings!Table /\ ls_fdef \subseteq L /\ L \subseteq Settings!Id
        /\ SeriesTypes
    BY LiveOf DEF Settings!TypeOK, SeriesTypes
  <1>1. /\ ls_sync' = [pc |-> "idle", root |-> 0, q |-> 0]
        /\ ls_folder' = [i \in Settings!Id |-> IF i \in new THEN "live" ELSE ls_folder[i]]
        /\ ls_fdef' = ls_fdef \cup new
        /\ ls_ser' = IF ls_ser.st # "none" /\ ls_ser.root = 0 /\ live # {}
                     THEN [ls_ser EXCEPT !.root = Settings!Lowest(def)] ELSE ls_ser
        /\ UNCHANGED <<ls_quality, ls_qdef, ls_lang, ls_ldef, ls_scored, ls_fmt, ls_lst, ls_excl>>
    BY DEF Settings!_bootstrap_root_folders_locked
  <1>2. new \subseteq Settings!Id
    BY DEF Settings!Fresh
  <1> HIDE DEF new
  <1>3. FolderTypes'
    BY <1>0, <1>1, <1>2 DEF FolderTypes, Settings!Table, Settings!Live
  <1>4. SeriesTypes'
    <2>1. CASE live # {}
      <3>1. def \in SUBSET Settings!Id /\ def # {}
        BY <1>0, <1>2, <2>1
      <3>2. Settings!Lowest(def) \in Settings!Ref
        BY <3>1, LowestLive, IdBounds
      <3> HIDE DEF def
      <3>q. QED
        BY <1>0, <1>1, <3>2 DEF SeriesTypes
    <2>2. CASE live = {}
      BY <1>0, <1>1, <2>2 DEF SeriesTypes
    <2>q. QED
      BY <2>1, <2>2
  <1>5. RestTypes'
    BY <1>1, SettingsTypes, IdBounds DEF RestTypes
  <1>6. Settings!TypeOK'
    BY <1>1, <1>3, <1>4, <1>5, SettingsTypes, SettingsFrames
  <1>7. ls_ser' = ls_ser \/ ls_ser.st # "none"
    BY <1>1
  <1>q. QED
    BY <1>6, <1>7, NothingAppears

-----------------------------------------------------------------------------
(* Import lists and their sync.                                            *)

LEMMA ListHandlers ==
  ASSUME Settings!TypeOK,
         \/ \E f, q \in Settings!Ref : \/ Settings!create_import_list(f, q)
                                       \/ Settings!api_v1_create_import_list(f, q)
                                       \/ Settings!api_v1_update_import_list(f, q)
         \/ Settings!delete_import_list \/ Settings!api_v1_delete_import_list
         \/ Settings!create_import_list_exclusion \/ Settings!api_v1_create_import_list_exclusion
         \/ Settings!delete_import_list_exclusion \/ Settings!api_v1_delete_import_list_exclusion
         \/ Settings!_sync_all_lists \/ Settings!_fetch_list_failed
  PROVE  SettingsKeeps
  <1>1. UNCHANGED <<ls_folder, ls_fdef, ls_quality, ls_qdef, ls_lang, ls_ldef, ls_scored,
                    ls_fmt, ls_ser>>
    BY DEF Settings!create_import_list, Settings!api_v1_create_import_list,
       Settings!api_v1_update_import_list, Settings!edit_import_list,
       Settings!delete_import_list, Settings!api_v1_delete_import_list,
       Settings!create_import_list_exclusion, Settings!api_v1_create_import_list_exclusion,
       Settings!delete_import_list_exclusion, Settings!api_v1_delete_import_list_exclusion,
       Settings!_sync_all_lists, Settings!_fetch_list_failed, Settings!ButSeries
  <1>2. RestTypes /\ 0 \in Settings!Ref
    BY SettingsTypes, IdBounds
  <1>3. CASE \E f, q \in Settings!Ref : Settings!edit_import_list(f, q)
    <2>1. RestTypes'
      BY <1>2, <1>3 DEF Settings!edit_import_list, RestTypes
    <2>q. QED
      BY <1>1, <2>1, SettingsTypes, SettingsFrames, NothingAppears
  <1>4. CASE Settings!delete_import_list
    <2>1. RestTypes'
      BY <1>2, <1>4 DEF Settings!delete_import_list, RestTypes
    <2>q. QED
      BY <1>1, <2>1, SettingsTypes, SettingsFrames, NothingAppears
  <1>5. CASE Settings!create_import_list_exclusion \/ Settings!delete_import_list_exclusion
    <2>1. RestTypes'
      BY <1>2, <1>5 DEF Settings!create_import_list_exclusion,
         Settings!delete_import_list_exclusion, RestTypes
    <2>q. QED
      BY <1>1, <2>1, SettingsTypes, SettingsFrames, NothingAppears
  <1>6. CASE Settings!_sync_all_lists \/ Settings!_fetch_list_failed
    <2>1. RestTypes'
      BY <1>2, <1>6 DEF Settings!_sync_all_lists, Settings!_fetch_list_failed, RestTypes
    <2>q. QED
      BY <1>1, <2>1, SettingsTypes, SettingsFrames, NothingAppears
  <1>q. QED
    BY <1>3, <1>4, <1>5, <1>6 DEF Settings!create_import_list,
       Settings!api_v1_create_import_list, Settings!api_v1_update_import_list,
       Settings!api_v1_delete_import_list, Settings!api_v1_create_import_list_exclusion,
       Settings!api_v1_delete_import_list_exclusion

LEMMA SyncStep ==
  ASSUME Settings!TypeOK, Settings!_sync_list
  PROVE  SettingsKeeps
  <1> DEFINE root == Settings!resolve_root_folder_id(ls_sync.root)
  <1>1. /\ ls_sync' = [pc |-> "idle", root |-> 0, q |-> 0]
        /\ IF Settings!Added THEN Settings!Insert(root, ls_sync.q, 0) ELSE UNCHANGED ls_ser
        /\ UNCHANGED <<ls_folder, ls_fdef, ls_quality, ls_qdef, ls_lang, ls_ldef, ls_scored,
                       ls_fmt, ls_lst, ls_excl>>
    BY DEF Settings!_sync_list, Settings!ButSeries
  <1>2. RestTypes /\ RestTypes'
    BY <1>1, SettingsTypes, IdBounds DEF RestTypes
  <1>3. CASE Settings!Added
    <2>1. root # 0 /\ ~ls_excl /\ ls_sync.root \in Settings!Ref
      BY <1>2, <1>3 DEF Settings!Added, Settings!_entry_is_excluded, RestTypes
    <2>2. root \in Settings!Live(ls_folder) /\ root \in Settings!Ref
      BY <2>1, ResolvedLive
    <2> HIDE DEF root
    <2>3. SeriesTypes' /\ ls_ser'.root = root
      BY <1>1, <1>3, <2>2, InsertTypes
    <2>4. Settings!TypeOK'
      BY <1>1, <1>2, <2>3, SettingsTypes, SettingsFrames
    <2>q. QED
      BY <2>1, <2>2, <2>3, <2>4 DEF SettingsKeeps, Settings!PlacedOnArrival,
         Settings!ExclusionHonoured
  <1>4. CASE ~Settings!Added
    BY <1>1, <1>2, <1>4, SettingsTypes, SettingsFrames, NothingAppears
  <1>q. QED
    BY <1>3, <1>4

LEMMA SettingsInit == ASSUME Settings!Init PROVE Settings!TypeOK
  <1>1. ls_folder \in Settings!Table /\ Settings!Live(ls_folder) = {1}
    BY IdBounds DEF Settings!Init, Settings!Table, Settings!Live
  <1>2. FolderTypes /\ QualityTypes /\ LangTypes
    BY <1>1, IdBounds DEF Settings!Init, FolderTypes, QualityTypes, LangTypes
  <1>3. SeriesTypes /\ RestTypes
    BY IdBounds DEF Settings!Init, SeriesTypes, RestTypes, Settings!Absent
  <1>q. QED
    BY <1>2, <1>3, SettingsTypes

LEMMA SettingsNextKeeps == ASSUME Settings!TypeOK, Settings!Next PROVE SettingsKeeps
  <1>1. CASE \/ \E f \in Settings!Id : \/ Settings!delete_root_folder_entry(f)
                                       \/ Settings!set_default_root_folder_entry(f)
             \/ \E f \in Settings!Id, d \in BOOLEAN : \/ Settings!add_root_folder_entry(f, d)
                                                      \/ Settings!update_root_folder_entry(f, d)
    BY <1>1, FolderHandlers
  <1>2. CASE \/ \E p \in Settings!Id : \/ Settings!create_quality_profile(p, FALSE)
                                       \/ Settings!set_default_quality_profile(p)
                                       \/ Settings!api_v1_set_default_quality_profile(p)
                                       \/ Settings!delete_quality_profile(p)
                                       \/ Settings!api_v1_delete_quality_profile(p)
             \/ \E p \in Settings!Id, d \in BOOLEAN :
                     \/ Settings!api_v1_create_quality_profile(p, d)
                     \/ Settings!api_v1_update_quality_profile(p, d)
    BY <1>2, QualityHandlers
  <1>3. CASE \/ Settings!create_custom_format \/ Settings!api_v1_delete_custom_format
             \/ \E P \in SUBSET Settings!Id : \/ Settings!api_v1_create_custom_format(P)
                                              \/ Settings!api_v1_update_custom_format(P)
             \/ \E p \in Settings!Id, d \in BOOLEAN : \/ Settings!cf_score_matrix_save(p, d)
                                                      \/ Settings!set_format_scores(p, d)
    BY <1>3, ScoreHandlers
  <1>4. CASE \/ \E p \in Settings!Id : \/ Settings!create_language_profile(p)
                                       \/ Settings!set_default_language_profile(p)
                                       \/ Settings!api_v1_set_default_language_profile(p)
                                       \/ Settings!delete_language_profile(p)
                                       \/ Settings!api_v1_delete_language_profile(p)
             \/ \E p \in Settings!Id, d \in BOOLEAN :
                     \/ Settings!api_v1_create_language_profile(p, d)
                     \/ Settings!api_v1_update_language_profile(p, d)
    BY <1>4, LangHandlers
  <1>5. CASE \/ \E f \in Settings!Ref : Settings!add_series(f)
             \/ \E f, q, l \in Settings!Ref : Settings!api_v1_create_series(f, q, l)
    BY <1>5, AddHandlers, IdBounds
  <1>6. CASE \/ \E f \in Settings!Ref : Settings!set_series_root_folder(f)
             \/ \E f, q, l \in Settings!Ref : Settings!series_editor_save(f, q, l)
             \/ Settings!delete_series \/ Settings!restore_series \/ Settings!purge_series
    BY <1>6, RowHandlers, IdBounds
  <1>7. CASE Settings!_bootstrap_root_folders_locked
    BY <1>7, BootstrapStep
  <1>8. CASE \/ \E f, q \in Settings!Ref : \/ Settings!create_import_list(f, q)
                                           \/ Settings!api_v1_create_import_list(f, q)
                                           \/ Settings!api_v1_update_import_list(f, q)
             \/ Settings!delete_import_list \/ Settings!api_v1_delete_import_list
             \/ Settings!create_import_list_exclusion
             \/ Settings!api_v1_create_import_list_exclusion
             \/ Settings!delete_import_list_exclusion
             \/ Settings!api_v1_delete_import_list_exclusion
             \/ Settings!_sync_all_lists \/ Settings!_fetch_list_failed
    BY <1>8, ListHandlers
  <1>9. CASE Settings!_sync_list
    BY <1>9, SyncStep
  <1>q. QED
    BY <1>1, <1>2, <1>3, <1>4, <1>5, <1>6, <1>7, <1>8, <1>9 DEF Settings!Next

\* helpers.resolve_root_folder_id, import_lists._sync_list and the handlers that add,
\* edit and delete what a series refers to: a series arrives in a folder that exists, and
\* not through a sync when it was excluded while the provider was awaited.
THEOREM SettingsAreHonoured == Spec => SettingsHonoured
  <1>1. Init => Settings!TypeOK
    BY SettingsInit DEF Init
  <1>0. [Next]_vars => [Settings!Next]_ls_vars
    BY DEF Next, vars, CopyStep, BinStep, CatalogStep, SourcesStep, SettingsStep, MetadataStep
  <1>2. Settings!TypeOK /\ [Next]_vars => Settings!TypeOK'
    <2>1. CASE Settings!Next
      BY <2>1, SettingsNextKeeps DEF SettingsKeeps
    <2>2. CASE UNCHANGED ls_vars
      BY <2>2, SettingsTypes, SettingsFrames DEF ls_vars
    <2>q. QED
      BY <1>0, <2>1, <2>2
  <1>3. Settings!TypeOK /\ [Next]_vars =>
          [comp = "settings" => Settings!PlacedOnArrival /\ Settings!ExclusionHonoured]_ls_vars
    BY <1>0, SettingsNextKeeps DEF SettingsKeeps
  <1>q. QED
    BY <1>1, <1>2, <1>3, PTL DEF Spec, SettingsHonoured
-----------------------------------------------------------------------------
(* Metadata: who refreshes.                                                *)

FieldRow == [val : Metadata!Val, src : Metadata!Source \cup {"legacy"}, locked : BOOLEAN]
FieldTable == [Metadata!Field -> FieldRow]
CandTable == [Metadata!Field -> [Metadata!Source -> Metadata!Val]]
Result == {"healthy", "degraded", "failed"}
SourceTable == [{"anilist", "mu", "map"} ->
                  {"none", "refreshing", "healthy", "failed", "interrupted"}]
RunRow == [pc : {"idle", "anilist", "mu", "map", "edition", "rest"}, apply : BOOLEAN,
           force : BOOLEAN, res : Result, val : Metadata!Val,
           src : Metadata!Source \cup {"legacy"}]
RunTable == [Metadata!Refresher -> RunRow]

MetadataInv == Metadata!TypeOK /\ Metadata!RefreshOwned /\ sm_edits \in Nat

LEMMA MetadataTypes ==
  /\ Metadata!TypeOK <=>
       /\ sm_fld \in FieldTable /\ sm_cand \in CandTable /\ sm_run \in RunTable
       /\ sm_edition \in {"standard", "omnibus"} /\ sm_status \in Result \cup {"pending", "refreshing"}
       /\ sm_source \in SourceTable
  /\ Metadata!TypeOK' <=>
       /\ sm_fld' \in FieldTable /\ sm_cand' \in CandTable /\ sm_run' \in RunTable
       /\ sm_edition' \in {"standard", "omnibus"}
       /\ sm_status' \in Result \cup {"pending", "refreshing"}
       /\ sm_source' \in SourceTable
  BY DEF Metadata!TypeOK, FieldTable, FieldRow, CandTable, RunTable, RunRow, Result, SourceTable

\* What a step of the metadata has to show.
MetadataKeeps == MetadataInv' /\ Metadata!LockedStands

-----------------------------------------------------------------------------
(* The fields.                                                             *)

LEMMA FieldTypes ==
  ASSUME NEW t \in FieldTable, NEW f \in Metadata!Field
  PROVE  /\ t[f] \in FieldRow /\ t[f].val \in Metadata!Val /\ t[f].locked \in BOOLEAN
         /\ t[f].src \in Metadata!Source \cup {"legacy"}
  BY DEF FieldTable, FieldRow

LEMMA SelectionType ==
  ASSUME sm_fld \in FieldTable, NEW f \in Metadata!Field, NEW v \in Metadata!Val,
         NEW s \in Metadata!Source
  PROVE  /\ Metadata!_record_selection(f, v, s) \in FieldTable
         /\ \A g \in Metadata!Field \ {f} : Metadata!_record_selection(f, v, s)[g] = sm_fld[g]
  <1> DEFINE lock == s = "manual"
  <1>1. lock \in BOOLEAN
    OBVIOUS
  <1>2. Metadata!_record_selection(f, v, s) =
          [sm_fld EXCEPT ![f] = [val |-> v, src |-> s, locked |-> lock]]
    BY DEF Metadata!_record_selection
  <1> HIDE DEF lock
  <1>q. QED
    BY <1>1, <1>2 DEF FieldTable, FieldRow

LEMMA CandidatesType ==
  ASSUME sm_cand \in CandTable, NEW f \in Metadata!Field, NEW v \in Metadata!Val,
         NEW s \in Metadata!Source
  PROVE  Metadata!record_metadata_candidates(f, s, v) \in CandTable
  BY DEF Metadata!record_metadata_candidates, CandTable

\* A count that an answer of AniList leaves: the locked one, or no smaller one.
LEMMA CountedType ==
  ASSUME sm_fld \in FieldTable, NEW v \in Metadata!Val, NEW o \in Metadata!Val
  PROVE  /\ Metadata!Counted(v, o) \in FieldTable
         /\ Metadata!Counted(v, o)["map"] = sm_fld["map"]
         /\ sm_fld["count"].locked => Metadata!Counted(v, o) = sm_fld
  <1> DEFINE c == sm_fld["count"]
             val == Metadata!Larger(Metadata!Larger(c.val, v), o)
             src == IF o > Metadata!Larger(c.val, v) THEN "local"
                    ELSE IF c.val > v THEN c.src ELSE "anilist"
  <1>1. c \in FieldRow /\ c.val \in Metadata!Val /\ c.src \in Metadata!Source \cup {"legacy"}
    BY FieldTypes DEF Metadata!Field
  <1>2. val \in Metadata!Val /\ src \in Metadata!Source \cup {"legacy"}
    BY <1>1 DEF Metadata!Larger, Metadata!Source
  <1>3. Metadata!Counted(v, o) = IF c.locked \/ c.src = "books" THEN sm_fld
                              ELSE [sm_fld EXCEPT !["count"].val = val, !["count"].src = src]
    BY DEF Metadata!Counted
  <1> DEFINE row == [c EXCEPT !.val = val, !.src = src]
  <1>4. sm_fld = [f \in Metadata!Field |-> sm_fld[f]] /\ "count" \in Metadata!Field
    BY DEF FieldTable, Metadata!Field
  <1>5. [sm_fld EXCEPT !["count"].val = val, !["count"].src = src] = [sm_fld EXCEPT !["count"] = row]
    <2> HIDE DEF val, src
    <2>q. QED
      BY <1>4
  <1> HIDE DEF val, src
  <1>6. row \in FieldRow
    BY <1>1, <1>2 DEF FieldRow
  <1> HIDE DEF row
  <1>7. /\ [sm_fld EXCEPT !["count"] = row] \in FieldTable
        /\ [sm_fld EXCEPT !["count"] = row]["map"] = sm_fld["map"]
    BY <1>6 DEF FieldTable, Metadata!Field
  <1>8. CASE c.locked \/ c.src = "books"
    BY <1>3, <1>8
  <1>9. CASE ~(c.locked \/ c.src = "books")
    BY <1>3, <1>5, <1>7, <1>9
  <1>q. QED
    BY <1>8, <1>9

-----------------------------------------------------------------------------
(* The stages.                                                             *)

RunFacts(r) == /\ sm_run[r] \in RunRow /\ sm_run[r].apply \in BOOLEAN
               /\ sm_run[r].force \in BOOLEAN /\ sm_run[r].res \in Result
               /\ sm_run[r].val \in Metadata!Val
               /\ sm_run[r].src \in Metadata!Source \cup {"legacy"}

LEMMA RunTypes == ASSUME MetadataInv PROVE \A r \in Metadata!Refresher : RunFacts(r)
  BY MetadataTypes DEF MetadataInv, RunTable, RunRow, RunFacts

LEMMA IdleType ==
  /\ Metadata!Idle \in RunRow /\ Metadata!Idle.pc = "idle"
  /\ \A apply, force \in BOOLEAN :
       LET r == [Metadata!Idle EXCEPT !.pc = "anilist", !.apply = apply, !.force = force]
       IN r \in RunRow /\ r.pc = "anilist" /\ r.apply = apply
  /\ [Metadata!Idle EXCEPT !.apply = TRUE] \in RunRow
  /\ [Metadata!Idle EXCEPT !.pc = "edition", !.apply = TRUE] \in RunRow
  <1>1. /\ Metadata!Idle = [pc |-> "idle", apply |-> FALSE, force |-> FALSE, res |-> "healthy",
                            val |-> 0, src |-> "anilist"]
        /\ "healthy" \in Result /\ 0 \in Metadata!Val
        /\ "anilist" \in Metadata!Source \cup {"legacy"}
    BY DEF Metadata!Idle, Result, Metadata!Val, Metadata!Source
  <1>2. Metadata!Idle \in RunRow /\ Metadata!Idle.pc = "idle"
    BY <1>1 DEF RunRow
  <1>3. ASSUME NEW apply \in BOOLEAN, NEW force \in BOOLEAN
        PROVE  LET r == [Metadata!Idle EXCEPT !.pc = "anilist", !.apply = apply, !.force = force]
               IN r \in RunRow /\ r.pc = "anilist" /\ r.apply = apply
    BY <1>2 DEF RunRow
  <1>4. /\ [Metadata!Idle EXCEPT !.apply = TRUE] \in RunRow
        /\ [Metadata!Idle EXCEPT !.pc = "edition", !.apply = TRUE] \in RunRow
    BY <1>2 DEF RunRow
  <1>q. QED
    BY <1>2, <1>3, <1>4

LEMMA SnapshotType ==
  ASSUME NEW stage \in {"mu", "map", "edition", "rest"}, NEW f \in FieldTable, NEW r \in RunRow
  PROVE  /\ Metadata!Snapshot(stage, f, r) \in RunRow
         /\ Metadata!Snapshot(stage, f, r).pc = stage
         /\ Metadata!Snapshot(stage, f, r).apply = r.apply
  <1> DEFINE val == IF stage = "mu" THEN f["count"].val
                    ELSE IF stage = "map" THEN f["ref"].val ELSE 0
             src == IF stage = "mu" THEN f["count"].src ELSE "anilist"
  <1>1. val \in Metadata!Val
    BY FieldTypes DEF Metadata!Val, Metadata!Field
  <1>2. src \in Metadata!Source \cup {"legacy"}
    BY FieldTypes DEF Metadata!Field, Metadata!Source
  <1>3. Metadata!Snapshot(stage, f, r) = [r EXCEPT !.pc = stage, !.val = val, !.src = src]
    BY DEF Metadata!Snapshot
  <1> HIDE DEF val, src
  <1>q. QED
    BY <1>1, <1>2, <1>3 DEF RunRow

\* The first stage that is not skipped is one of them.
LEMMA StageOf ==
  ASSUME NEW S \in SUBSET (1..4), S # {}
  PROVE  Metadata!Stages[CHOOSE j \in S : \A k \in S : j <= k] \in {"mu", "map", "edition", "rest"}
  <1>1. S \in SUBSET Nat
    OBVIOUS
  <1>2. Settings!Lowest(S) \in S
    BY <1>1, LowestIn
  <1>3. Settings!Lowest(S) = CHOOSE j \in S : \A k \in S : j <= k
    BY DEF Settings!Lowest
  <1> DEFINE j == CHOOSE j \in S : \A k \in S : j <= k
  <1>4. j \in 1..4
    BY <1>2, <1>3
  <1> HIDE DEF j
  <1>5. Metadata!Stages[j] \in {"mu", "map", "edition", "rest"}
    BY <1>4 DEF Metadata!Stages
  <1>q. QED
    BY <1>5 DEF j

\* An answer is entered and the refresher goes on: what it was waiting for is not
\* refreshing any more, and the next stage is.
LEMMA ContinuesStep ==
  ASSUME MetadataInv, NEW r \in Metadata!Refresher, NEW f \in FieldTable, NEW res \in Result,
         NEW src \in SourceTable, Metadata!Continues(r, f, res, src),
         \A s \in {"anilist", "mu"} :
           src[s] = "refreshing" => r = "direct" /\ sm_source[s] = "refreshing"
  PROVE  /\ sm_run' \in RunTable /\ sm_source' \in SourceTable
         /\ sm_status' \in Result \cup {"pending", "refreshing"} /\ Metadata!RefreshOwned'
  <1> DEFINE me == [sm_run[r] EXCEPT !.res = res]
  <1>0. /\ sm_run \in RunTable /\ sm_source \in SourceTable
        /\ sm_status \in Result \cup {"pending", "refreshing"}
        /\ Metadata!RefreshOwned
        /\ "full" \in Metadata!Refresher /\ "direct" \in Metadata!Refresher
    BY MetadataTypes DEF MetadataInv, Metadata!Refresher
  <1>1. me \in RunRow /\ me.res = res /\ me.apply = sm_run[r].apply /\ me.pc = sm_run[r].pc
    BY <1>0, RunTypes DEF RunFacts, RunRow
  <1>2. CASE r = "direct"
    <2>1. /\ sm_run' = [sm_run EXCEPT !["direct"] = Metadata!Idle] /\ sm_source' = src
          /\ sm_status' = sm_status
      BY <1>2 DEF Metadata!Continues
    <2>2. sm_run' \in RunTable /\ sm_run'["full"] = sm_run["full"]
      BY <1>0, <2>1, IdleType DEF RunTable
    <2>q. QED
      BY <1>0, <2>1, <2>2 DEF Metadata!RefreshOwned
  <1>3. CASE r # "direct"
    <2>0. r = "full"
      BY <1>3 DEF Metadata!Refresher
    <2>1. PICK due \in Metadata!source_retry_due :
            LET next == {j \in Metadata!Following(me.pc) :
                           Metadata!Enters(Metadata!Stages[j], f, me, due)}
                stage == Metadata!Stages[CHOOSE j \in next : \A k \in next : j <= k]
                skip == me.pc = "anilist" /\ Metadata!Protected(f, me)
                src1 == IF skip THEN [src EXCEPT !["mu"] = "healthy"] ELSE src
            IN IF next = {}
               THEN /\ sm_run' = [sm_run EXCEPT ![r] = Metadata!Idle] /\ sm_source' = src1
                    /\ sm_status' = Metadata!finish_series_refresh(me)
                    /\ sm_known' = (sm_known \/ (me.apply /\ me.res # "failed"))
               ELSE /\ sm_run' = [sm_run EXCEPT ![r] = Metadata!Snapshot(stage, f, me)]
                    /\ sm_source' = IF stage \in {"mu", "map"}
                                    THEN [src1 EXCEPT ![stage] = "refreshing"] ELSE src1
                    /\ UNCHANGED <<sm_status, sm_known>>
      BY <1>3 DEF Metadata!Continues
    <2> DEFINE next == {j \in Metadata!Following(me.pc) :
                          Metadata!Enters(Metadata!Stages[j], f, me, due)}
               stage == Metadata!Stages[CHOOSE j \in next : \A k \in next : j <= k]
               skip == me.pc = "anilist" /\ Metadata!Protected(f, me)
               src1 == IF skip THEN [src EXCEPT !["mu"] = "healthy"] ELSE src
    <2>2. /\ next = {} => /\ sm_run' = [sm_run EXCEPT !["full"] = Metadata!Idle]
                          /\ sm_source' = src1
                          /\ sm_status' = Metadata!finish_series_refresh(me)
          /\ next # {} => /\ sm_run' = [sm_run EXCEPT !["full"] = Metadata!Snapshot(stage, f, me)]
                          /\ sm_source' = IF stage \in {"mu", "map"}
                                          THEN [src1 EXCEPT ![stage] = "refreshing"] ELSE src1
                          /\ sm_status' = sm_status
      BY <2>0, <2>1
    <2>3. next \in SUBSET (1..4)
      BY DEF Metadata!Following
    <2>4. next # {} => stage \in {"mu", "map", "edition", "rest"}
      <3> HIDE DEF next
      <3>q. QED
        BY <2>3, StageOf
    <2>5. src1 \in SourceTable /\ src1["anilist"] # "refreshing" /\ src1["mu"] # "refreshing"
      <3> HIDE DEF skip
      <3>1. src1 = src \/ src1 = [src EXCEPT !["mu"] = "healthy"]
        OBVIOUS
      <3> HIDE DEF src1
      <3>2. src["anilist"] # "refreshing" /\ src["mu"] # "refreshing"
        BY <1>3
      <3>q. QED
        BY <3>1, <3>2 DEF SourceTable
    <2> HIDE DEF me, next, stage, src1
    <2>6. CASE next = {}
      <3>1. sm_run' \in RunTable /\ sm_run'["full"] = Metadata!Idle
        BY <1>0, <2>2, <2>6, IdleType DEF RunTable
      <3>2. sm_status' = IF sm_run["full"].apply THEN res ELSE sm_status
        BY <1>1, <2>0, <2>2, <2>6 DEF Metadata!finish_series_refresh
      <3>3. sm_status' # "refreshing" /\ sm_status' \in Result \cup {"pending", "refreshing"}
        BY <1>0, <3>2 DEF Metadata!RefreshOwned, Result
      <3>q. QED
        BY <2>2, <2>5, <2>6, <3>1, <3>3 DEF Metadata!RefreshOwned
    <2>7. CASE next # {}
      <3>1. /\ Metadata!Snapshot(stage, f, me) \in RunRow
            /\ Metadata!Snapshot(stage, f, me).pc = stage
            /\ Metadata!Snapshot(stage, f, me).apply = me.apply
        BY <1>1, <2>4, <2>7, SnapshotType
      <3>2. /\ sm_run' \in RunTable /\ sm_run'["full"].pc = stage
            /\ sm_run'["full"].apply = sm_run["full"].apply
        BY <1>0, <1>1, <2>0, <2>2, <2>7, <3>1 DEF RunTable
      <3>3. /\ sm_source' \in SourceTable /\ sm_source'["anilist"] # "refreshing"
            /\ sm_source'["mu"] = "refreshing" => stage = "mu"
        BY <2>2, <2>4, <2>5, <2>7 DEF SourceTable
      <3>q. QED
        BY <1>0, <2>2, <2>4, <2>7, <3>2, <3>3 DEF Metadata!RefreshOwned
    <2>q. QED
      BY <2>6, <2>7
  <1>q. QED
    BY <1>2, <1>3

\* An answer that writes the fields t.
LEMMA AnswerStep ==
  ASSUME MetadataInv, NEW r \in Metadata!Refresher, NEW t \in FieldTable, NEW res \in Result,
         NEW src \in SourceTable, Metadata!Continues(r, t, res, src),
         \A s \in {"anilist", "mu"} :
           src[s] = "refreshing" => r = "direct" /\ sm_source[s] = "refreshing",
         sm_fld' = t, sm_cand' \in CandTable, UNCHANGED <<sm_edition, sm_edits>>,
         \A f \in {"count", "map"} : sm_fld[f].locked => t[f] = sm_fld[f]
  PROVE  MetadataKeeps
  <1>1. /\ sm_run' \in RunTable /\ sm_source' \in SourceTable
        /\ sm_status' \in Result \cup {"pending", "refreshing"} /\ Metadata!RefreshOwned'
    BY ContinuesStep
  <1>2. Metadata!TypeOK' /\ sm_edits' \in Nat
    BY <1>1, MetadataTypes DEF MetadataInv
  <1>q. QED
    BY <1>1, <1>2 DEF MetadataKeeps, MetadataInv, Metadata!LockedStands

-----------------------------------------------------------------------------
(* The answers of the providers.                                           *)

LEMMA NotWaiting ==
  ASSUME MetadataInv, NEW stage, sm_run["full"].pc = stage
  PROVE  /\ stage # "anilist" => sm_source["anilist"] # "refreshing"
         /\ stage # "mu" => sm_source["mu"] # "refreshing"
  BY DEF MetadataInv, Metadata!RefreshOwned

LEMMA MarkedType ==
  ASSUME sm_source \in SourceTable, NEW s \in {"anilist", "mu", "map"}
  PROVE  \A src \in {Metadata!mark_source_success(s), Metadata!mark_source_failure(s)} :
           /\ src \in SourceTable /\ src[s] # "refreshing"
           /\ \A u \in {"anilist", "mu", "map"} \ {s} : src[u] = sm_source[u]
  BY DEF Metadata!mark_source_success, Metadata!mark_source_failure, SourceTable

LEMMA ObservedType ==
  ASSUME NEW c \in CandTable, NEW o \in Metadata!Val
  PROVE  Metadata!Observed(c, o) \in CandTable
  <1> DEFINE row == [c["count"] EXCEPT !["local"] = o]
  <1>1. row \in [Metadata!Source -> Metadata!Val]
    BY DEF CandTable, Metadata!Field
  <1>2. Metadata!Observed(c, o) = IF o = 0 THEN c ELSE [c EXCEPT !["count"] = row]
    BY DEF Metadata!Observed
  <1> HIDE DEF row
  <1>q. QED
    BY <1>1, <1>2 DEF CandTable

LEMMA AnilistStep ==
  ASSUME MetadataInv, NEW v \in Metadata!Val, NEW o \in Metadata!Val,
         Metadata!_apply_anilist_record(v, o)
  PROVE  MetadataKeeps
  <1> DEFINE t == IF v # 0 /\ sm_run["full"].apply THEN Metadata!Counted(v, o) ELSE sm_fld
             res == IF v = 0 THEN "failed" ELSE "healthy"
             src == IF v = 0 THEN Metadata!mark_source_failure("anilist")
                    ELSE Metadata!mark_source_success("anilist")
  <1>0. sm_fld \in FieldTable /\ sm_cand \in CandTable /\ sm_source \in SourceTable
    BY MetadataTypes DEF MetadataInv
  <1>1. /\ sm_run["full"].pc = "anilist" /\ sm_fld' = t
        /\ Metadata!Continues("full", t, res, src)
        /\ sm_cand' = Metadata!Observed(Metadata!record_metadata_candidates("count", "anilist", v), o)
        /\ UNCHANGED <<sm_edition, sm_edits>>
    BY DEF Metadata!_apply_anilist_record, Metadata!Bounds
  <1>2. t \in FieldTable /\ \A f \in {"count", "map"} : sm_fld[f].locked => t[f] = sm_fld[f]
    BY <1>0, CountedType
  <1>3. res \in Result /\ sm_cand' \in CandTable /\ "full" \in Metadata!Refresher
    <2>1. "count" \in Metadata!Field /\ "anilist" \in Metadata!Source
      BY DEF Metadata!Field, Metadata!Source
    <2>2. Metadata!record_metadata_candidates("count", "anilist", v) \in CandTable
      BY <1>0, <2>1, CandidatesType
    <2>3. sm_cand' \in CandTable
      BY <1>1, <2>2, ObservedType
    <2>q. QED
      BY <2>3 DEF Result, Metadata!Refresher
  <1>4. src \in SourceTable /\ \A s \in {"anilist", "mu"} : src[s] # "refreshing"
    BY <1>0, <1>1, MarkedType, NotWaiting
  <1> HIDE DEF t, res, src
  <1>q. QED
    BY <1>1, <1>2, <1>3, <1>4, AnswerStep

LEMMA WarnedType ==
  ASSUME MetadataInv, NEW r \in Metadata!Refresher
  PROVE  Metadata!Warned(r) \in Result /\ sm_run[r].res \in Result
  BY RunTypes DEF RunFacts, Metadata!Warned, Result

LEMMA MangaUpdatesStep ==
  ASSUME MetadataInv, NEW v \in {0, 2}, NEW ok \in BOOLEAN, Metadata!fetch_mu_metadata(v, ok)
  PROVE  MetadataKeeps
  <1> DEFINE t == IF Metadata!MayRaise(v) THEN Metadata!_record_selection("count", v, "mangaupdates")
                  ELSE sm_fld
             res == IF ok THEN sm_run["full"].res ELSE Metadata!Warned("full")
             src == IF ok THEN Metadata!mark_source_success("mu")
                    ELSE Metadata!mark_source_failure("mu")
  <1>0. /\ sm_fld \in FieldTable /\ sm_cand \in CandTable /\ sm_source \in SourceTable
        /\ v \in Metadata!Val /\ "count" \in Metadata!Field /\ "map" \in Metadata!Field
        /\ "mangaupdates" \in Metadata!Source /\ "full" \in Metadata!Refresher
    BY MetadataTypes DEF MetadataInv, Metadata!Val, Metadata!Field, Metadata!Source,
       Metadata!Refresher
  <1>1. /\ sm_run["full"].pc = "mu" /\ sm_fld' = t
        /\ Metadata!Continues("full", t, res, src)
        /\ sm_cand' = Metadata!record_metadata_candidates("count", "mangaupdates", v)
        /\ UNCHANGED <<sm_edition, sm_edits>>
    BY DEF Metadata!fetch_mu_metadata, Metadata!Bounds
  <1>2. t \in FieldTable /\ \A f \in {"count", "map"} : sm_fld[f].locked => t[f] = sm_fld[f]
    <2>1. CASE Metadata!MayRaise(v)
      <3>1. ~sm_fld["count"].locked
        BY <2>1 DEF Metadata!MayRaise
      <3>q. QED
        BY <1>0, <2>1, <3>1, SelectionType
    <2>2. CASE ~Metadata!MayRaise(v)
      BY <1>0, <2>2
    <2>q. QED
      BY <2>1, <2>2
  <1>3. res \in Result /\ sm_cand' \in CandTable
    BY <1>0, <1>1, CandidatesType, WarnedType
  <1>4. src \in SourceTable /\ \A s \in {"anilist", "mu"} : src[s] # "refreshing"
    BY <1>0, <1>1, MarkedType, NotWaiting
  <1> HIDE DEF t, res, src
  <1>q. QED
    BY <1>0, <1>1, <1>2, <1>3, <1>4, AnswerStep

LEMMA MapAnswerStep ==
  ASSUME MetadataInv, NEW r \in Metadata!Refresher, NEW id \in 0..1, NEW fresh \in BOOLEAN,
         NEW o \in Metadata!MapOutcomes, Metadata!refresh_mangadex_map(r, id, fresh, o)
  PROVE  MetadataKeeps
  <1> DEFINE got == Metadata!_resolved(r, id)
             s == IF got = 0 THEN "none" ELSE o.src
             ref == Metadata!SelectedRef(r, got, fresh)
             map == Metadata!SelectedMap(s)
             t == IF sm_run[r].apply /\ got # 0
                  THEN [sm_fld EXCEPT !["ref"] = ref, !["map"] = map] ELSE sm_fld
             bad == got = 0 \/ (s = "none" /\ o.failed)
             res == IF s = "none" THEN Metadata!Warned(r) ELSE sm_run[r].res
             src == IF bad THEN Metadata!mark_source_failure("map")
                    ELSE Metadata!mark_source_success("map")
  <1>0. /\ sm_fld \in FieldTable /\ sm_cand \in CandTable /\ sm_source \in SourceTable
        /\ "ref" \in Metadata!Field /\ "map" \in Metadata!Field /\ "count" \in Metadata!Field
        /\ "mangadex" \in Metadata!Source /\ "fallback" \in Metadata!Source
        /\ 1 \in Metadata!Val
    BY MetadataTypes DEF MetadataInv, Metadata!Val, Metadata!Field, Metadata!Source
  <1>1. /\ sm_run[r].pc = "map" /\ sm_fld' = t /\ Metadata!Continues(r, t, res, src)
        /\ sm_cand' = [sm_cand EXCEPT
                         !["ref"]["mangadex"] = IF got # 0 /\ fresh THEN got ELSE @,
                         !["map"] = [u \in Metadata!Source |-> IF u = s THEN 1 ELSE @[u]]]
        /\ UNCHANGED <<sm_edition, sm_edits>>
    BY DEF Metadata!refresh_mangadex_map, Metadata!Bounds
  <1>2. got \in Metadata!Val
    BY RunTypes DEF RunFacts, Metadata!_resolved, Metadata!Val
  <1>3. s \in {"none", "mangadex", "fallback"}
    BY DEF Metadata!MapOutcomes, Metadata!usable_map
  <1>4. sm_cand' \in CandTable
    <2> HIDE DEF got, s
    <2>q. QED
      BY <1>0, <1>1, <1>2 DEF CandTable
  <1>5. ref \in FieldRow
    <2> HIDE DEF got
    <2>1. sm_run[r].val \in Metadata!Val
      BY RunTypes DEF RunFacts
    <2>2. sm_fld["ref"] \in FieldRow
      BY <1>0, FieldTypes
    <2>q. QED
      BY <1>0, <1>2, <2>1, <2>2 DEF Metadata!SelectedRef, FieldRow
  <1>6. map \in FieldRow /\ (sm_fld["map"].locked => map = sm_fld["map"])
    <2> HIDE DEF s
    <2>1. sm_fld["map"] \in FieldRow
      BY <1>0, FieldTypes
    <2>q. QED
      BY <1>0, <1>3, <2>1 DEF Metadata!SelectedMap, FieldRow
  <1>7. t \in FieldTable /\ \A f \in {"count", "map"} : sm_fld[f].locked => t[f] = sm_fld[f]
    <2> HIDE DEF got, ref, map
    <2>q. QED
      BY <1>0, <1>5, <1>6 DEF FieldTable
  <1>8. res \in Result
    BY WarnedType
  <1>9. /\ src \in SourceTable
        /\ \A u \in {"anilist", "mu"} : src[u] = "refreshing" =>
             r = "direct" /\ sm_source[u] = "refreshing"
    <2> HIDE DEF bad
    <2>1. src \in SourceTable /\ src["anilist"] = sm_source["anilist"] /\ src["mu"] = sm_source["mu"]
      BY <1>0, MarkedType
    <2> HIDE DEF src
    <2>2. r = "full" => sm_source["anilist"] # "refreshing" /\ sm_source["mu"] # "refreshing"
      BY <1>1, NotWaiting
    <2>3. r = "full" \/ r = "direct"
      BY DEF Metadata!Refresher
    <2>q. QED
      BY <2>1, <2>2, <2>3
  <1> HIDE DEF t, res, src
  <1>q. QED
    BY <1>1, <1>4, <1>7, <1>8, <1>9, AnswerStep

\* An answer that marks no source.
LEMMA UnmarkedSource ==
  ASSUME MetadataInv, NEW r \in Metadata!Refresher, sm_run[r].pc \in {"edition", "rest"}
  PROVE  /\ sm_source \in SourceTable
         /\ \A s \in {"anilist", "mu"} : sm_source[s] = "refreshing" =>
              r = "direct" /\ sm_source[s] = "refreshing"
  <1>1. r = "full" \/ r = "direct"
    BY DEF Metadata!Refresher
  <1>2. sm_source \in SourceTable
    BY MetadataTypes DEF MetadataInv
  <1>q. QED
    BY <1>1, <1>2, NotWaiting

LEMMA EditionStep ==
  ASSUME MetadataInv, NEW r \in Metadata!Refresher, NEW v \in {0, 1},
         Metadata!fetch_edition_volume_count(r, v)
  PROVE  MetadataKeeps
  <1> DEFINE t == IF v # 0 /\ sm_run[r].apply /\ ~sm_fld["count"].locked
                  THEN Metadata!_record_selection("count", v, "books") ELSE sm_fld
  <1>0. /\ sm_fld \in FieldTable /\ sm_cand \in CandTable
        /\ v \in Metadata!Val /\ "count" \in Metadata!Field /\ "map" \in Metadata!Field
        /\ "books" \in Metadata!Source
    BY MetadataTypes DEF MetadataInv, Metadata!Val, Metadata!Field, Metadata!Source
  <1>1. /\ sm_run[r].pc = "edition" /\ sm_fld' = t
        /\ sm_cand' = Metadata!record_metadata_candidates("count", "books", v)
        /\ UNCHANGED <<sm_edition, sm_edits>>
    BY DEF Metadata!fetch_edition_volume_count, Metadata!Bounds
  <1>2. PICK res \in {sm_run[r].res, Metadata!Warned(r)} : Metadata!Continues(r, t, res, sm_source)
    BY DEF Metadata!fetch_edition_volume_count
  <1>3. res \in Result /\ sm_cand' \in CandTable
    BY <1>0, <1>1, WarnedType, CandidatesType
  <1>4. t \in FieldTable /\ \A f \in {"count", "map"} : sm_fld[f].locked => t[f] = sm_fld[f]
    <2>1. CASE v # 0 /\ sm_run[r].apply /\ ~sm_fld["count"].locked
      BY <1>0, <2>1, SelectionType
    <2>2. CASE ~(v # 0 /\ sm_run[r].apply /\ ~sm_fld["count"].locked)
      <3>1. t = sm_fld
        BY <2>2
      <3>q. QED
        BY <1>0, <3>1
    <2>q. QED
      BY <2>1, <2>2
  <1> HIDE DEF t
  <1>q. QED
    BY <1>1, <1>2, <1>3, <1>4, UnmarkedSource, AnswerStep

LEMMA CoverStep ==
  ASSUME MetadataInv, Metadata!refresh_series_cover
  PROVE  MetadataKeeps
  <1>1. /\ sm_run["full"].pc = "rest" /\ UNCHANGED <<sm_fld, sm_cand, sm_edition, sm_edits>>
    BY DEF Metadata!refresh_series_cover, Metadata!Bounds
  <1>2. PICK res \in {sm_run["full"].res, Metadata!Warned("full")} :
          Metadata!Continues("full", sm_fld, res, sm_source)
    BY DEF Metadata!refresh_series_cover
  <1>3. "full" \in Metadata!Refresher
    BY DEF Metadata!Refresher
  <1>4. res \in Result /\ sm_cand' \in CandTable /\ sm_fld \in FieldTable
    BY <1>1, <1>3, WarnedType, MetadataTypes DEF MetadataInv
  <1>q. QED
    BY <1>1, <1>2, <1>3, <1>4, UnmarkedSource, AnswerStep

-----------------------------------------------------------------------------
(* Refreshes begin, the user edits, the process restarts.                  *)

LEMMA StartSteps ==
  ASSUME MetadataInv,
         \/ \E apply, force \in BOOLEAN : Metadata!refresh_series_metadata(apply, force)
         \/ Metadata!refresh_series_mangadex \/ Metadata!refresh_edition_metadata
  PROVE  MetadataKeeps
  <1>0. /\ sm_fld \in FieldTable /\ sm_cand \in CandTable /\ sm_source \in SourceTable
        /\ sm_run \in RunTable /\ sm_status \in Result \cup {"pending", "refreshing"}
        /\ sm_edition \in {"standard", "omnibus"} /\ sm_edits \in Nat /\ Metadata!RefreshOwned
    BY MetadataTypes DEF MetadataInv
  <1>1. UNCHANGED <<sm_fld, sm_cand, sm_edition, sm_edits>>
    BY DEF Metadata!refresh_series_metadata, Metadata!refresh_series_mangadex,
       Metadata!refresh_edition_metadata
  <1>2. ASSUME sm_run' \in RunTable, sm_source' \in SourceTable,
               sm_status' \in Result \cup {"pending", "refreshing"}, Metadata!RefreshOwned'
        PROVE  MetadataKeeps
    <2>1. Metadata!TypeOK'
      BY <1>0, <1>1, <1>2, MetadataTypes
    <2>q. QED
      BY <1>0, <1>1, <1>2, <2>1 DEF MetadataKeeps, MetadataInv, Metadata!LockedStands
  <1>3. ASSUME NEW apply \in BOOLEAN, NEW force \in BOOLEAN,
               Metadata!refresh_series_metadata(apply, force)
        PROVE  MetadataKeeps
    <2> DEFINE row == [Metadata!Idle EXCEPT !.pc = "anilist", !.apply = apply, !.force = force]
    <2>1. /\ sm_run["full"].pc = "idle" /\ sm_run' = [sm_run EXCEPT !["full"] = row]
          /\ sm_status' = (IF apply THEN "refreshing" ELSE sm_status)
          /\ sm_source' = [sm_source EXCEPT !["anilist"] = "refreshing"]
      BY <1>3 DEF Metadata!refresh_series_metadata, Metadata!Starts
    <2>2. row \in RunRow /\ row.pc = "anilist" /\ row.apply = apply
      BY IdleType
    <2> HIDE DEF row
    <2>3. sm_run' \in RunTable /\ sm_run'["full"] = row
      BY <1>0, <2>1, <2>2 DEF RunTable, Metadata!Refresher
    <2>4. /\ sm_source' \in SourceTable /\ sm_source'["mu"] = sm_source["mu"]
          /\ sm_status' \in Result \cup {"pending", "refreshing"}
      BY <1>0, <2>1 DEF SourceTable
    <2>5. Metadata!RefreshOwned'
      BY <1>0, <2>1, <2>2, <2>3, <2>4 DEF Metadata!RefreshOwned
    <2>q. QED
      BY <1>2, <2>3, <2>4, <2>5
  <1>4. CASE Metadata!refresh_series_mangadex \/ Metadata!refresh_edition_metadata
    <2>1. /\ \/ sm_run' = [sm_run EXCEPT !["direct"] =
                             Metadata!Snapshot("map", sm_fld, [Metadata!Idle EXCEPT !.apply = TRUE])]
             \/ sm_run' = [sm_run EXCEPT !["direct"] =
                             [Metadata!Idle EXCEPT !.pc = "edition", !.apply = TRUE]]
          /\ sm_source' = sm_source \/ sm_source' = [sm_source EXCEPT !["map"] = "refreshing"]
          /\ sm_status' = sm_status
      BY <1>4 DEF Metadata!refresh_series_mangadex, Metadata!refresh_edition_metadata
    <2>2. /\ Metadata!Snapshot("map", sm_fld, [Metadata!Idle EXCEPT !.apply = TRUE]) \in RunRow
          /\ [Metadata!Idle EXCEPT !.pc = "edition", !.apply = TRUE] \in RunRow
      BY <1>0, IdleType, SnapshotType
    <2>3. sm_run' \in RunTable /\ sm_run'["full"] = sm_run["full"]
      BY <1>0, <2>1, <2>2 DEF RunTable, Metadata!Refresher
    <2>4. /\ sm_source' \in SourceTable /\ sm_source'["mu"] = sm_source["mu"]
          /\ sm_source'["anilist"] = sm_source["anilist"]
      BY <1>0, <2>1 DEF SourceTable
    <2>5. Metadata!RefreshOwned'
      BY <1>0, <2>1, <2>3, <2>4 DEF Metadata!RefreshOwned
    <2>q. QED
      BY <1>0, <1>2, <2>1, <2>3, <2>4, <2>5
  <1>q. QED
    BY <1>3, <1>4

\* Nothing observed counts as no value.
LEMMA EmptyCount == Metadata!Cardinality({}) = 0
  <1>1. Metadata!Cardinality({}) = Cardinality({})
    BY Zenon DEF Metadata!Cardinality, Cardinality
  <1>q. QED
    BY <1>1, FS_EmptySet

\* What apply_recommended_candidates selects was observed.
LEMMA SafeType ==
  ASSUME sm_fld \in FieldTable, sm_cand \in CandTable, NEW f \in Metadata!Field
  PROVE  Metadata!_apply_safe_metadata_candidate(f) \in FieldRow
  <1> DEFINE c == {i \in 1..6 : sm_cand[f][Metadata!_priority[i]] # 0}
             seen == {sm_cand[f][Metadata!_priority[i]] : i \in c}
             first == CHOOSE i \in c : \A j \in c : i <= j
             top == Metadata!_priority[first]
             new == [val |-> sm_cand[f][top], src |-> top, locked |-> FALSE]
  <1>1. sm_fld[f] \in FieldRow
    BY FieldTypes
  <1>2. Metadata!_apply_safe_metadata_candidate(f) =
          IF sm_fld[f].locked \/ Metadata!Cardinality(seen) # 1
             \/ (f = "count" /\ sm_cand[f][top] < sm_fld[f].val)
          THEN sm_fld[f] ELSE new
    BY Zenon DEF Metadata!_apply_safe_metadata_candidate
  <1>3. ASSUME Metadata!Cardinality(seen) = 1 PROVE new \in FieldRow
    <2>1. c # {}
      <3>1. c = {} => seen = {}
        OBVIOUS
      <3> HIDE DEF seen
      <3>q. QED
        BY <1>3, <3>1, EmptyCount
    <2>2. c \in SUBSET Nat /\ c \in SUBSET (1..6)
      OBVIOUS
    <2> HIDE DEF c
    <2>3. Settings!Lowest(c) \in c
      BY <2>1, <2>2, LowestIn
    <2>4. Settings!Lowest(c) = first
      BY DEF Settings!Lowest
    <2>5. first \in 1..6
      BY <2>2, <2>3, <2>4
    <2> HIDE DEF first
    <2>6. top \in Metadata!Source
      BY <2>5 DEF Metadata!_priority, Metadata!Source
    <2> HIDE DEF top
    <2>7. sm_cand[f][top] \in Metadata!Val
      BY <2>6 DEF CandTable
    <2>q. QED
      BY <2>6, <2>7 DEF FieldRow
  <1> HIDE DEF seen, top, new
  <1>4. CASE Metadata!Cardinality(seen) = 1
    BY <1>1, <1>2, <1>3, <1>4
  <1>5. CASE Metadata!Cardinality(seen) # 1
    BY <1>1, <1>2, <1>5
  <1>q. QED
    BY <1>4, <1>5

LEMMA UserSteps ==
  ASSUME MetadataInv, Metadata!User
  PROVE  MetadataKeeps
  <1>0. /\ sm_fld \in FieldTable /\ sm_cand \in CandTable /\ sm_source \in SourceTable
        /\ sm_run \in RunTable /\ sm_status \in Result \cup {"pending", "refreshing"}
        /\ sm_edition \in {"standard", "omnibus"} /\ sm_edits \in Nat /\ Metadata!RefreshOwned
        /\ "manual" \in Metadata!Source /\ "anilist" \in Metadata!Source
        /\ {"count", "map"} \subseteq Metadata!Field /\ 0 \in Metadata!Val
        /\ 1..2 \subseteq Metadata!Val
    BY MetadataTypes DEF MetadataInv, Metadata!Source, Metadata!Field, Metadata!Val
  <1>1. Metadata!UserStep
    BY DEF Metadata!User, Metadata!record_manual_metadata, Metadata!cleared_counts,
       Metadata!set_metadata_field_lock, Metadata!apply_metadata_candidate,
       Metadata!apply_recommended_candidates
  <1>2. /\ sm_edits' = sm_edits + 1
        /\ UNCHANGED <<sm_edition, sm_status, sm_source, sm_run>>
    BY <1>1 DEF Metadata!UserStep
  <1>3. sm_fld' \in FieldTable /\ sm_cand' \in CandTable
    <2>1. ASSUME NEW f \in {"count", "map"}, NEW v \in 1..2,
                 Metadata!record_manual_metadata(f, v)
          PROVE  sm_fld' \in FieldTable /\ sm_cand' \in CandTable
      BY <1>0, <2>1, SelectionType, CandidatesType DEF Metadata!record_manual_metadata
    <2>2. CASE Metadata!cleared_counts
      BY <1>0, <2>2, SelectionType DEF Metadata!cleared_counts
    <2>3. ASSUME NEW f \in Metadata!Field, NEW b \in BOOLEAN,
                 Metadata!set_metadata_field_lock(f, b)
          PROVE  sm_fld' \in FieldTable /\ sm_cand' \in CandTable
      BY <1>0, <2>3 DEF Metadata!set_metadata_field_lock, FieldTable, FieldRow
    <2>4. ASSUME NEW f \in Metadata!Field, NEW s \in Metadata!Source, NEW allow \in BOOLEAN,
                 Metadata!apply_metadata_candidate(f, s, allow)
          PROVE  sm_fld' \in FieldTable /\ sm_cand' \in CandTable
      <3>1. /\ sm_fld' = [sm_fld EXCEPT ![f] = [val |-> sm_cand[f][s], src |-> s,
                                                locked |-> FALSE]]
            /\ sm_cand' = sm_cand
        BY <2>4 DEF Metadata!apply_metadata_candidate
      <3>2. sm_cand[f][s] \in Metadata!Val
        BY <1>0 DEF CandTable
      <3>q. QED
        BY <1>0, <3>1, <3>2 DEF FieldTable, FieldRow
    <2>5. CASE Metadata!apply_recommended_candidates
      <3>1. /\ sm_fld' = [f \in Metadata!Field |-> Metadata!_apply_safe_metadata_candidate(f)]
            /\ sm_cand' = sm_cand
        BY <2>5 DEF Metadata!apply_recommended_candidates
      <3>2. \A f \in Metadata!Field : Metadata!_apply_safe_metadata_candidate(f) \in FieldRow
        BY <1>0, SafeType
      <3>q. QED
        BY <1>0, <3>1, <3>2 DEF FieldTable
    <2>q. QED
      BY <2>1, <2>2, <2>3, <2>4, <2>5 DEF Metadata!User
  <1>4. Metadata!TypeOK'
    BY <1>0, <1>2, <1>3, MetadataTypes
  <1>5. Metadata!RefreshOwned' /\ sm_edits' \in Nat /\ sm_edits' # sm_edits
    BY <1>0, <1>2 DEF Metadata!RefreshOwned
  <1>q. QED
    BY <1>4, <1>5 DEF MetadataKeeps, MetadataInv, Metadata!LockedStands

LEMMA RestartStep ==
  ASSUME MetadataInv, Metadata!restart
  PROVE  MetadataKeeps
  <1>0. /\ sm_fld \in FieldTable /\ sm_cand \in CandTable /\ sm_source \in SourceTable
        /\ sm_run \in RunTable /\ sm_status \in Result \cup {"pending", "refreshing"}
        /\ sm_edition \in {"standard", "omnibus"} /\ sm_edits \in Nat
    BY MetadataTypes DEF MetadataInv
  <1>1. /\ sm_run' = [r \in Metadata!Refresher |-> Metadata!Idle]
        /\ sm_status' = Metadata!Repaired(sm_status)
        /\ sm_source' = [s \in DOMAIN sm_source |-> Metadata!Interrupted(sm_source[s])]
        /\ UNCHANGED <<sm_fld, sm_cand, sm_edition, sm_edits>>
    BY DEF Metadata!restart
  <1>2. sm_run' \in RunTable
    BY <1>1, IdleType DEF RunTable
  <1>3. sm_status' \in Result \cup {"pending", "refreshing"} /\ sm_status' # "refreshing"
    BY <1>0, <1>1 DEF Metadata!Repaired, Result
  <1>4. /\ sm_source' \in SourceTable
        /\ \A s \in {"anilist", "mu"} : sm_source'[s] # "refreshing"
    BY <1>0, <1>1 DEF Metadata!Interrupted, SourceTable
  <1>5. Metadata!TypeOK' /\ Metadata!RefreshOwned'
    BY <1>0, <1>1, <1>2, <1>3, <1>4, MetadataTypes DEF Metadata!RefreshOwned
  <1>q. QED
    BY <1>0, <1>1, <1>5 DEF MetadataKeeps, MetadataInv, Metadata!LockedStands

LEMMA MetadataInit == ASSUME Metadata!Init, sm_edits = 0 PROVE MetadataInv
  <1>1. sm_fld \in FieldTable /\ sm_cand \in CandTable
    BY DEF Metadata!Init, FieldTable, FieldRow, CandTable, Metadata!Val
  <1>2. sm_run \in RunTable /\ sm_source \in SourceTable
    BY IdleType DEF Metadata!Init, RunTable, SourceTable
  <1>3. sm_edition \in {"standard", "omnibus"} /\ sm_status = "pending"
    BY DEF Metadata!Init
  <1>4. Metadata!RefreshOwned
    BY <1>3 DEF Metadata!Init, Metadata!RefreshOwned
  <1>q. QED
    BY <1>1, <1>2, <1>3, <1>4, MetadataTypes DEF MetadataInv

LEMMA MetadataNextKeeps == ASSUME MetadataInv, Metadata!Next PROVE MetadataKeeps
  <1>1. CASE Metadata!Answers
    <2>1. ASSUME NEW a \in {<<0, 0>>, <<1, 0>>, <<2, 0>>, <<1, 2>>},
                 Metadata!_apply_anilist_record(a[1], a[2])
          PROVE  MetadataKeeps
      <3>1. a[1] \in Metadata!Val /\ a[2] \in Metadata!Val
        BY DEF Metadata!Val
      <3>q. QED
        BY <2>1, <3>1, AnilistStep
    <2>q. QED
      BY <1>1, <2>1, MangaUpdatesStep, MapAnswerStep, EditionStep, CoverStep
         DEF Metadata!Answers
  <1>2. CASE \/ \E apply, force \in BOOLEAN : Metadata!refresh_series_metadata(apply, force)
             \/ Metadata!refresh_series_mangadex \/ Metadata!refresh_edition_metadata
    BY <1>2, StartSteps
  <1>q. QED
    BY <1>1, <1>2, UserSteps, RestartStep DEF Metadata!Next

\* metadata_enrichment, metadata_provenance and metadata_state: whatever a provider answers
\* and however long it was awaited, a locked count or map keeps its value, and nothing
\* stays in the middle of a refresh that does not run.
THEOREM MetadataIsHonoured == Spec => MetadataHonoured
  <1>1. Init => MetadataInv
    <2>1. Init => Metadata!Init /\ sm_edits = 0
      BY DEF Init, Metadata!Init
    <2>q. QED
      BY <2>1, MetadataInit
  <1>0. [Next]_vars => [Metadata!Next]_sm_vars
    BY DEF Next, vars, CopyStep, BinStep, CatalogStep, SourcesStep, SettingsStep, MetadataStep
  <1>2. MetadataInv /\ [Next]_vars => MetadataInv'
    <2>1. CASE Metadata!Next
      BY <2>1, MetadataNextKeeps DEF MetadataKeeps
    <2>2. CASE UNCHANGED sm_vars
      <3>1. UNCHANGED <<sm_fld, sm_cand, sm_edition, sm_status, sm_source, sm_run, sm_edits>>
        BY <2>2 DEF sm_vars
      <3>q. QED
        BY <3>1, MetadataTypes DEF MetadataInv, Metadata!RefreshOwned
    <2>q. QED
      BY <1>0, <2>1, <2>2
  <1>3. MetadataInv /\ [Next]_vars =>
          [comp = "metadata" => Metadata!RefreshOwned' /\ Metadata!LockedStands]_sm_vars
    BY <1>0, MetadataNextKeeps DEF MetadataKeeps, MetadataInv
  <1>q. QED
    BY <1>1, <1>2, <1>3, PTL DEF Spec, MetadataHonoured
=============================================================================
