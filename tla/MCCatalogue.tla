---------------------------- MODULE MCCatalogue -----------------------------
(***************************************************************************)
(* The components whose steps are transactions and passes over the rows of *)
(* the library: the copy of finished chapters, the bin, the catalogue of   *)
(* volumes and chapters, the release sources, the settings and the         *)
(* metadata.  They share no variable, so each behaviour is one of a single *)
(* component.                                                              *)
(***************************************************************************)
EXTENDS Naturals, FiniteSets

CONSTANTS
    cc_MaxStops, cc_MaxForeign,
    sb_Series, sb_MaxStops,
    sc_MaxVolume, sc_MaxChapter, sc_MaxEdits,
    rs_Url, rs_MaxEdits, rs_MaxFetches,
    ls_MaxId, ls_MaxEdits,
    sm_MaxEdits, sm_MaxRuns, sm_MaxStops

\* There is a series, a first volume, a URL and a first id of a settings row; the
\* others are bounds.
ASSUME CatalogueAssumption ==
    /\ sb_Series # {} /\ IsFiniteSet(sb_Series) /\ rs_Url # {}
    /\ {sc_MaxVolume, ls_MaxId} \subseteq Nat \ {0}
    /\ {cc_MaxStops, cc_MaxForeign, sb_MaxStops, sc_MaxChapter, sc_MaxEdits, rs_MaxEdits,
        rs_MaxFetches, ls_MaxEdits, sm_MaxEdits, sm_MaxRuns, sm_MaxStops} \subseteq Nat

VARIABLES
    comp,    \* the component of this behaviour
    cc_kind, cc_dst, cc_marker, cc_stage, cc_carrier, cc_kept, cc_row, cc_torn,
    cc_evidence, cc_pc, cc_made, cc_legacy, cc_sure, cc_stops, cc_foreign,
    sb_ser, sb_rec, sb_imp, sb_file, sb_purge, sb_adopt, sb_exposed, sb_kept,
    sb_stops,
    sc_vols, sc_chs, sc_cmap, sc_total, sc_series, sc_task, sc_edits,
    rs_ix, rs_toks, rs_gen, rs_sync, rs_found, rs_pend, rs_sel, rs_grab, rs_seen,
    rs_blocks, rs_edits, rs_fetches,
    ls_folder, ls_fdef, ls_quality, ls_qdef, ls_lang, ls_ldef, ls_scored, ls_fmt,
    ls_ser, ls_lst, ls_sync, ls_excl, ls_edits,
    sm_fld, sm_cand, sm_edition, sm_status, sm_known, sm_source, sm_run, sm_edits,
    sm_runs, sm_stops

Copy == INSTANCE ChapterCopy WITH
    kind <- cc_kind, dst <- cc_dst, marker <- cc_marker, stage <- cc_stage,
    carrier <- cc_carrier, kept <- cc_kept, row <- cc_row, torn <- cc_torn,
    evidence <- cc_evidence, pc <- cc_pc, made <- cc_made, legacy <- cc_legacy,
    sure <- cc_sure, stops <- cc_stops, foreign <- cc_foreign, MaxStops <- cc_MaxStops,
    MaxForeign <- cc_MaxForeign
Bin == INSTANCE SeriesBin WITH
    ser <- sb_ser, rec <- sb_rec, imp <- sb_imp, file <- sb_file, purge <- sb_purge,
    adopt <- sb_adopt, exposed <- sb_exposed, kept <- sb_kept, stops <- sb_stops,
    Series <- sb_Series, MaxStops <- sb_MaxStops
Catalog == INSTANCE SeriesCatalog WITH
    vols <- sc_vols, chs <- sc_chs, cmap <- sc_cmap, total <- sc_total,
    series <- sc_series, task <- sc_task,
    edits <- sc_edits, MaxVolume <- sc_MaxVolume, MaxChapter <- sc_MaxChapter,
    MaxEdits <- sc_MaxEdits
Sources == INSTANCE ReleaseSources WITH
    ix <- rs_ix, toks <- rs_toks, gen <- rs_gen, sync <- rs_sync, found <- rs_found,
    pend <- rs_pend, sel <- rs_sel, grab <- rs_grab, seen <- rs_seen,
    blocks <- rs_blocks, edits <- rs_edits, fetches <- rs_fetches,
    Url <- rs_Url, MaxEdits <- rs_MaxEdits, MaxFetches <- rs_MaxFetches
Settings == INSTANCE LibrarySettings WITH
    folder <- ls_folder, fdef <- ls_fdef, quality <- ls_quality, qdef <- ls_qdef,
    lang <- ls_lang, ldef <- ls_ldef, scored <- ls_scored, fmt <- ls_fmt,
    ser <- ls_ser, lst <- ls_lst, sync <- ls_sync, excl <- ls_excl,
    edits <- ls_edits, MaxId <- ls_MaxId, MaxEdits <- ls_MaxEdits
Metadata == INSTANCE SeriesMetadata WITH
    fld <- sm_fld, cand <- sm_cand, edition <- sm_edition, status <- sm_status,
    known <- sm_known, source <- sm_source, run <- sm_run, edits <- sm_edits,
    runs <- sm_runs, stops <- sm_stops, MaxEdits <- sm_MaxEdits, MaxRuns <- sm_MaxRuns,
    MaxStops <- sm_MaxStops

cc_vars ==
    <<cc_kind, cc_dst, cc_marker, cc_stage, cc_carrier, cc_kept, cc_row, cc_torn,
      cc_evidence, cc_pc, cc_made, cc_legacy, cc_sure, cc_stops, cc_foreign>>
sb_vars ==
    <<sb_ser, sb_rec, sb_imp, sb_file, sb_purge, sb_adopt, sb_exposed, sb_kept,
      sb_stops>>
sc_vars ==
    <<sc_vols, sc_chs, sc_cmap, sc_total, sc_series, sc_task, sc_edits>>
rs_vars ==
    <<rs_ix, rs_toks, rs_gen, rs_sync, rs_found, rs_pend, rs_sel, rs_grab, rs_seen,
      rs_blocks, rs_edits, rs_fetches>>
ls_vars ==
    <<ls_folder, ls_fdef, ls_quality, ls_qdef, ls_lang, ls_ldef, ls_scored, ls_fmt,
      ls_ser, ls_lst, ls_sync, ls_excl, ls_edits>>
sm_vars ==
    <<sm_fld, sm_cand, sm_edition, sm_status, sm_known, sm_source, sm_run, sm_edits,
      sm_runs, sm_stops>>
vars == <<comp, cc_vars, sb_vars, sc_vars, rs_vars, ls_vars, sm_vars>>

\* A behaviour is one of a single component; the others stay where they begin.
Init ==
    /\ comp \in {"copy", "bin", "catalog", "sources", "settings", "metadata"}
    /\ Copy!Init
    /\ comp # "copy" =>
         cc_kind = "chapter" /\ cc_dst = "none"
    /\ Bin!Init
    /\ comp # "bin" =>
         sb_ser[CHOOSE s \in sb_Series : TRUE] = "active" /\ ~sb_file
    /\ Catalog!Init
    /\ comp # "catalog" =>
         sc_vols[0].st = "absent"
    /\ Sources!Init
    /\ Settings!Init
    /\ Metadata!Init
    /\ comp # "metadata" =>
         sm_edition = "standard"

CopyStep ==
    /\ comp = "copy" /\ Copy!Next
    /\ UNCHANGED <<comp, sb_vars, sc_vars, rs_vars, ls_vars, sm_vars>>
BinStep ==
    /\ comp = "bin" /\ Bin!Next
    /\ UNCHANGED <<comp, cc_vars, sc_vars, rs_vars, ls_vars, sm_vars>>
CatalogStep ==
    /\ comp = "catalog" /\ Catalog!Next
    /\ UNCHANGED <<comp, cc_vars, sb_vars, rs_vars, ls_vars, sm_vars>>
SourcesStep ==
    /\ comp = "sources" /\ Sources!Next
    /\ UNCHANGED <<comp, cc_vars, sb_vars, sc_vars, ls_vars, sm_vars>>
SettingsStep ==
    /\ comp = "settings" /\ Settings!Next
    /\ UNCHANGED <<comp, cc_vars, sb_vars, sc_vars, rs_vars, sm_vars>>
MetadataStep ==
    /\ comp = "metadata" /\ Metadata!Next
    /\ UNCHANGED <<comp, cc_vars, sb_vars, sc_vars, rs_vars, ls_vars>>

Next == CopyStep \/ BinStep \/ CatalogStep \/ SourcesStep \/ SettingsStep \/ MetadataStep

Spec == Init /\ [][Next]_vars

-----------------------------------------------------------------------------
\* Every property is about the steps of its component: in the behaviours of the others
\* its variables do not change.

\* suwayomi_._import_suwayomi_chapter_copy: a file that was cut off is never taken
\* for the chapter, and what others put at its name is not lost.
CopiesSafe == [][comp = "copy" => Copy!NoTornFile' /\ Copy!StrangersKept]_cc_vars

\* series_.delete_series, _prepare_hard_delete_series and the adoption of folders:
\* a recorded file is not purged, and a purge leaves no file of an import behind.
FolderKept == Bin!RecordedFileKept /\ Bin!NoOrphanFile

\* volumes.populate_chapters, chapter_map_reconcile, grabs, imports and the edits of a
\* series: no mapped chapter loses its mainline row and no chapter its volume, and only
\* the user makes what was acquired wanted again.
CatalogueKept ==
    [][comp = "catalog" =>
         /\ Catalog!MappedKept /\ Catalog!LinksStand'
         /\ Catalog!AcquiredKept /\ Catalog!DownloadsKept]_sc_vars

\* release_sources and release_identity: only releases of a source that is still
\* as it was, and that nobody blocked by either way, are sent to a client.
SourcesHonoured ==
    [][comp = "sources" => Sources!SourceStands /\ Sources!BlockHoldsOnBothWays]_rs_vars

\* helpers.resolve_root_folder_id and import_lists._sync_list: a series arrives in
\* a folder that exists, and not when it was excluded during the fetch.
SettingsHonoured ==
    [][comp = "settings" => Settings!PlacedOnArrival /\ Settings!ExclusionHonoured]_ls_vars

\* metadata_enrichment and metadata_refresh_state: no provider's late answer changes
\* a locked field, and nothing stays in the middle of a refresh.
MetadataHonoured ==
    [][comp = "metadata" => Metadata!RefreshOwned' /\ Metadata!LockedStands]_sm_vars

=============================================================================
