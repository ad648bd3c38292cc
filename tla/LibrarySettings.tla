--------------------------- MODULE LibrarySettings ---------------------------
(***************************************************************************)
(* Root folders, quality and language profiles, custom-format scores and    *)
(* import lists: the settings a series refers to, the handlers that change  *)
(* them (routers/settings_.py, quality_profiles.py, language_profiles.py,   *)
(* custom_formats.py, import_lists.py, series_editor.py, api_v1.py), and    *)
(* the ways a series is added.                                              *)
(*                                                                         *)
(* Every handler is one transaction under PRAGMA foreign_keys=ON; a step    *)
(* that would break a foreign key raises and changes nothing.  Only the     *)
(* sync of an import list works from a row it read before it awaited.       *)
(*                                                                         *)
(* Ids are never used twice (AUTOINCREMENT).  0 stands for NULL.  One work  *)
(* with a provider id, which the import list contains.                      *)
(***************************************************************************)
EXTENDS Naturals, FiniteSets

CONSTANTS MaxId,       \* bound: folders, quality profiles and language profiles each
          MaxEdits     \* bound: transactions

VARIABLES
    folder,  \* id -> "unused", "live" or "gone"
    fdef,    \* ids of the folders with is_default=1
    quality, qdef,
    lang, ldef,   \* ldef: the setting default_language_profile_id
    scored,  \* quality profiles with a score for the custom format; fmt: it exists
    fmt,
    ser,     \* the series row of the work: [st, root, q, lang]
    lst,     \* the import list: [on, root, q]
    sync,    \* its sync: [pc, root, q], the row it read
    excl,    \* the work is on the exclusion list
    edits
vars == <<folder, fdef, quality, qdef, lang, ldef, scored, fmt, ser, lst, sync, excl, edits>>

Id == 1..MaxId
Ref == 0..MaxId
Table == [Id -> {"unused", "live", "gone"}]
Live(t) == {i \in Id : t[i] = "live"}
Lowest(S) == CHOOSE i \in S : \A j \in S : i <= j
Fresh(t) == {i \in Id : t[i] = "unused" /\ \A j \in Id : j < i => t[j] # "unused"}
Absent == [st |-> "none", root |-> 0, q |-> 0, lang |-> 0]

TypeOK ==
    /\ folder \in Table /\ quality \in Table /\ lang \in Table
    /\ fdef \subseteq Live(folder) /\ qdef \subseteq Live(quality) /\ ldef \in Ref
    /\ scored \subseteq Live(quality) /\ fmt \in BOOLEAN /\ excl \in BOOLEAN
    /\ ser \in [st : {"none", "active", "binned"}, root : Ref, q : Ref, lang : Ref]
    /\ lst \in [on : BOOLEAN, root : Ref, q : Ref]
    /\ sync \in [pc : {"idle", "await"}, root : Ref, q : Ref]

\* A new installation: one folder, one quality profile, one language profile.
Init ==
    /\ folder = [i \in Id |-> IF i = 1 THEN "live" ELSE "unused"] /\ fdef = {1}
    /\ quality = folder /\ qdef = {1} /\ lang = folder /\ ldef = 0
    /\ scored = {} /\ fmt = FALSE /\ ser = Absent
    /\ lst = [on |-> FALSE, root |-> 0, q |-> 0] /\ sync = [pc |-> "idle", root |-> 0, q |-> 0]
    /\ excl = FALSE /\ edits = 0

Edit == edits < MaxEdits /\ edits' = edits + 1
Others == <<lst, sync, excl>>

(***************************************************************************)
(* Root folders.  A list holds its folder by a foreign key, a series does   *)
(* not.                                                                     *)
(***************************************************************************)
WithDefault(live, def, pick) == IF def = {} /\ live # {} THEN {pick} ELSE def

\* A path that is already there clears the other defaults all the same.
add_root_folder_entry(f, def) ==
    LET live == Live(folder) \cup {f}
        kept == IF def THEN {} ELSE fdef
        got == IF def /\ f \notin Live(folder) THEN kept \cup {f} ELSE kept
    IN /\ Edit /\ f \in Fresh(folder) \cup Live(folder)
       /\ folder' = [folder EXCEPT ![f] = "live"]
       /\ fdef' = IF Cardinality(live) = 1 THEN live ELSE got
       /\ UNCHANGED <<quality, qdef, lang, ldef, scored, fmt, ser>> /\ UNCHANGED Others
delete_root_folder_entry(f) ==
    LET live == Live(folder) \ {f}
    IN /\ Edit /\ f \in Live(folder) /\ ~(lst.on /\ lst.root = f)
       /\ folder' = [folder EXCEPT ![f] = "gone"]
       /\ fdef' = WithDefault(live, fdef \ {f}, Lowest(live))
       /\ UNCHANGED <<quality, qdef, lang, ldef, scored, fmt, ser>> /\ UNCHANGED Others
update_root_folder_entry(f, def) ==
    LET other == Live(folder) \ {f}
        got == IF def THEN {f} ELSE fdef \ {f}
    IN /\ Edit /\ f \in Live(folder)
       /\ fdef' = WithDefault(Live(folder), got, IF other = {} THEN f ELSE Lowest(other))
       /\ UNCHANGED <<folder, quality, qdef, lang, ldef, scored, fmt, ser>> /\ UNCHANGED Others
set_default_root_folder_entry(f) ==
    /\ Edit /\ f \in Live(folder) /\ fdef' = {f}
    /\ UNCHANGED <<folder, quality, qdef, lang, ldef, scored, fmt, ser>> /\ UNCHANGED Others

\* The id a new series carries: the one asked for if it exists, else the default.
resolve_root_folder_id(f) ==
    IF f \in Live(folder) THEN f
    ELSE IF Live(folder) = {} THEN 0 ELSE Lowest(IF fdef # {} THEN fdef ELSE Live(folder))

(***************************************************************************)
(* Quality profiles.                                                        *)
(***************************************************************************)
FoldersAndLangs == <<folder, fdef, lang, ldef>>

create_quality_profile(p, def) ==
    /\ Edit /\ p \in Fresh(quality) /\ quality' = [quality EXCEPT ![p] = "live"]
    /\ qdef' = IF def THEN {p} ELSE qdef
    /\ UNCHANGED <<scored, fmt, ser>> /\ UNCHANGED FoldersAndLangs /\ UNCHANGED Others
api_v1_create_quality_profile(p, def) == create_quality_profile(p, def)
api_v1_update_quality_profile(p, def) ==
    /\ Edit /\ p \in Live(quality) /\ qdef' = IF def THEN {p} ELSE qdef \ {p}
    /\ UNCHANGED <<quality, scored, fmt, ser>> /\ UNCHANGED FoldersAndLangs /\ UNCHANGED Others
\* The form does not ask whether the profile exists.
set_default_quality_profile(p) ==
    /\ Edit /\ quality[p] # "unused" /\ qdef' = {p} \cap Live(quality)
    /\ UNCHANGED <<quality, scored, fmt, ser>> /\ UNCHANGED FoldersAndLangs /\ UNCHANGED Others
api_v1_set_default_quality_profile(p) == p \in Live(quality) /\ set_default_quality_profile(p)
\* Series are reset to NULL first; a list that refers to the profile stops it.
delete_quality_profile(p) ==
    /\ Edit /\ p \in Live(quality) /\ ~(lst.on /\ lst.q = p)
    /\ quality' = [quality EXCEPT ![p] = "gone"] /\ qdef' = qdef \ {p}
    /\ scored' = scored \ {p}
    /\ ser' = IF ser.q = p THEN [ser EXCEPT !.q = 0] ELSE ser
    /\ UNCHANGED fmt /\ UNCHANGED FoldersAndLangs /\ UNCHANGED Others
api_v1_delete_quality_profile(p) == delete_quality_profile(p)

(***************************************************************************)
(* Custom formats and their scores; the score rows go with either side.     *)
(***************************************************************************)
ButScores == <<folder, fdef, quality, qdef, lang, ldef, ser>>
create_custom_format ==
    /\ Edit /\ ~fmt /\ fmt' = TRUE
    /\ UNCHANGED scored /\ UNCHANGED ButScores /\ UNCHANGED Others
api_v1_create_custom_format(P) ==
    /\ Edit /\ ~fmt /\ fmt' = TRUE /\ P \subseteq Live(quality) /\ scored' = P
    /\ UNCHANGED ButScores /\ UNCHANGED Others
api_v1_delete_custom_format ==
    /\ Edit /\ fmt /\ fmt' = FALSE /\ scored' = {}
    /\ UNCHANGED ButScores /\ UNCHANGED Others
_replace_custom_format_scores(P) ==
    /\ Edit /\ fmt /\ P \subseteq Live(quality) /\ scored' = P
    /\ UNCHANGED fmt /\ UNCHANGED ButScores /\ UNCHANGED Others
api_v1_update_custom_format(P) == _replace_custom_format_scores(P)
\* The matrix upserts what it was sent; the profile's own page replaces its row.
cf_score_matrix_save(p, on) ==
    /\ Edit /\ fmt /\ p \in Live(quality)
    /\ scored' = IF on THEN scored \cup {p} ELSE scored \ {p}
    /\ UNCHANGED fmt /\ UNCHANGED ButScores /\ UNCHANGED Others
set_format_scores(p, on) == cf_score_matrix_save(p, on)

(***************************************************************************)
(* Language profiles.                                                       *)
(***************************************************************************)
ButLangs == <<folder, fdef, quality, qdef, scored, fmt, ser>>
create_language_profile(p) ==
    /\ Edit /\ p \in Fresh(lang) /\ lang' = [lang EXCEPT ![p] = "live"]
    /\ UNCHANGED ldef /\ UNCHANGED ButLangs /\ UNCHANGED Others
api_v1_create_language_profile(p, def) ==
    /\ Edit /\ p \in Fresh(lang) /\ lang' = [lang EXCEPT ![p] = "live"]
    /\ ldef' = IF def THEN p ELSE ldef
    /\ UNCHANGED ButLangs /\ UNCHANGED Others
api_v1_update_language_profile(p, def) ==
    /\ Edit /\ p \in Live(lang)
    /\ ldef' = IF def THEN p ELSE IF ldef = p THEN 0 ELSE ldef
    /\ UNCHANGED lang /\ UNCHANGED ButLangs /\ UNCHANGED Others
set_default_language_profile(p) ==
    /\ Edit /\ lang[p] # "unused" /\ ldef' = p
    /\ UNCHANGED lang /\ UNCHANGED ButLangs /\ UNCHANGED Others
api_v1_set_default_language_profile(p) == p \in Live(lang) /\ set_default_language_profile(p)
\* A profile a series uses, in the recycle bin too, stays.
delete_language_profile(p) ==
    /\ Edit /\ p \in Live(lang) /\ ser.lang # p
    /\ lang' = [lang EXCEPT ![p] = "gone"] /\ ldef' = IF ldef = p THEN 0 ELSE ldef
    /\ UNCHANGED ButLangs /\ UNCHANGED Others
api_v1_delete_language_profile(p) == delete_language_profile(p)

(***************************************************************************)
(* The series row.                                                          *)
(***************************************************************************)
ButSeries == <<folder, fdef, quality, qdef, lang, ldef, scored, fmt>>
Resolves(t, r) == r = 0 \/ r \in Live(t)

\* A row of the work in the recycle bin makes the insert fail on the unique
\* index over (anilist_id, edition_type).
Insert(root, q, l) ==
    /\ ser.st = "none" /\ Resolves(quality, q) /\ Resolves(lang, l)
    /\ ser' = [st |-> "active", root |-> root, q |-> q, lang |-> l]
add_series(f) ==
    /\ Edit /\ resolve_root_folder_id(f) # 0 /\ Insert(resolve_root_folder_id(f), 0, 0)
    /\ UNCHANGED ButSeries /\ UNCHANGED Others
_default_profile_id(t, def) ==
    IF Live(t) = {} THEN 0 ELSE Lowest(IF def # {} THEN def ELSE Live(t))
_require_profile_id(t, def, p) == IF p = 0 THEN _default_profile_id(t, def) ELSE p
api_v1_create_series(f, q, l) ==
    /\ Edit /\ resolve_root_folder_id(f) # 0
    /\ Insert(resolve_root_folder_id(f), _require_profile_id(quality, qdef, q),
              _require_profile_id(lang, {}, l))
    /\ UNCHANGED ButSeries /\ UNCHANGED Others
\* Profiles are foreign keys; the folder is any number.
series_editor_save(f, q, l) ==
    /\ Edit /\ ser.st = "active" /\ Resolves(quality, q) /\ Resolves(lang, l)
    /\ folder[IF f = 0 THEN 1 ELSE f] # "unused"
    /\ ser' = [ser EXCEPT !.root = f, !.q = q, !.lang = l]
    /\ UNCHANGED ButSeries /\ UNCHANGED Others
set_series_root_folder(f) == series_editor_save(f, ser.q, ser.lang)
\* To the recycle bin, back, and out of it.
delete_series ==
    /\ Edit /\ ser.st = "active" /\ ser' = [ser EXCEPT !.st = "binned"]
    /\ UNCHANGED ButSeries /\ UNCHANGED Others
restore_series ==
    /\ Edit /\ ser.st = "binned" /\ ser' = [ser EXCEPT !.st = "active"]
    /\ UNCHANGED ButSeries /\ UNCHANGED Others
purge_series ==
    /\ Edit /\ ser.st = "binned" /\ ser' = Absent
    /\ UNCHANGED ButSeries /\ UNCHANGED Others

\* A start gives series without a folder the default one, and makes one from the
\* old save_path setting if there is none; what was awaited is lost.
_bootstrap_root_folders_locked ==
    LET new == IF Live(folder) = {} THEN Fresh(folder) ELSE {}
        live == Live(folder) \cup new
        def == IF fdef # {} THEN fdef ELSE IF new # {} THEN new ELSE live
    IN /\ Edit /\ sync' = [pc |-> "idle", root |-> 0, q |-> 0]
       /\ folder' = [i \in Id |-> IF i \in new THEN "live" ELSE folder[i]]
       /\ fdef' = fdef \cup new
       /\ ser' = IF ser.st # "none" /\ ser.root = 0 /\ live # {}
                 THEN [ser EXCEPT !.root = Lowest(def)] ELSE ser
       /\ UNCHANGED <<quality, qdef, lang, ldef, scored, fmt, lst, excl>>

(***************************************************************************)
(* Import lists.                                                            *)
(***************************************************************************)
edit_import_list(f, q) ==
    /\ Edit /\ Resolves(folder, f) /\ Resolves(quality, q)
    /\ lst' = [on |-> TRUE, root |-> f, q |-> q]
    /\ UNCHANGED <<ser, sync, excl>> /\ UNCHANGED ButSeries
create_import_list(f, q) == ~lst.on /\ edit_import_list(f, q)
api_v1_create_import_list(f, q) == create_import_list(f, q)
api_v1_update_import_list(f, q) == lst.on /\ edit_import_list(f, q)
delete_import_list ==
    /\ Edit /\ lst.on /\ lst' = [lst EXCEPT !.on = FALSE]
    /\ UNCHANGED <<ser, sync, excl>> /\ UNCHANGED ButSeries
api_v1_delete_import_list == delete_import_list
create_import_list_exclusion ==
    /\ Edit /\ ~excl /\ excl' = TRUE
    /\ UNCHANGED <<ser, lst, sync>> /\ UNCHANGED ButSeries
api_v1_create_import_list_exclusion == create_import_list_exclusion
delete_import_list_exclusion ==
    /\ Edit /\ excl /\ excl' = FALSE
    /\ UNCHANGED <<ser, lst, sync>> /\ UNCHANGED ButSeries

api_v1_delete_import_list_exclusion == delete_import_list_exclusion

_sync_all_lists ==
    /\ Edit /\ lst.on /\ sync.pc = "idle"
    /\ sync' = [pc |-> "await", root |-> lst.root, q |-> lst.q]
    /\ UNCHANGED <<ser, lst, excl>> /\ UNCHANGED ButSeries

\* Mutation of _entry_is_excluded: exclusions are not looked up.
_entry_is_excluded_never == FALSE
_entry_is_excluded == excl
\* INSERT OR IGNORE: a row in the recycle bin makes it do nothing.  A profile that
\* was deleted meanwhile breaks the foreign key and the whole sync is rolled back.
Added == /\ ~_entry_is_excluded /\ ser.st = "none"
         /\ resolve_root_folder_id(sync.root) # 0 /\ Resolves(quality, sync.q)
_sync_list ==
    /\ sync.pc = "await" /\ sync' = [pc |-> "idle", root |-> 0, q |-> 0]
    /\ IF Added THEN Insert(resolve_root_folder_id(sync.root), sync.q, 0) ELSE UNCHANGED ser
    /\ UNCHANGED <<lst, excl, edits>> /\ UNCHANGED ButSeries
_fetch_list_failed ==
    /\ sync.pc = "await" /\ sync' = [pc |-> "idle", root |-> 0, q |-> 0]
    /\ UNCHANGED <<ser, lst, excl, edits>> /\ UNCHANGED ButSeries

Next ==
    \/ \E f \in Id : delete_root_folder_entry(f) \/ set_default_root_folder_entry(f)
    \/ \E f \in Id, d \in BOOLEAN : add_root_folder_entry(f, d) \/ update_root_folder_entry(f, d)
    \/ \E p \in Id : \/ create_quality_profile(p, FALSE) \/ set_default_quality_profile(p)
                     \/ api_v1_set_default_quality_profile(p)
                     \/ delete_quality_profile(p) \/ api_v1_delete_quality_profile(p)
    \/ \E p \in Id, d \in BOOLEAN : \/ api_v1_create_quality_profile(p, d)
                                    \/ api_v1_update_quality_profile(p, d)
                                    \/ cf_score_matrix_save(p, d) \/ set_format_scores(p, d)
                                    \/ api_v1_create_language_profile(p, d)
                                    \/ api_v1_update_language_profile(p, d)
    \/ create_custom_format \/ api_v1_delete_custom_format
    \/ \E P \in SUBSET Id : api_v1_create_custom_format(P) \/ api_v1_update_custom_format(P)
    \/ \E p \in Id : \/ create_language_profile(p) \/ set_default_language_profile(p)
                     \/ api_v1_set_default_language_profile(p)
                     \/ delete_language_profile(p) \/ api_v1_delete_language_profile(p)
    \/ \E f \in Ref : add_series(f) \/ set_series_root_folder(f)
    \/ \E f, q, l \in Ref : api_v1_create_series(f, q, l) \/ series_editor_save(f, q, l)
    \/ delete_series \/ restore_series \/ purge_series \/ _bootstrap_root_folders_locked
    \/ \E f, q \in Ref : create_import_list(f, q) \/ api_v1_create_import_list(f, q)
                         \/ api_v1_update_import_list(f, q)
    \/ delete_import_list \/ api_v1_delete_import_list
    \/ create_import_list_exclusion \/ api_v1_create_import_list_exclusion
    \/ delete_import_list_exclusion \/ api_v1_delete_import_list_exclusion
    \/ _sync_all_lists \/ _sync_list \/ _fetch_list_failed

Spec == Init /\ [][Next]_vars

-----------------------------------------------------------------------------
Appears == ser.st = "none" /\ ser'.st = "active"

(***************************************************************************)
(* A series is never added with a root folder that does not exist at that   *)
(* moment, although a sync works from the list's row of before its fetch    *)
(* and folders are deleted meanwhile (helpers.resolve_root_folder_id: "pick *)
(* the id a newly-created series should carry").                            *)
(***************************************************************************)
PlacedOnArrival == Appears => ser'.root \in Live(folder)

(***************************************************************************)
(* A work the user excluded while a sync was waiting for the provider is    *)
(* not added by that sync (import_lists._sync_list).                        *)
(***************************************************************************)
ExclusionHonoured == Appears /\ sync.pc = "await" /\ sync'.pc = "idle" => ~excl
=============================================================================
