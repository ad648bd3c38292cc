--------------------------- MODULE SeriesMetadata ---------------------------
(***************************************************************************)
(* The metadata of one series: the refresh of metadata_service.py and       *)
(* metadata_enrichment.py, the field selections, locks and candidates of    *)
(* metadata_provenance.py, the statuses of metadata_state.py, and the       *)
(* routes of routers/series_.py that edit a field or start a refresh.       *)
(*                                                                         *)
(* Everything runs on one event loop: a step is what happens between two    *)
(* awaits.  A refresh awaits one provider after the other and works with    *)
(* what it read before the await.  refresh_series_metadata holds a lock per *)
(* series; the routes that refresh the chapter map or the edition alone do  *)
(* not take it.                                                             *)
(*                                                                         *)
(* Three fields stand for the fields of FIELD_CONFIG: a count, which only   *)
(* grows by itself, the chapter map and a provider id.  0 is NULL; a map    *)
(* or an id is there (1) or not.  The Google Books and Wikipedia counts are *)
(* one source, "books"; the maps of Kitsu and of the downloaded archives    *)
(* another, "fallback".                                                     *)
(***************************************************************************)
EXTENDS Naturals, FiniteSets

CONSTANTS MaxEdits,   \* bound: steps of the user
          MaxRuns,    \* bound: refreshes each refresher starts
          MaxStops    \* bound: restarts

VARIABLES
    fld,      \* field -> [val, src, locked]
    cand,     \* field -> source -> the value it last observed
    edition,  \* "standard" or "omnibus"
    status,   \* series.metadata_status
    known,    \* series.last_metadata_refresh is set
    source,   \* source -> series_metadata_sources.status
    run,      \* refresher -> where it awaits and what it read before
    edits, runs, stops
vars == <<fld, cand, edition, status, known, source, run, edits, runs, stops>>

Field == {"count", "map", "ref"}
Val == 0..2
Source == {"anilist", "mangaupdates", "books", "mangadex", "fallback", "local", "manual"}
Refresher == {"full", "direct"}
Stages == <<"mu", "map", "edition", "rest">>
Idle == [pc |-> "idle", apply |-> FALSE, force |-> FALSE, res |-> "healthy",
         val |-> 0, src |-> "anilist"]
_PROTECTED_COUNT_SOURCES == {"manual", "books"}

TypeOK ==
    /\ fld \in [Field -> [val : Val, src : Source \cup {"legacy"}, locked : BOOLEAN]]
    /\ cand \in [Field -> [Source -> Val]]
    /\ edition \in {"standard", "omnibus"}
    /\ status \in {"pending", "refreshing", "healthy", "degraded", "failed"}
    /\ source \in [{"anilist", "mu", "map"} ->
                    {"none", "refreshing", "healthy", "failed", "interrupted"}]
    /\ run \in [Refresher ->
                 [pc : {"idle", "anilist", "mu", "map", "edition", "rest"}, apply : BOOLEAN,
                  force : BOOLEAN, res : {"healthy", "degraded", "failed"}, val : Val,
                  src : Source \cup {"legacy"}]]

\* A series that was just added: nothing is known about it.
Init ==
    /\ fld = [f \in Field |-> [val |-> 0, src |-> "legacy", locked |-> FALSE]]
    /\ cand = [f \in Field |-> [s \in Source |-> 0]]
    /\ edition \in {"standard", "omnibus"} /\ status = "pending" /\ known = FALSE
    /\ source = [s \in {"anilist", "mu", "map"} |-> "none"]
    /\ run = [r \in Refresher |-> Idle]
    /\ edits = 0 /\ runs = [r \in Refresher |-> 0] /\ stops = 0

Bounds == <<edits, runs, stops>>
record_metadata_candidates(f, s, v) == IF v = 0 THEN cand ELSE [cand EXCEPT ![f][s] = v]
mark_source_success(s) == [source EXCEPT ![s] = "healthy"]
mark_source_failure(s) == [source EXCEPT ![s] = "failed"]
\* A selection without an explicit lock is locked when it is manual.
_record_selection(f, v, s) == [fld EXCEPT ![f] = [val |-> v, src |-> s, locked |-> s = "manual"]]

(***************************************************************************)
(* The stages of a full refresh.  What follows an answer is entered in the  *)
(* same step, up to the next await: Enters says which stages are skipped,   *)
(* due is what source_retry_due answers.                                    *)
(***************************************************************************)
source_retry_due == {due \in SUBSET {"mu", "map"} :
                        \A s \in {"mu", "map"} : s \in due \/ source[s] = "failed"}
Protected(f, r) == r.apply /\ f["count"].src \in _PROTECTED_COUNT_SOURCES
Enters(stage, f, r, due) ==
    CASE stage = "mu" -> ~Protected(f, r) /\ (r.force \/ "mu" \in due)
      [] stage = "map" -> r.force \/ "map" \in due
      [] stage = "edition" -> edition # "standard" /\ ~Protected(f, r)
      [] stage = "rest" -> r.apply
Following(pc) == IF pc = "anilist" THEN 1..4
                 ELSE {j \in 1..4 : \E i \in 1..4 : Stages[i] = pc /\ i < j}
Snapshot(stage, f, r) ==
    [r EXCEPT !.pc = stage,
              !.val = IF stage = "mu" THEN f["count"].val
                      ELSE IF stage = "map" THEN f["ref"].val ELSE 0,
              !.src = IF stage = "mu" THEN f["count"].src ELSE "anilist"]

finish_series_refresh(r) == IF r.apply THEN r.res ELSE status
\* The refresher r goes on with fields f, result res and source statuses src.
Continues(r, f, res, src) ==
    LET me == [run[r] EXCEPT !.res = res]
    IN IF r = "direct"
       THEN run' = [run EXCEPT ![r] = Idle] /\ source' = src /\ UNCHANGED <<status, known>>
       ELSE \E due \in source_retry_due :
              LET next == {j \in Following(me.pc) : Enters(Stages[j], f, me, due)}
                  stage == Stages[CHOOSE j \in next : \A k \in next : j <= k]
                  skip == me.pc = "anilist" /\ Protected(f, me)
                  src1 == IF skip THEN [src EXCEPT !["mu"] = "healthy"] ELSE src
              IN IF next = {}
                 THEN /\ run' = [run EXCEPT ![r] = Idle] /\ source' = src1
                      /\ status' = finish_series_refresh(me)
                      /\ known' = (known \/ (me.apply /\ me.res # "failed"))
                 ELSE /\ run' = [run EXCEPT ![r] = Snapshot(stage, f, me)]
                      /\ source' = IF stage \in {"mu", "map"}
                                   THEN [src1 EXCEPT ![stage] = "refreshing"] ELSE src1
                      /\ UNCHANGED <<status, known>>
Warned(r) == IF run[r].res = "healthy" THEN "degraded" ELSE run[r].res

\* What metadata_retry_candidates picks: never tried, or a failure whose backoff is over.
metadata_retry_candidates ==
    status = "pending" \/ \E s \in DOMAIN source : source[s] \in {"failed", "interrupted"}

Starts(r) == run[r].pc = "idle" /\ runs[r] < MaxRuns /\ runs' = [runs EXCEPT ![r] = @ + 1]
\* The user's refresh and preview are forced, the loops' refresh is not.
refresh_series_metadata(apply, force) ==
    /\ Starts("full")
    /\ force \/ (apply /\ metadata_retry_candidates)
    /\ run' = [run EXCEPT !["full"] = [Idle EXCEPT !.pc = "anilist", !.apply = apply, !.force = force]]
    /\ status' = IF apply THEN "refreshing" ELSE status
    /\ source' = [source EXCEPT !["anilist"] = "refreshing"]
    /\ UNCHANGED <<fld, cand, edition, known, edits, stops>>
\* refresh_series_mangadex and api_series_reconcile_refresh_then_preview.
refresh_series_mangadex ==
    /\ Starts("direct")
    /\ run' = [run EXCEPT !["direct"] = Snapshot("map", fld, [Idle EXCEPT !.apply = TRUE])]
    /\ source' = [source EXCEPT !["map"] = "refreshing"]
    /\ UNCHANGED <<fld, cand, edition, status, known, edits, stops>>
refresh_edition_metadata ==
    /\ Starts("direct")
    /\ edition # "standard" /\ fld["count"].src \notin _PROTECTED_COUNT_SOURCES
    /\ run' = [run EXCEPT !["direct"] = [Idle EXCEPT !.pc = "edition", !.apply = TRUE]]
    /\ UNCHANGED <<fld, cand, edition, status, known, source, edits, stops>>

(***************************************************************************)
(* The answers.                                                             *)
(***************************************************************************)
Larger(a, b) == IF a > b THEN a ELSE b
\* The candidates c and the count that the downloaded volumes show.
Observed(c, o) == IF o = 0 THEN c ELSE [c EXCEPT !["count"]["local"] = o]
\* A locked count and a protected one stay; any other only grows, to what the record
\* says, v, or to o, the highest downloaded volume.
Counted(v, o) ==
    LET c == fld["count"]
    IN IF c.locked \/ c.src = "books" THEN fld
       ELSE [fld EXCEPT !["count"].val = Larger(Larger(c.val, v), o),
                        !["count"].src = IF o > Larger(c.val, v) THEN "local"
                                         ELSE IF c.val > v THEN c.src ELSE "anilist"]
\* v = 0: no record, an ambiguous identity or an error.
_apply_anilist_record(v, o) ==
    /\ run["full"].pc = "anilist"
    /\ v = 0 => o = 0
    /\ LET kept == IF v # 0 /\ run["full"].apply THEN Counted(v, o) ELSE fld
       IN /\ fld' = kept
          /\ Continues("full", kept, IF v = 0 THEN "failed" ELSE "healthy",
                       IF v = 0 THEN mark_source_failure("anilist") ELSE mark_source_success("anilist"))
    /\ cand' = Observed(record_metadata_candidates("count", "anilist", v), o)
    /\ UNCHANGED <<edition, Bounds>>

\* Mutation of MayRaise: the lock is not looked at.
MayRaise_unlocked(v) ==
    /\ run["full"].apply /\ edition = "standard"
    /\ v > run["full"].val /\ run["full"].src \notin _PROTECTED_COUNT_SOURCES
\* The lock is read after the await, the count and its source before it.
MayRaise(v) ==
    /\ ~fld["count"].locked /\ run["full"].apply /\ edition = "standard"
    /\ v > run["full"].val /\ run["full"].src \notin _PROTECTED_COUNT_SOURCES
fetch_mu_metadata(v, ok) ==
    /\ run["full"].pc = "mu" /\ (v # 0 => ok)
    /\ LET kept == IF MayRaise(v) THEN _record_selection("count", v, "mangaupdates") ELSE fld
       IN /\ fld' = kept
          /\ Continues("full", kept, IF ok THEN run["full"].res ELSE Warned("full"),
                       IF ok THEN mark_source_success("mu") ELSE mark_source_failure("mu"))
    /\ cand' = record_metadata_candidates("count", "mangaupdates", v)
    /\ UNCHANGED <<edition, Bounds>>

\* The map of the first provider that has a usable one.
usable_map(md, kitsu, cbz) ==
    CASE md = "usable" -> "mangadex"
      [] md # "usable" /\ (kitsu = "usable" \/ cbz) -> "fallback"
      [] OTHER -> "none"
\* The source of the map that is taken, and whether a provider failed.
MapOutcomes == {[src |-> usable_map(md, kitsu, cbz), failed |-> "failed" \in {md, kitsu}] :
                   md \in {"failed", "empty", "usable"}, kitsu \in {"failed", "empty", "usable"},
                   cbz \in BOOLEAN}
\* The id is resolved only when none was stored.
_resolved(r, id) == IF run[r].val # 0 THEN run[r].val ELSE id
\* The id column is written from the snapshot when the field is locked now.
SelectedRef(r, id, fresh) ==
    LET ref == fld["ref"]
    IN IF ref.locked THEN [ref EXCEPT !.val = run[r].val]
       ELSE IF fresh THEN [val |-> id, src |-> "mangadex", locked |-> FALSE]
       ELSE [ref EXCEPT !.val = id]
SelectedMap(s) ==
    IF s # "none" /\ ~fld["map"].locked THEN [val |-> 1, src |-> s, locked |-> FALSE] ELSE fld["map"]
refresh_mangadex_map(r, id, fresh, o) ==
    /\ run[r].pc = "map"
    /\ LET got == _resolved(r, id)
           s == IF got = 0 THEN "none" ELSE o.src
           kept == IF run[r].apply /\ got # 0
                   THEN [fld EXCEPT !["ref"] = SelectedRef(r, got, fresh), !["map"] = SelectedMap(s)]
                   ELSE fld
           bad == got = 0 \/ (s = "none" /\ o.failed)
       IN /\ fld' = kept
          /\ cand' = [cand EXCEPT !["ref"]["mangadex"] = IF got # 0 /\ fresh THEN got ELSE @,
                                  !["map"] = [t \in Source |-> IF t = s THEN 1 ELSE @[t]]]
          /\ Continues(r, kept, IF s = "none" THEN Warned(r) ELSE run[r].res,
                       IF bad THEN mark_source_failure("map") ELSE mark_source_success("map"))
    /\ UNCHANGED <<edition, Bounds>>

\* v = 0: quota, an error or too little data.
fetch_edition_volume_count(r, v) ==
    /\ run[r].pc = "edition"
    /\ LET kept == IF v # 0 /\ run[r].apply /\ ~fld["count"].locked
                   THEN _record_selection("count", v, "books") ELSE fld
       IN fld' = kept /\ \E res \in {run[r].res, Warned(r)} : Continues(r, kept, res, source)
    /\ cand' = record_metadata_candidates("count", "books", v)
    /\ UNCHANGED <<edition, Bounds>>

\* The chapter manifest and the cover, the last stage.
refresh_series_cover ==
    /\ run["full"].pc = "rest"
    /\ \E res \in {run["full"].res, Warned("full")} : Continues("full", fld, res, source)
    /\ UNCHANGED <<fld, cand, edition, Bounds>>

(***************************************************************************)
(* The user.                                                                *)
(***************************************************************************)
UserStep == edits < MaxEdits /\ edits' = edits + 1
            /\ UNCHANGED <<edition, status, known, source, run, runs, stops>>

\* edit_series and the JSON patch: a value makes the field manual and locked,
\* clearing the count hands it back.
record_manual_metadata(f, v) ==
    /\ UserStep /\ fld' = _record_selection(f, v, "manual")
    /\ cand' = record_metadata_candidates(f, "manual", v)
cleared_counts == UserStep /\ fld' = _record_selection("count", 0, "anilist") /\ UNCHANGED cand
set_metadata_field_lock(f, b) ==
    /\ UserStep /\ fld[f].locked # b /\ fld' = [fld EXCEPT ![f].locked = b] /\ UNCHANGED cand
\* A lower count needs the user's confirmation, which is allow.
apply_metadata_candidate(f, s, allow) ==
    /\ UserStep /\ ~fld[f].locked /\ cand[f][s] # 0
    /\ f = "count" /\ cand[f][s] < fld[f].val => allow
    /\ fld' = [fld EXCEPT ![f] = [val |-> cand[f][s], src |-> s, locked |-> FALSE]]
    /\ UNCHANGED cand
\* Every unlocked field whose candidates agree, none of them lower.
_priority == <<"books", "mangaupdates", "local", "mangadex", "fallback", "anilist">>
_apply_safe_metadata_candidate(f) ==
    LET c == {i \in 1..6 : cand[f][_priority[i]] # 0}
        top == _priority[CHOOSE i \in c : \A j \in c : i <= j]
    IN IF fld[f].locked \/ Cardinality({cand[f][_priority[i]] : i \in c}) # 1
          \/ (f = "count" /\ cand[f][top] < fld[f].val)
       THEN fld[f] ELSE [val |-> cand[f][top], src |-> top, locked |-> FALSE]
apply_recommended_candidates ==
    /\ UserStep /\ fld' = [f \in Field |-> _apply_safe_metadata_candidate(f)]
    /\ fld' # fld /\ UNCHANGED cand

User ==
    \/ \E f \in {"count", "map"}, v \in 1..2 : (f = "map" => v = 1) /\ record_manual_metadata(f, v)
    \/ cleared_counts
    \/ \E f \in Field, b \in BOOLEAN : set_metadata_field_lock(f, b)
    \/ \E f \in Field, s \in Source, allow \in BOOLEAN : apply_metadata_candidate(f, s, allow)
    \/ apply_recommended_candidates

(***************************************************************************)
(* A restart ends every refresh; init_db repairs what it left.              *)
(***************************************************************************)
Interrupted(st) == IF st = "refreshing" THEN "interrupted" ELSE st
Repaired(st) == IF st = "refreshing" THEN (IF known THEN "degraded" ELSE "pending") ELSE st
restart ==
    /\ stops < MaxStops /\ stops' = stops + 1 /\ \E r \in Refresher : run[r].pc # "idle"
    /\ run' = [r \in Refresher |-> Idle]
    /\ status' = Repaired(status)
    /\ source' = [s \in DOMAIN source |-> Interrupted(source[s])]
    /\ UNCHANGED <<fld, cand, edition, known, edits, runs>>

Answers ==
    \/ \E a \in {<<0, 0>>, <<1, 0>>, <<2, 0>>, <<1, 2>>} : _apply_anilist_record(a[1], a[2])
    \/ \E v \in {0, 2}, ok \in BOOLEAN : fetch_mu_metadata(v, ok)
    \/ \E r \in Refresher, id \in 0..1, fresh \in BOOLEAN, o \in MapOutcomes :
            refresh_mangadex_map(r, id, fresh, o)
    \/ \E r \in Refresher, v \in {0, 1} : fetch_edition_volume_count(r, v)
    \/ refresh_series_cover

Next ==
    \/ \E apply, force \in BOOLEAN : refresh_series_metadata(apply, force)
    \/ refresh_series_mangadex \/ refresh_edition_metadata
    \/ Answers \/ User \/ restart
Spec == Init /\ [][Next]_vars

(***************************************************************************)
(* Properties.                                                              *)
(***************************************************************************)
\* No provider changes a field that the user has locked, however long it was
\* awaited, nor takes its lock away (the count and the chapter map).
LockedStands ==
    edits' = edits => \A f \in {"count", "map"} : fld[f].locked => fld'[f] = fld[f]

\* A series and its providers are shown as refreshing only while a refresh awaits
\* them, restarts included: none stays in the middle of one.  (The chapter map of a
\* direct refresh that raised does.)
RefreshOwned ==
    /\ status = "refreshing" => run["full"].pc # "idle" /\ run["full"].apply
    /\ source["anilist"] = "refreshing" => run["full"].pc = "anilist"
    /\ source["mu"] = "refreshing" => run["full"].pc = "mu"

\* A locked field keeps its value until the user unlocks it: the provider id too.
LockedIdStands == [][edits' = edits => (fld["ref"].locked => fld'["ref"] = fld["ref"])]_vars
=============================================================================
