--------------------------- MODULE SeriesCatalog ---------------------------
(***************************************************************************)
(* The volume and chapter rows of one series: the stubs that metadata       *)
(* creates (volumes.py), the chapter reconciler (reconcile_map.py), the     *)
(* handlers with which the user edits the rows (routers/series_.py), and    *)
(* the rows that grabs and imports write (grab_core.py, import_commit.py).  *)
(*                                                                         *)
(* Every handler is one transaction; what is hard is the sequence of them.  *)
(* A chapter row may stand for a range of chapters (chapter_range_end).     *)
(* Volume 0 is a special (is_special=1) with the number of volume 1: an     *)
(* import gives a special no number (import_commit.py:758-803), so this row *)
(* is there only in a database of an earlier version, as the tests seed it  *)
(* (tests/python/test_wanted_coverage.py:240-253).                          *)
(***************************************************************************)
EXTENDS Naturals

CONSTANTS MaxVolume, MaxChapter,
          MaxEdits     \* bound: transactions, the import of a special included

VARIABLES
    vols,     \* volume -> [st, mon]; st "absent": no row
    chs,      \* chapter number -> [st, mon, vol, end]: UNIQUE(series_id, chapter_num)
    cmap,     \* chapter_vol_map: chapter -> volume number, 0: no entry
    total,    \* total_volumes, 0: unknown
    series,   \* [mon, mode] of the series
    task,     \* a volume grab that is searching, or NoVolume
    edits
vars == <<vols, chs, cmap, total, series, task, edits>>

Number == 1..MaxVolume
Volume == 0..MaxVolume
NoVolume == MaxVolume + 1
Chapter == 1..MaxChapter
NumberOf(v) == IF v = 0 THEN 1 ELSE v
Special(v) == v = 0
Mode == {"all", "future", "missing", "existing", "none"}
Status == {"wanted", "grabbed", "downloaded"}

TypeOK ==
    /\ vols \in [Volume -> [st : Status \cup {"absent"}, mon : BOOLEAN]]
    /\ chs \in [Chapter -> [st : Status \cup {"absent"}, mon : BOOLEAN,
                            vol : Volume \cup {NoVolume}, end : Chapter]]
    /\ cmap \in [Chapter -> 0..MaxVolume] /\ total \in 0..MaxVolume
    /\ series \in [mon : BOOLEAN, mode : Mode] /\ task \in Volume \cup {NoVolume}

AbsentVolume == [st |-> "absent", mon |-> FALSE]
AbsentChapter(c) == [st |-> "absent", mon |-> FALSE, vol |-> NoVolume, end |-> c]
EmptySeries ==
    /\ vols = [v \in Volume |-> AbsentVolume]
    /\ chs = [c \in Chapter |-> AbsentChapter(c)]
    /\ edits = 0
\* A database of an earlier version, after one import: a chapter, or a range of them, of
\* a special that has a number; the mainline volume of that number is there or not.
NumberedSpecial ==
    \E c, end \in Chapter, first \in {AbsentVolume, [st |-> "wanted", mon |-> TRUE]} :
        /\ c <= end
        /\ vols = [v \in Volume |-> IF v = 0 THEN [st |-> "downloaded", mon |-> TRUE]
                                    ELSE IF v = 1 THEN first ELSE AbsentVolume]
        /\ chs = [d \in Chapter |->
                    IF d = c THEN [st |-> "downloaded", mon |-> TRUE, vol |-> 0, end |-> end]
                    ELSE AbsentChapter(d)]
        /\ edits = 1
Init ==
    /\ EmptySeries \/ NumberedSpecial
    /\ cmap = [c \in Chapter |-> 0] /\ total = 0
    /\ series = [mon |-> TRUE, mode |-> "all"] /\ task = NoVolume

Edit == edits < MaxEdits /\ edits' = edits + 1

(***************************************************************************)
(* The helpers of volumes.py.                                               *)
(***************************************************************************)
\* The two ways to resolve a number: the map of ids keeps the last row that has it,
\* a query the first one.  The row of a special is the later one, because its number
\* keeps a mainline stub from being created.
RowOf(vs, n) == IF n = NumberOf(0) /\ vs[0].st # "absent" THEN 0
                ELSE IF vs[n].st # "absent" THEN n ELSE NoVolume
FirstRow(vs, n) == IF vs[n].st # "absent" THEN n ELSE RowOf(vs, n)

NewStub == [st |-> "wanted", mon |-> series.mode \in {"all", "missing"}]
Stubbed(vs, n) == [v \in Volume |-> IF v \in 1..n /\ RowOf(vs, v) = NoVolume
                                    THEN NewStub ELSE vs[v]]
Linked(vs, cs, m) ==
    [c \in Chapter |->
        IF m[c] # 0 /\ cs[c].st # "absent" /\ cs[c].vol = NoVolume
        THEN [cs[c] EXCEPT !.vol = RowOf(vs, m[c])] ELSE cs[c]]

\* A range row covers the chapters up to its end; that of a special does not.
Covers(cs, d, c) ==
    cs[d].st # "absent" /\ d <= c /\ c <= cs[d].end /\ ~Special(cs[d].vol)
\* Mutation of Covered: the end of the range is not compared.
Covered_after(cs, c) ==
    \E d \in Chapter : cs[d].st # "absent" /\ d <= c /\ ~Special(cs[d].vol)
Covered(cs, c) == \E d \in Chapter : Covers(cs, d, c)
\* The entries are taken in ascending order.  INSERT OR IGNORE: a number that has a
\* row, of a special too, gets no second.
populate_chapters(vs, cs, m) ==
    LET linked == Linked(vs, cs, m)
    IN [c \in Chapter |->
          IF m[c] # 0 /\ ~Covered(linked, c) /\ linked[c].st = "absent"
          THEN [st |-> "wanted", mon |-> TRUE, vol |-> RowOf(vs, m[c]), end |-> c]
          ELSE linked[c]]

create_volume_stubs(n) ==
    /\ vols' = Stubbed(vols, n) /\ chs' = Linked(vols', chs, cmap)

\* Monitored chapters of the volumes follow them; a grab takes the wanted ones only.
\* Mutation of _cascade_chapters: a grab takes those that are there already too.
_cascade_chapters_all(cs, of, st) ==
    [c \in Chapter |-> IF cs[c].st # "absent" /\ cs[c].vol \in of /\ cs[c].mon
                       THEN [cs[c] EXCEPT !.st = st] ELSE cs[c]]
_cascade_chapters(cs, of, st) ==
    [c \in Chapter |->
        IF cs[c].st # "absent" /\ cs[c].vol \in of /\ cs[c].mon
           /\ (st = "grabbed" => cs[c].st = "wanted")
        THEN [cs[c] EXCEPT !.st = st] ELSE cs[c]]

\* The trigger of the table: when a row becomes downloaded, so does every chapter of it.
trg_vol_downloaded_cascade(vs, cs) ==
    LET became == {v \in Volume : vs[v].st = "downloaded" /\ vols[v].st # "downloaded"}
    IN [c \in Chapter |-> IF cs[c].st # "absent" /\ cs[c].vol \in became
                          THEN [cs[c] EXCEPT !.st = "downloaded"] ELSE cs[c]]

_check_volume_completion(cs, v) ==
    LET of == {c \in Chapter : cs[c].st # "absent" /\ cs[c].vol = v /\ cs[c].mon}
    IN of # {} /\ \A c \in of : cs[c].st = "downloaded"

(***************************************************************************)
(* Metadata and edits.                                                      *)
(***************************************************************************)
\* A count creates stubs and never removes any.  It is the greatest of the provider's,
\* the present one and the downloaded volumes, the locked one, or a candidate that the
\* user applied, so it may be any.
provider_count(n) ==
    /\ Edit /\ total' = n /\ create_volume_stubs(n)
    /\ UNCHANGED <<cmap, series, task>>

NoMap == [c \in Chapter |-> 0]
refresh_mangadex_map(m) ==
    /\ Edit /\ m # NoMap /\ cmap' = m /\ chs' = populate_chapters(vols, chs, m)
    /\ UNCHANGED <<vols, total, series, task>>

\* A smaller count removes the volumes above it that are still wanted; their
\* chapters lose the link.  Without a map (NoMap) the old one stays.
Dropped(n) == {v \in Volume : vols[v].st = "wanted" /\ NumberOf(v) > n}
edit_series(n, m) ==
    LET gone == IF n # 0 /\ total # 0 /\ n < total THEN Dropped(n) ELSE {}
        left == [v \in Volume |-> IF v \in gone THEN AbsentVolume ELSE vols[v]]
        loose == [c \in Chapter |-> IF chs[c].vol \in gone
                                    THEN [chs[c] EXCEPT !.vol = NoVolume] ELSE chs[c]]
        count == IF n # 0 THEN n ELSE total
        map == IF m # NoMap THEN m ELSE cmap
        linked == IF count = 0 THEN loose ELSE Linked(Stubbed(left, count), loose, map)
    IN /\ Edit /\ (n # 0 \/ m # NoMap)
       /\ total' = count /\ cmap' = map /\ vols' = Stubbed(left, count)
       /\ chs' = IF m # NoMap THEN populate_chapters(vols', linked, map) ELSE linked
       /\ UNCHANGED <<series, task>>

\* A patched count creates no stubs.
patch_series(n) ==
    /\ Edit /\ n # total /\ total' = n
    /\ UNCHANGED <<vols, chs, cmap, series, task>>

_lookup_target_vol_num(c) == cmap[c]
\* ok_move: mapped elsewhere, to the one mainline row of that number; a chapter
\* of a special is left to the user.
_chapter_plan_row(c) ==
    /\ chs[c].st # "absent" /\ ~Special(chs[c].vol) /\ _lookup_target_vol_num(c) # 0
    /\ chs[c].vol # cmap[c] /\ vols[cmap[c]].st # "absent"
reconcile_series_chapter_map ==
    /\ Edit /\ \E c \in Chapter : _chapter_plan_row(c)
    /\ chs' = [c \in Chapter |->
                 IF _chapter_plan_row(c) THEN [chs[c] EXCEPT !.vol = cmap[c]] ELSE chs[c]]
    /\ UNCHANGED <<vols, cmap, total, series, task>>

(***************************************************************************)
(* The user's handlers for volumes.                                         *)
(***************************************************************************)
Exists(v) == vols[v].st # "absent"
SetVolume(v, st) ==
    /\ vols' = [vols EXCEPT ![v].st = st]
    /\ chs' = _cascade_chapters(trg_vol_downloaded_cascade(vols', chs), {v}, st)

mark_volume_downloaded(v) ==
    /\ Edit /\ Exists(v) /\ SetVolume(v, "downloaded")
    /\ UNCHANGED <<cmap, total, series, task>>
mark_volume_wanted(v) ==
    /\ Edit /\ Exists(v) /\ SetVolume(v, "wanted")
    /\ UNCHANGED <<cmap, total, series, task>>
reset_volume_to_wanted(v) ==
    /\ Edit /\ vols[v].st = "grabbed" /\ SetVolume(v, "wanted")
    /\ UNCHANGED <<cmap, total, series, task>>
mark_all_grabbed_downloaded ==
    /\ Edit /\ \E v \in Volume : vols[v].st = "grabbed"
    /\ vols' = [v \in Volume |-> IF vols[v].st = "grabbed"
                                 THEN [vols[v] EXCEPT !.st = "downloaded"] ELSE vols[v]]
    /\ chs' = trg_vol_downloaded_cascade(vols', chs)
    /\ UNCHANGED <<cmap, total, series, task>>
toggle_volume_monitor(v) ==
    /\ Edit /\ Exists(v) /\ vols' = [vols EXCEPT ![v].mon = ~@]
    /\ UNCHANGED <<chs, cmap, total, series, task>>
toggle_monitored ==
    /\ Edit /\ series' = [series EXCEPT !.mon = ~@]
    /\ UNCHANGED <<vols, chs, cmap, total, task>>

\* The range of a pack marks the wanted volumes in it as grabbed.
set_pack_range(lo, hi) ==
    /\ Edit /\ lo <= hi
    /\ vols' = [v \in Volume |-> IF vols[v].st = "wanted" /\ NumberOf(v) \in lo..hi
                                 THEN [vols[v] EXCEPT !.st = "grabbed"] ELSE vols[v]]
    /\ vols' # vols
    /\ UNCHANGED <<chs, cmap, total, series, task>>

Newest == {v \in Volume : vols[v].st = "downloaded"
                          /\ \A u \in Volume : vols[u].st = "downloaded" =>
                                NumberOf(u) <= NumberOf(v)}
MonitoredIn(mode, v) ==
    CASE mode = "all" -> TRUE
      [] mode = "none" -> FALSE
      [] mode = "missing" -> vols[v].st = "wanted"
      [] mode = "existing" -> vols[v].st = "downloaded"
      [] mode = "future" -> \A u \in Newest : NumberOf(v) > NumberOf(u)
set_monitor_mode(mode) ==
    /\ Edit /\ mode # series.mode /\ series' = [series EXCEPT !.mode = mode]
    /\ vols' = [v \in Volume |-> [vols[v] EXCEPT !.mon = Exists(v) /\ MonitoredIn(mode, v)]]
    /\ UNCHANGED <<chs, cmap, total, task>>

(***************************************************************************)
(* The user's handlers for chapters.                                        *)
(***************************************************************************)
Present(c) == chs[c].st # "absent"
Completed(vs, cs, v) == IF v # NoVolume /\ _check_volume_completion(cs, v)
                        THEN [vs EXCEPT ![v].st = "downloaded"] ELSE vs
mark_chapter_downloaded(c) ==
    LET cs == [chs EXCEPT ![c].st = "downloaded"]
    IN /\ Edit /\ Present(c) /\ vols' = Completed(vols, cs, chs[c].vol)
       /\ chs' = trg_vol_downloaded_cascade(vols', cs)
       /\ UNCHANGED <<cmap, total, series, task>>
\* The volume keeps its status.
mark_chapter_wanted(c) ==
    /\ Edit /\ Present(c) /\ chs' = [chs EXCEPT ![c].st = "wanted"]
    /\ UNCHANGED <<vols, cmap, total, series, task>>
toggle_chapter_monitor(c) ==
    /\ Edit /\ Present(c) /\ chs' = [chs EXCEPT ![c].mon = ~@]
    /\ UNCHANGED <<vols, cmap, total, series, task>>

Uncollected == {c \in Chapter : Present(c) /\ chs[c].vol = NoVolume}
uncollected_mark_downloaded ==
    /\ Edit /\ Uncollected # {}
    /\ chs' = [c \in Chapter |->
                 IF c \in Uncollected THEN [chs[c] EXCEPT !.st = "downloaded"] ELSE chs[c]]
    /\ UNCHANGED <<vols, cmap, total, series, task>>
\* All take the opposite of the first one's value.
uncollected_toggle_monitor ==
    /\ Edit
    /\ \E first \in Uncollected :
          chs' = [c \in Chapter |-> IF c \in Uncollected
                                    THEN [chs[c] EXCEPT !.mon = ~chs[first].mon] ELSE chs[c]]
    /\ UNCHANGED <<vols, cmap, total, series, task>>

(***************************************************************************)
(* Grabs and imports.                                                       *)
(***************************************************************************)
_currently_monitored(v) == series.mon /\ series.mode # "none" /\ vols[v].mon
grab_volume(v) ==
    /\ Edit /\ task = NoVolume /\ Exists(v) /\ _currently_monitored(v) /\ task' = v
    /\ UNCHANGED <<vols, chs, cmap, total, series>>
\* After the search the row is read again; it may be gone or unmonitored.
StillWanted == task # NoVolume /\ Exists(task) /\ _currently_monitored(task)
\* A single volume is written to the first row of its number, unless that is in flight;
\* a row that is downloaded is upgraded.
grab_single ==
    LET v == FirstRow(vols, NumberOf(task))
    IN StillWanted /\ vols[v].st # "grabbed" /\ SetVolume(v, "grabbed")
\* A pack takes the wanted monitored mainline volumes of its range and makes rows for
\* those that have none; a complete pack makes none.
grab_pack(lo, hi, complete) ==
    LET taken == {v \in Number : v \in lo..hi /\ vols[v].st = "wanted" /\ vols[v].mon}
        made == {v \in Number : ~complete /\ v \in lo..hi /\ RowOf(vols, v) = NoVolume}
    IN /\ StillWanted /\ NumberOf(task) \in lo..hi /\ taken # {}
       /\ vols' = [v \in Volume |-> CASE v \in taken -> [vols[v] EXCEPT !.st = "grabbed"]
                                      [] v \in made -> [st |-> "grabbed", mon |-> TRUE]
                                      [] OTHER -> vols[v]]
       /\ chs' = _cascade_chapters(chs, taken \cup made, "grabbed")
_grab_volume_task ==
    /\ Edit /\ task # NoVolume /\ task' = NoVolume
    /\ \/ grab_single
       \/ \E lo, hi \in Number, complete \in BOOLEAN : grab_pack(lo, hi, complete)
       \/ UNCHANGED <<vols, chs>>
    /\ UNCHANGED <<cmap, total, series>>
\* A chapter grab is the user's: it needs no monitoring.
_grab_chapter_task(c) ==
    /\ Edit /\ Present(c) /\ chs[c].st = "wanted" /\ chs' = [chs EXCEPT ![c].st = "grabbed"]
    /\ UNCHANGED <<vols, cmap, total, series, task>>

\* The end of the range of a chapter's row: an import that names none (0) keeps it.
RangeEnd(c, end) == IF end # 0 THEN end ELSE IF Present(c) THEN chs[c].end ELSE c
\* An import of chapter c, or of c..end, of volume n (0: no number).  A number without a
\* row gets one; a chapter's row keeps the volume it has.  The volume that the import
\* names is complete when its chapters are.
import_chapter(c, end, n) ==
    LET at == IF n = 0 THEN NoVolume
              ELSE IF FirstRow(vols, n) # NoVolume THEN FirstRow(vols, n) ELSE n
        vs == IF n # 0 /\ FirstRow(vols, n) = NoVolume
              THEN [vols EXCEPT ![n] = [st |-> "wanted", mon |-> TRUE]] ELSE vols
        row == [st |-> "downloaded", mon |-> Present(c) => chs[c].mon,
                vol |-> IF Present(c) /\ chs[c].vol # NoVolume THEN chs[c].vol ELSE at,
                end |-> RangeEnd(c, end)]
        cs == [chs EXCEPT ![c] = row]
    IN /\ Edit /\ (end # 0 => c <= end) /\ vols' = Completed(vs, cs, at)
       /\ chs' = trg_vol_downloaded_cascade(vols', cs)
       /\ UNCHANGED <<cmap, total, series, task>>
\* An import of a volume: its row becomes downloaded, and its chapters with it.
import_volume(n) ==
    /\ Edit
    /\ IF FirstRow(vols, n) # NoVolume THEN SetVolume(FirstRow(vols, n), "downloaded")
       ELSE /\ vols' = [vols EXCEPT ![n] = [st |-> "downloaded", mon |-> TRUE]]
            /\ UNCHANGED chs
    /\ UNCHANGED <<cmap, total, series, task>>

Maps == [Chapter -> 0..MaxVolume]
Next ==
    \/ \E n \in Number : provider_count(n)
    \/ \E m \in Maps : refresh_mangadex_map(m)
    \/ \E n \in 0..MaxVolume, m \in Maps : edit_series(n, m)
    \/ \E n \in 0..MaxVolume : patch_series(n)
    \/ reconcile_series_chapter_map
    \/ \E v \in Volume : \/ mark_volume_downloaded(v) \/ mark_volume_wanted(v)
                         \/ reset_volume_to_wanted(v) \/ toggle_volume_monitor(v)
                         \/ grab_volume(v)
    \/ mark_all_grabbed_downloaded \/ toggle_monitored
    \/ \E lo, hi \in Number : set_pack_range(lo, hi)
    \/ \E mode \in Mode : set_monitor_mode(mode)
    \/ \E c \in Chapter : \/ mark_chapter_downloaded(c) \/ mark_chapter_wanted(c)
                          \/ toggle_chapter_monitor(c) \/ _grab_chapter_task(c)
    \/ uncollected_mark_downloaded \/ uncollected_toggle_monitor
    \/ _grab_volume_task
    \/ \E c \in Chapter, end \in 0..MaxChapter, n \in 0..MaxVolume :
          import_chapter(c, end, n)
    \/ \E n \in Number : import_volume(n)
Spec == Init /\ [][Next]_vars

(***************************************************************************)
(* Properties.                                                              *)
(***************************************************************************)
\* Every chapter of the map that was applied has a mainline row: its own or a range that
\* it lies in (volumes.populate_chapters, whose comment says that a special must not
\* keep a mainline stub from existing).
InMainline(c) == \E d \in Chapter : Covers(chs, d, c)
Populates == \E m \in Maps : \/ refresh_mangadex_map(m)
                             \/ \E n \in 0..MaxVolume : m # NoMap /\ edit_series(n, m)
MainlinePopulated == (\A c \in Chapter : cmap'[c] # 0 => InMainline(c)') \/ ~Populates
\* The row that a special has of a chapter does not stand for the mainline one.
MainlineNotSuppressed ==
    [][\A c \in Chapter : Present(c) /\ Special(chs[c].vol) /\ cmap'[c] # 0 /\ Populates =>
                            InMainline(c)']_vars

\* In a series without a numbered special it has, whatever the rows were, and it keeps
\* it through every edit, count, grab, reconciliation and import, unless an import names
\* a smaller end for the range it lies in (populate_chapters, edit_series,
\* reconcile_series_chapter_map, _process_chapter_import).
Narrowed(c) == \E d, end \in Chapter, n \in 0..MaxVolume :
                  d <= c /\ c <= chs[d].end /\ end < c /\ import_chapter(d, end, n)
MappedKept ==
    \/ Exists(0)
    \/ /\ MainlinePopulated
       /\ \A c \in Chapter : cmap[c] # 0 /\ InMainline(c) /\ cmap'[c] # 0 =>
                               InMainline(c)' \/ Narrowed(c)

\* A chapter's volume exists, after every edit that drops volumes too (edit_series: "the
\* chapters become orphans with a dangling FK pointer").
LinksStand == \A c \in Chapter : chs[c].vol # NoVolume => Exists(chs[c].vol)

\* Only the user's own reset makes a volume that is grabbed or downloaded wanted
\* again or removes its row: no refresh, edit, reconciliation or mode does.
Kept == \A v \in Volume : vols[v].st \in {"grabbed", "downloaded"} =>
                            vols'[v].st \in {"grabbed", "downloaded"}
UserReset(v) == mark_volume_wanted(v) \/ reset_volume_to_wanted(v)
AcquiredKept == Kept \/ \E v \in Volume : UserReset(v)

\* A chapter that is downloaded, alone or with its volume, stays so until the user marks
\* it or its volume wanted: neither a grab of its volume nor an import of another
\* chapter takes it back (_cascade_chapters).
DownloadsKept == \A c \in Chapter :
    chs[c].st = "downloaded" /\ chs'[c].st # "downloaded" =>
        mark_chapter_wanted(c) \/ \E v \in Volume : chs[c].vol = v /\ UserReset(v)
=============================================================================
