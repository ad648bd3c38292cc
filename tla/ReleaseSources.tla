--------------------------- MODULE ReleaseSources ---------------------------
(***************************************************************************)
(* Where a release was seen: release_sources.py, release_identity.py,       *)
(* release_selections.py and the handlers that edit indexers, delay, offer  *)
(* and grab releases.                                                       *)
(*                                                                         *)
(* An indexer row carries an opaque scope that is bound anew whenever its   *)
(* type or endpoint changes.  A fetch captures the scope before its I/O;    *)
(* the release travels with it through the delay queue or a selection       *)
(* receipt, and the grab compares it with the row again.  A block is kept   *)
(* under (scope, guid), so that it holds whatever the URL is.               *)
(*                                                                         *)
(* One Prowlarr row, the row of one of its sub-indexers once imported, and  *)
(* one release (one guid) of that sub-indexer, seen under several URLs.     *)
(***************************************************************************)
EXTENDS Naturals

CONSTANTS Url,
          MaxEdits,    \* bound: edits of the indexer rows
          MaxFetches   \* bound: fetches

VARIABLES
    ix,      \* row -> [on, en, ep, scope]; en: enabled, tagged and used for the purpose
    toks,    \* scope tokens drawn so far (secrets.token_hex)
    gen,     \* history: configuration of the Prowlarr row, and the one the child was bound to
    sync,    \* a prowlarr sync that is awaiting the list: the parent row it read, or NoSync
    found,   \* a release a poll or a search has fetched, or NoItem
    pend,    \* the pending release, or NoItem
    sel,     \* the selection receipt, or NoItem
    grab,    \* [pc, item] of a grab
    seen,    \* the release of the last grab recorded, or NoItem
    blocks,  \* blocklist: set of [url, id, scope, gen]
    edits, fetches
vars == <<ix, toks, gen, sync, found, pend, sel, grab, seen, blocks, edits, fetches>>

Row == {"parent", "child"}
Endpoint == {"A", "B"}
Scope(t, sub) == [tok |-> t, sub |-> sub]
ScopeSet == [tok : 0..(MaxEdits + 1), sub : BOOLEAN]
NoItem == [row |-> "none", scope |-> Scope(0, FALSE), url |-> CHOOSE u \in Url : TRUE,
           id |-> FALSE, ep |-> "A", gen |-> 0]
NoSync == [pc |-> "idle", ep |-> "A", scope |-> Scope(0, FALSE)]
ItemSet == [row : Row \cup {"none", "posted"}, scope : ScopeSet, url : Url, id : BOOLEAN,
            ep : Endpoint, gen : 0..(MaxEdits + 1)]

TypeOK ==
    /\ ix \in [Row -> [on : BOOLEAN, en : BOOLEAN, ep : Endpoint, scope : ScopeSet]]
    /\ toks \in 0..(MaxEdits + 1) /\ gen \in [Row -> 0..(MaxEdits + 1)]
    /\ sync \in [pc : {"idle", "await"}, ep : Endpoint, scope : ScopeSet]
    /\ {found, pend, sel, seen} \subseteq ItemSet
    /\ grab \in [pc : {"idle", "check", "io"}, item : ItemSet]
    /\ blocks \subseteq [url : Url, id : BOOLEAN, scope : ScopeSet, gen : 0..(MaxEdits + 1)]

Init ==
    /\ ix = [r \in Row |-> [on |-> r = "parent", en |-> TRUE, ep |-> "A",
                            scope |-> Scope(IF r = "parent" THEN 1 ELSE 0, FALSE)]]
    /\ toks = 1 /\ gen = [r \in Row |-> IF r = "parent" THEN 1 ELSE 0]
    /\ sync = NoSync /\ found = NoItem /\ pend = NoItem /\ sel = NoItem
    /\ grab = [pc |-> "idle", item |-> NoItem] /\ seen = NoItem /\ blocks = {}
    /\ edits = 0 /\ fetches = 0

Items == <<found, pend, sel, grab, seen, blocks, fetches>>

(***************************************************************************)
(* The rows.                                                                *)
(***************************************************************************)
\* The row's endpoint is the parent's facade for the sub-indexer.
facade_matches(row, ep) == row.ep = ep

\* An unchanged type and endpoint keeps the scope; anything else draws a token.
bind_indexer_scope(old, new) ==
    [new EXCEPT !.scope = IF new.ep = old.ep THEN old.scope ELSE Scope(toks + 1, FALSE)]

edit_indexer(r, ep, en) ==
    LET row == bind_indexer_scope(ix[r], [ix[r] EXCEPT !.ep = ep, !.en = en])
    IN /\ edits < MaxEdits /\ edits' = edits + 1
       /\ ix[r].on /\ (ep # ix[r].ep \/ en # ix[r].en)
       /\ ix' = [ix EXCEPT ![r] = row]
       /\ IF ep = ix[r].ep THEN UNCHANGED <<toks, gen>>
          ELSE /\ toks' = toks + 1
               /\ gen' = [gen EXCEPT ![r] = IF r = "parent" THEN toks + 1 ELSE 0]
       /\ UNCHANGED sync /\ UNCHANGED Items

\* The API's routes do the same.
api_v1_update_indexer(r, ep, en) == edit_indexer(r, ep, en)

delete_indexer(r) ==
    /\ edits < MaxEdits /\ edits' = edits + 1 /\ ix[r].on
    /\ ix' = [ix EXCEPT ![r].on = FALSE]
    /\ UNCHANGED <<toks, gen, sync>> /\ UNCHANGED Items

api_v1_delete_indexer(r) == delete_indexer(r)

\* The sync reads the parent, asks Prowlarr, and commits if the parent is
\* unchanged; a row that has moved away from the facade is left alone.
prowlarr_sync_start ==
    /\ edits < MaxEdits /\ edits' = edits + 1
    /\ ix["parent"].on /\ sync.pc = "idle"
    /\ sync' = [pc |-> "await", ep |-> ix["parent"].ep, scope |-> ix["parent"].scope]
    /\ UNCHANGED <<ix, toks, gen>> /\ UNCHANGED Items
ParentUnchanged ==
    ix["parent"].on /\ ix["parent"].scope = sync.scope /\ ix["parent"].ep = sync.ep
Imported(en) ==
    [ix EXCEPT !["parent"].en = FALSE,
               !["child"] = [on |-> TRUE, en |-> en, ep |-> sync.ep,
                             scope |-> Scope(sync.scope.tok, TRUE)]]
prowlarr_sync_commit(en) ==
    /\ sync.pc = "await" /\ sync' = NoSync
    /\ IF ~ParentUnchanged \/ (ix["child"].on /\ ~facade_matches(ix["child"], sync.ep))
       THEN en /\ UNCHANGED <<ix, gen>>
       ELSE /\ IF ix["child"].on
               THEN en /\ ix' = [ix EXCEPT !["child"].scope = Scope(sync.scope.tok, TRUE)]
               ELSE ix' = Imported(en)
            /\ gen' = [gen EXCEPT !["child"] = gen["parent"]]
    /\ UNCHANGED <<toks, edits>> /\ UNCHANGED Items

(***************************************************************************)
(* Releases.  The request is captured before the I/O; the Prowlarr row does *)
(* not ask for a sub-indexer that an eligible child owns.  A response whose *)
(* protocol is not the one expected carries the request and no identity.    *)
(***************************************************************************)
_active_indexer_rows(r) == ix[r].on /\ ix[r].en
_prowlarr_child_ownership == _active_indexer_rows("child")
capture_source_request(r, u, id) ==
    [row |-> r, scope |-> ix[r].scope, url |-> u, id |-> id, ep |-> ix[r].ep,
     gen |-> gen[r]]
fetch_all_rss(r, u, id) ==
    /\ fetches < MaxFetches /\ fetches' = fetches + 1 /\ found = NoItem
    /\ _active_indexer_rows(r) /\ (r = "parent" => ~_prowlarr_child_ownership)
    /\ found' = capture_source_request(r, u, id)
    /\ UNCHANGED <<ix, toks, gen, sync, pend, sel, grab, seen, blocks, edits>>
search_all_indexers(r, u, id) == fetch_all_rss(r, u, id)

\* Mutation of source_scope: the scope of the row, also for a Prowlarr row.
source_scope_of_row(i) == i.scope
\* The identity of a sub-indexer seen through its parent is that of its own row.
source_scope(i) == IF i.row = "parent" THEN Scope(i.scope.tok, TRUE) ELSE i.scope

is_blocked(i) == \/ \E b \in blocks : b.url = i.url
                 \/ i.id /\ \E b \in blocks : b.id /\ b.scope = source_scope(i)
\* A posted URL has no request: absence is not staleness.
_source_is_current(i) == _active_indexer_rows(i.row) /\ ix[i.row].scope = i.scope
item_source_is_current(i) == i.row = "posted" \/ _source_is_current(i)

Start(i) == grab.pc = "idle" /\ grab' = [pc |-> "check", item |-> i]
Config == <<ix, toks, gen, sync, edits, fetches>>

\* poll_rss: a blocked release is passed over, a delayed one waits under its first
\* evidence, one that has waited long enough or needs not wait is grabbed.
poll_rss ==
    /\ found # NoItem /\ found' = NoItem
    /\ \/ is_blocked(found) /\ UNCHANGED <<pend, grab>>
       \/ ~is_blocked(found) /\ pend = NoItem /\ pend' = found /\ UNCHANGED grab
       \/ ~is_blocked(found) /\ Start(found)
          /\ pend' = IF pend.url = found.url THEN NoItem ELSE pend
    /\ UNCHANGED <<sel, seen, blocks>> /\ UNCHANGED Config

force_grab_pending ==
    /\ pend # NoItem /\ item_source_is_current(pend) /\ Start(pend) /\ pend' = NoItem
    /\ UNCHANGED <<found, sel, seen, blocks>> /\ UNCHANGED Config
dismiss_pending_release ==
    /\ pend # NoItem /\ pend' = NoItem
    /\ UNCHANGED <<found, sel, grab, seen, blocks>> /\ UNCHANGED Config

\* A search offers what is not blocked and has an identity, if its source stands.
search_volume_releases(i) == i.id /\ ~is_blocked(i)
issue_selections ==
    /\ found # NoItem /\ found' = NoItem
    /\ search_volume_releases(found) /\ item_source_is_current(found) /\ sel' = found
    /\ UNCHANGED <<pend, grab, seen, blocks>> /\ UNCHANGED Config
consume_selection ==
    /\ sel # NoItem /\ item_source_is_current(sel) /\ Start(sel) /\ sel' = NoItem
    /\ UNCHANGED <<found, pend, seen, blocks>> /\ UNCHANGED Config
\* Receipts expire and do not survive a restart, nor does what was fetched.
clear_selection_evidence ==
    /\ sel # NoItem /\ sel' = NoItem /\ found' = NoItem
    /\ UNCHANGED <<pend, grab, seen, blocks>> /\ UNCHANGED Config
grab_volume_release(u) ==
    /\ Start([NoItem EXCEPT !.row = "posted", !.url = u])
    /\ UNCHANGED <<found, pend, sel, seen, blocks>> /\ UNCHANGED Config

\* grab_item: both checks in one read, then the client, then the record.
grab_item ==
    /\ grab.pc = "check"
    /\ grab' = IF item_source_is_current(grab.item) /\ ~is_blocked(grab.item)
               THEN [grab EXCEPT !.pc = "io"] ELSE [pc |-> "idle", item |-> NoItem]
    /\ UNCHANGED <<found, pend, sel, seen, blocks>> /\ UNCHANGED Config
record_grab(ok) ==
    /\ grab.pc = "io" /\ grab' = [pc |-> "idle", item |-> NoItem]
    /\ seen' = IF ok THEN grab.item ELSE seen
    /\ UNCHANGED <<found, pend, sel, blocks>> /\ UNCHANGED Config

(***************************************************************************)
(* The blocklist: an anchor by URL, with the identity recorded at the grab. *)
(***************************************************************************)
add_block ==
    /\ seen # NoItem /\ seen' = NoItem
    /\ blocks' = blocks \cup {[url |-> seen.url, id |-> seen.id, scope |-> source_scope(seen),
                               gen |-> seen.gen]}
    /\ UNCHANGED <<found, pend, sel, grab>> /\ UNCHANGED Config
delete_blocklist_entry(u) ==
    /\ \E b \in blocks : b.url = u
    /\ blocks' = {b \in blocks : b.url # u}
    /\ UNCHANGED <<found, pend, sel, grab, seen>> /\ UNCHANGED Config

Next ==
    \/ \E r \in Row, ep \in Endpoint, en \in BOOLEAN :
          edit_indexer(r, ep, en) \/ api_v1_update_indexer(r, ep, en)
    \/ \E r \in Row : delete_indexer(r) \/ api_v1_delete_indexer(r)
    \/ prowlarr_sync_start
    \/ \E en \in BOOLEAN : prowlarr_sync_commit(en)
    \/ \E r \in Row, u \in Url, id \in BOOLEAN :
          fetch_all_rss(r, u, id) \/ search_all_indexers(r, u, id)
    \/ poll_rss \/ force_grab_pending \/ dismiss_pending_release
    \/ issue_selections \/ consume_selection \/ clear_selection_evidence
    \/ \E u \in Url : grab_volume_release(u) \/ delete_blocklist_entry(u)
    \/ grab_item \/ (\E ok \in BOOLEAN : record_grab(ok))
    \/ add_block

Spec == Init /\ [][Next]_vars

-----------------------------------------------------------------------------
Admitted == grab.pc = "check" /\ grab'.pc = "io" /\ grab.item.row # "posted"

(***************************************************************************)
(* A release that was seen at one endpoint is never sent to a client once   *)
(* its indexer is deleted, disabled or points elsewhere, however long it    *)
(* waited in the delay queue or as a receipt and whatever edits the row     *)
(* went through (grab_core.grab_item, release_sources._source_is_current).  *)
(***************************************************************************)
SourceStands ==
    Admitted => LET row == ix[grab.item.row]
                IN row.on /\ row.en /\ row.ep = grab.item.ep

(***************************************************************************)
(* While the Prowlarr row keeps its configuration, a release of a           *)
(* sub-indexer that was blocked is grabbed neither through the row of the   *)
(* sub-indexer nor through Prowlarr's fan-out, under any URL, until the     *)
(* block is deleted (release_identity.is_blocked).                          *)
(***************************************************************************)
BlockHoldsOnBothWays ==
    Admitted /\ grab.item.id /\ grab.item.gen # 0 =>
      ~\E b \in blocks : b.id /\ b.gen = grab.item.gen
=============================================================================
