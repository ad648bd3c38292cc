---------------------------- MODULE Acquisition ----------------------------
(***************************************************************************)
(* How a release becomes a download and a download becomes a queue row:    *)
(* grab_item, which claims the volumes of a release around one awaited     *)
(* call to the download client; the download poll, which queues completed  *)
(* downloads and drops the claims of vanished ones; the manual queue       *)
(* routes; and the timers that free stuck claims.  The import itself is    *)
(* the module ImportPipeline; here it is one step that starts and one that *)
(* ends.                                                                   *)
(*                                                                         *)
(* A release is its URL.  Dl is the identity the client gives its content  *)
(* (mirrors share it), Guid the indexer's guid, Covers the volumes that    *)
(* the title names: one for a single volume, more for a pack.              *)
(***************************************************************************)
EXTENDS Naturals, FiniteSets

CONSTANTS
    Url, Volume, Task,
    Manual,      \* tasks that grab with respect_monitoring = False
    Covers,      \* [Url -> SUBSET Volume]
    Dl,          \* [Url -> download id]
    Guid,        \* [Url -> guid or NoGuid]
    NoUrl, NoGuid,
    MaxUpsets    \* bound on timeouts, restarts, failed or lost downloads, queue
                 \* operations by the user and week-old rows pruned

ASSUME AcquisitionAssumption ==
    /\ Manual \subseteq Task
    /\ Covers \in [Url -> SUBSET Volume] /\ \A u \in Url : Covers[u] # {}
    /\ NoUrl \notin Url
    /\ MaxUpsets \in Nat

VARIABLES
    vol,       \* [Volume -> [st, url]]: a row of volumes and the claim it holds
    seen,      \* the table seen, one row per URL (its primary key): [in, tracked,
               \* strict, earlier], with the rows a scan returns before it
    grabbing,  \* grab_dedup._GRABBING_URLS, in memory
    blocked,   \* URLs the blocklist refuses
    client,    \* the download client: download id -> state
    task,      \* [Task -> [pc, url, obs]]: grab_item calls under way
    queue,     \* [Url -> [st, strict]]: the import_queue row of this acquisition
    receipts,  \* URLs with an imported or import_skipped history row
    poll,      \* the single-flight download poll: its listing and its work list
    removing,  \* downloads a route has untracked and is about to remove
    evidence,  \* [Url -> what its grabs in history say of the claims of its import]
    upsets,
    lost       \* history: releases whose grab lost its claim while it was awaited,
               \* and whose row was not at work already

vars == <<vol, seen, grabbing, blocked, client, task, queue, receipts, poll,
          removing, evidence, upsets, lost>>

Hash == {Dl[u] : u \in Url}

Wanted == [st |-> "wanted", url |-> NoUrl]

Claim(u) == [st |-> "grabbed", url |-> u]

Idle == [pc |-> "idle", url |-> NoUrl, obs |-> Wanted]

NoReceipt == [in |-> FALSE, tracked |-> FALSE, strict |-> TRUE, earlier |-> {}]

NoRow == [st |-> "none", strict |-> TRUE]

PollIdle == [pc |-> "idle", present |-> {}, done |-> {}, error |-> {}, todo |-> {}]

Single(u) == Cardinality(Covers[u]) = 1

\* the one volume of a single-volume release
Target(u) == CHOOSE v \in Covers[u] : TRUE

SeenUrls == {u \in Url : seen[u].in}

\* one download by its client's identity: owner, protocol and normalized id
SameDownload(u, w) == Dl[u] = Dl[w]

\* the volumes whose claim is on u's download, whatever URL it came by
ClaimsOf(u) == {v \in Volume : vol[v].st = "grabbed" /\ SameDownload(vol[v].url, u)}

Freed(S) == [v \in Volume |-> IF v \in S THEN Wanted ELSE vol[v]]

\* a receipt is inserted after the ones that are there
Insert(u, tracked, strict) ==
    [seen EXCEPT ![u] = [in |-> TRUE, tracked |-> tracked, strict |-> strict,
                         earlier |-> SeenUrls]]

\* the receipts of S are deleted
Forget(S) == [u \in Url |-> IF u \in S THEN NoReceipt
                            ELSE [seen[u] EXCEPT !.earlier = @ \ S]]

\* Mutation of Active: a row that is being imported does not count.
Active_pending(u) == queue[u].st = "pending"

\* work that may still read the download: pending, partial or importing rows
Active(u) == queue[u].st \in {"pending", "importing"}

Upset == upsets < MaxUpsets /\ upsets' = upsets + 1

Present == {h \in Hash : client[h] # "absent"}

VolumeRow == {Wanted} \cup [st : {"grabbed", "downloaded"}, url : Url]
SeenRow == [in : BOOLEAN, tracked : BOOLEAN, strict : BOOLEAN, earlier : SUBSET Url]
Call == [pc : {"idle", "sending", "accepted"}, url : Url \cup {NoUrl}, obs : VolumeRow]
QueueRow == [st : {"none", "pending", "importing", "imported", "skipped", "failed"},
             strict : BOOLEAN]
PollState == [pc : {"idle", "queueing", "orphans", "failures"}, present : SUBSET Hash,
              done : SUBSET Hash, error : SUBSET Hash, todo : SUBSET Url]

TypeOK ==
    /\ vol \in [Volume -> VolumeRow]
    /\ seen \in [Url -> SeenRow]
    /\ grabbing \subseteq Url /\ blocked \subseteq Url
    /\ client \in [Hash -> {"absent", "busy", "done", "error"}]
    /\ task \in [Task -> Call]
    /\ queue \in [Url -> QueueRow]
    /\ receipts \subseteq Url /\ removing \subseteq Hash
    /\ poll \in PollState
    /\ evidence \in [Url -> {"none", "manual", "bound"}]
    /\ upsets \in 0..MaxUpsets /\ lost \subseteq Url

Init ==
    /\ vol = [v \in Volume |-> Wanted]
    /\ seen = [u \in Url |-> NoReceipt]
    /\ grabbing = {}
    /\ blocked = {}
    /\ client = [h \in Hash |-> "absent"]
    /\ task = [t \in Task |-> Idle]
    /\ queue = [u \in Url |-> NoRow]
    /\ receipts = {}
    /\ poll = PollIdle
    /\ removing = {}
    /\ evidence = [u \in Url |-> "none"]
    /\ upsets = 0
    /\ lost = {}

-----------------------------------------------------------------------------
(* grab_item *)

\* the two layers of the dedup: the URL, and the guid when the item has one
SeenBefore(u) ==
    \/ u \in SeenUrls
    \/ Guid[u] # NoGuid /\ \E w \in SeenUrls : Guid[w] = Guid[u]

\* a block covers its URL and every URL with the same observed guid
Blocks(u) == {u} \cup {w \in Url : Guid[u] # NoGuid /\ Guid[w] = Guid[u]}

\* coverage: a pack needs a wanted volume, a single one must not be in flight
\* (a downloaded volume may be grabbed again, as an upgrade)
CoverageOpen(u) ==
    IF Single(u) THEN vol[Target(u)].st # "grabbed"
                 ELSE \E v \in Covers[u] : vol[v].st = "wanted"

(* From the entry of grab_item to the awaited call of the client: all of it
   runs without an await.  Monitoring, edition, seeders, score and upgrade
   policy only ever refuse, which changes nothing; they are left out. *)
grab_item(t, u) ==
    /\ task[t].pc = "idle"
    /\ ~SeenBefore(u)
    /\ u \notin grabbing
    /\ u \notin blocked
    /\ CoverageOpen(u)
    /\ grabbing' = grabbing \cup {u}
    /\ task' = [task EXCEPT ![t] =
                   [pc |-> "sending", url |-> u,
                    obs |-> IF Single(u) THEN vol[Target(u)] ELSE Wanted]]
    /\ UNCHANGED <<vol, seen, blocked, client, queue, receipts, poll,
                   removing, evidence, upsets, lost>>

\* the client takes the release; content it already has keeps its state
ClientAccepts(t) ==
    /\ task[t].pc = "sending"
    /\ task' = [task EXCEPT ![t].pc = "accepted"]
    /\ client' = [client EXCEPT ![Dl[task[t].url]] =
                     IF @ = "absent" THEN "busy" ELSE @]
    /\ UNCHANGED <<vol, seen, grabbing, blocked, queue, receipts, poll,
                   removing, evidence, upsets, lost>>

\* the end of the awaited call: the task forgets its URL
Return(t) ==
    /\ task' = [task EXCEPT ![t] = Idle]
    /\ grabbing' = grabbing \ {task[t].url}

\* refused by an unreachable client, or more than 45 s without an answer:
\* nothing is recorded, whether or not the client took it
GrabTimeout(t) ==
    /\ task[t].pc \in {"sending", "accepted"}
    /\ Upset
    /\ Return(t)
    /\ UNCHANGED <<vol, seen, blocked, client, queue, receipts, poll,
                   removing, evidence, lost>>

\* accepted but the client does not say under which id, or answered by a
\* healthy client without an id at all: the receipt only stops retries
GrabUntracked(t) ==
    LET u == task[t].url IN
    /\ task[t].pc \in {"sending", "accepted"}
    /\ Upset
    /\ Return(t)
    /\ seen' = IF u \in SeenUrls THEN seen ELSE Insert(u, FALSE, TRUE)
    /\ UNCHANGED <<vol, blocked, client, queue, receipts, poll, removing,
                   evidence, lost>>

\* Mutation of ClaimLost: the observation is not compared after the await.
ClaimLost_ifgone(t) == FALSE

\* the observation made before the await no longer holds
ClaimLost(t) ==
    LET u == task[t].url IN Single(u) /\ vol[Target(u)] # task[t].obs

\* Mutation of Strict: the intent of the grab alone decides.
Strict_intent(t) == t \notin Manual

\* whether the import of this acquisition must hold its claims
Strict(t) == t \notin Manual \/ ClaimLost(t)

\* the volumes the accepted release claims
Claimed(t) ==
    LET u == task[t].url IN
    IF Single(u) THEN (IF ClaimLost(t) THEN {} ELSE {Target(u)})
                 ELSE {v \in Covers[u] : vol[v].st = "wanted"}

(* The transaction that records an accepted grab: the receipt in seen, the
   row in history, the claims on volumes, and whether the import must respect
   claims.  A release whose earlier download is at work (its receipt was taken
   away while the poll was queueing it) is imported as that one.  A receipt
   written anew no longer equals the one the failure pass enumerated. *)
RecordGrab(t) ==
    LET u == task[t].url IN
    /\ task[t].pc = "accepted"
    /\ Return(t)
    /\ IF u \in SeenUrls
         THEN UNCHANGED <<vol, seen, evidence>>
         ELSE /\ vol' = [v \in Volume |->
                            IF v \in Claimed(t) THEN Claim(u) ELSE vol[v]]
              /\ seen' = Insert(u, TRUE, Strict(t))
              /\ evidence' = [evidence EXCEPT ![u] =
                                 IF Strict(t) THEN "bound" ELSE IF @ = "none" THEN "manual" ELSE @]
    /\ poll' = IF poll.pc = "failures" THEN [poll EXCEPT !.todo = @ \ {u}] ELSE poll
    /\ lost' = IF u \notin SeenUrls /\ ClaimLost(t) /\ ~Active(u)
                  THEN lost \cup {u} ELSE lost \ {u}
    /\ UNCHANGED <<blocked, client, queue, receipts, removing, upsets>>

-----------------------------------------------------------------------------
(* The download client, outside the program *)

Complete(h) ==
    /\ client[h] = "busy"
    /\ client' = [client EXCEPT ![h] = "done"]
    /\ UNCHANGED <<vol, seen, grabbing, blocked, task, queue, receipts, poll,
                   removing, evidence, upsets, lost>>

\* the download stalls or its files go missing
Fail(h) ==
    /\ client[h] = "busy"
    /\ Upset
    /\ client' = [client EXCEPT ![h] = "error"]
    /\ UNCHANGED <<vol, seen, grabbing, blocked, task, queue, receipts, poll,
                   removing, evidence, lost>>

\* someone removes it in the client
Vanish(h) ==
    /\ client[h] # "absent"
    /\ Upset
    /\ client' = [client EXCEPT ![h] = "absent"]
    /\ UNCHANGED <<vol, seen, grabbing, blocked, task, queue, receipts, poll,
                   removing, evidence, lost>>

-----------------------------------------------------------------------------
(* The poll: one listing, then three passes over rows, each its own
   transaction, all judged against that listing. *)

Tracked == {u \in SeenUrls : seen[u].tracked}

\* the row whose turn it is in a pass
Turn == CHOOSE u \in poll.todo : TRUE

\* a client is polled when some row names it
HasPollWork == Tracked # {} \/ \E v \in Volume : vol[v].st = "grabbed"

\* Mutation of FirstOfDownload: untracked receipts take part.
FirstOfDownload_any(u) ==
    \A w \in SeenUrls : SameDownload(w, u) => w \notin seen[u].earlier

\* the rows that share u's download: _deduplicate_qbit_matches keeps the first
FirstOfDownload(u) ==
    \A w \in Tracked : SameDownload(w, u) => w \notin seen[u].earlier

\* the listing, and the tracked receipts to match with it
ListDownloads ==
    /\ poll.pc = "idle"
    /\ HasPollWork
    /\ poll' = [pc |-> "queueing", present |-> Present,
                done |-> {h \in Hash : client[h] = "done"},
                error |-> {h \in Hash : client[h] = "error"},
                todo |-> {u \in Tracked : FirstOfDownload(u)}]
    /\ UNCHANGED <<vol, seen, grabbing, blocked, client, task, queue,
                   receipts, removing, evidence, upsets, lost>>

\* Mutation of Queueable: only rows of the same release are looked for.
Queueable_perurl(u) ==
    Dl[u] \in poll.done /\ queue[u].st = "none" /\ u \notin receipts

\* _queue_import: an existing row, or a receipt, is authoritative; whether the
\* release is still tracked is not asked again
Queueable(u) ==
    /\ Dl[u] \in poll.done
    /\ \A w \in Url : SameDownload(w, u) => queue[w].st = "none"
    /\ u \notin receipts
    /\ \A v \in Volume : vol[v].st = "downloaded" => ~SameDownload(vol[v].url, u)

\* whether the import must hold its claims: as the receipt says, without one as
\* the grabs in history say, and it must unless they all were free of claims
acquisition_policy(u) ==
    IF u \in Tracked THEN seen[u].strict ELSE evidence[u] # "manual"

_queue_import(u) ==
    /\ poll.pc = "queueing"
    /\ u \in poll.todo /\ u = Turn
    /\ poll' = [poll EXCEPT !.todo = @ \ {u}]
    /\ queue' = IF Queueable(u)
                  THEN [queue EXCEPT ![u] = [st |-> "pending",
                                             strict |-> acquisition_policy(u)]]
                  ELSE queue
    /\ UNCHANGED <<vol, seen, grabbing, blocked, client, task, receipts,
                   removing, evidence, upsets, lost>>

\* the next pass enumerates its own rows
NextPass ==
    /\ poll.todo = {}
    /\ \/ /\ poll.pc = "queueing"
          /\ poll' = [poll EXCEPT !.pc = "orphans",
                                  !.todo = {u \in Url : \E v \in Volume : vol[v] = Claim(u)}]
       \/ /\ poll.pc = "orphans"      \* with failed_download_handling on
          /\ poll' = [poll EXCEPT !.pc = "failures",
                                  !.todo = {u \in Tracked : Dl[u] \in poll.error}]
       \/ /\ poll.pc \in {"orphans", "failures"}
          /\ poll' = PollIdle
    /\ UNCHANGED <<vol, seen, grabbing, blocked, client, task, queue,
                   receipts, removing, evidence, upsets, lost>>

\* rows that failed before are set aside with their files
SkipFailed(S) == [u \in Url |-> IF u \in S /\ queue[u].st = "failed"
                                  THEN [queue[u] EXCEPT !.st = "skipped"] ELSE queue[u]]

\* no row that may read this download; a nominal outcome refuses as well
_reserve_orphan_cleanup(u) ==
    /\ \A w \in Url : SameDownload(w, u) => ~Active(w)
    /\ queue[u].st = "failed" \/ (queue[u].st # "imported" /\ u \notin receipts)

\* claims of one download under one URL, and a receipt that does not disagree
ClaimUnforked(u) ==
    /\ \A v \in ClaimsOf(u) : vol[v].url = u
    /\ u \notin SeenUrls => \A w \in Tracked : ~SameDownload(w, u)

_cleanup_missing_downloads(u) ==
    /\ poll.pc = "orphans"
    /\ u \in poll.todo /\ u = Turn
    /\ poll' = [poll EXCEPT !.todo = @ \ {u}]
    /\ IF /\ Dl[u] \notin poll.present
          /\ \E v \in Volume : vol[v] = Claim(u)
          /\ ClaimUnforked(u)
          /\ _reserve_orphan_cleanup(u)
         THEN /\ vol' = Freed({v \in Volume : vol[v] = Claim(u)})
              /\ seen' = Forget({u})
              /\ queue' = SkipFailed({u})
         ELSE UNCHANGED <<vol, seen, queue>>
    /\ UNCHANGED <<grabbing, blocked, client, task, receipts, removing,
                   evidence, upsets, lost>>

(* _mark_failed: with failed-download handling on, a download in an error
   state is blocked, untracked and its claims freed; then it is removed from
   the client with its files. *)
_mark_failed(u) ==
    /\ poll.pc = "failures"
    /\ u \in poll.todo /\ u = Turn
    /\ poll' = [poll EXCEPT !.todo = @ \ {u}]
    /\ IF u \in Tracked /\ \A w \in Url : SameDownload(w, u) => ~Active(w)
         THEN /\ blocked' = blocked \cup Blocks(u)
              /\ vol' = Freed(ClaimsOf(u))
              /\ seen' = Forget({u})
              /\ queue' = SkipFailed({w \in Url : SameDownload(w, u)})
              /\ removing' \in {removing, removing \cup {Dl[u]}}   \* remove_failed
         ELSE UNCHANGED <<blocked, vol, seen, queue, removing>>
    /\ UNCHANGED <<grabbing, client, task, receipts, evidence, upsets, lost>>

\* the awaited removal that follows a committed untracking
RemoveFromClient(h) ==
    /\ h \in removing
    /\ removing' = removing \ {h}
    /\ client' = [client EXCEPT ![h] = "absent"]
    /\ UNCHANGED <<vol, seen, grabbing, blocked, task, queue, receipts, poll,
                   evidence, upsets, lost>>

-----------------------------------------------------------------------------
(* The import of one queue row, from outside *)

StartImport(u) ==
    /\ queue[u].st = "pending"
    /\ queue' = [queue EXCEPT ![u].st = "importing"]
    /\ UNCHANGED <<vol, seen, grabbing, blocked, client, task, receipts, poll,
                   removing, evidence, upsets, lost>>

\* a row bound to claims imports the volumes it holds, a manual one all it has
Imports(u) == {v \in Covers[u] : queue[u].strict => vol[v] = Claim(u)}

FinishImport(u) ==
    /\ queue[u].st = "importing"
    /\ vol' = [v \in Volume |-> IF v \in Imports(u)
                                  THEN [st |-> "downloaded", url |-> u] ELSE vol[v]]
    /\ queue' = [queue EXCEPT ![u].st = "imported"]
    /\ receipts' = receipts \cup {u}
    /\ UNCHANGED <<seen, grabbing, blocked, client, task, poll, removing,
                   evidence, upsets, lost>>

\* a failed import frees the claims of its download
FailImport(u) ==
    /\ queue[u].st = "importing"
    /\ Upset
    /\ queue' = [queue EXCEPT ![u].st = "failed"]
    /\ vol' = Freed(ClaimsOf(u))
    /\ UNCHANGED <<seen, grabbing, blocked, client, task, receipts, poll,
                   removing, evidence, lost>>

-----------------------------------------------------------------------------
(* The user's queue routes *)

\* importing work refuses; pending rows of the download are skipped
ManualAllowed(h) == \A u \in Url : Dl[u] = h => queue[u].st # "importing"

_reserve_manual_download_cleanup(h) ==
    /\ ManualAllowed(h)
    /\ queue' = [u \in Url |-> IF Dl[u] = h /\ queue[u].st = "pending"
                                 THEN [queue[u] EXCEPT !.st = "skipped"]
                                 ELSE queue[u]]

\* reset_grabbed_volume: one volume of the download, then its receipts: always
\* the claim's URL, the rest of the download's when no other volume holds it
reset_grabbed_volume(v) ==
    LET u == vol[v].url
        others == ClaimsOf(u) # {v}
    IN
    /\ vol[v].st = "grabbed"
    /\ Upset
    /\ _reserve_manual_download_cleanup(Dl[u])
    /\ vol' = Freed({v})
    /\ seen' = Forget({u} \cup {w \in Tracked : ~others /\ SameDownload(w, u)})
    /\ UNCHANGED <<grabbing, blocked, client, task, receipts, poll, removing,
                   evidence, lost>>

\* _remove_from_queue and _block_and_remove: untrack in one transaction, then
\* remove from the client when asked to
_remove_from_queue(h, block, fromClient) ==
    /\ \E u \in Tracked : Dl[u] = h
    /\ Upset
    /\ _reserve_manual_download_cleanup(h)
    /\ blocked' = IF block THEN blocked \cup UNION {Blocks(u) : u \in {w \in Tracked : Dl[w] = h}}
                  ELSE blocked
    /\ vol' = Freed(UNION {ClaimsOf(u) : u \in {w \in Tracked : Dl[w] = h}})
    /\ seen' = Forget({w \in Tracked : Dl[w] = h})
    /\ removing' = IF fromClient THEN removing \cup {h} ELSE removing
    /\ UNCHANGED <<grabbing, client, task, receipts, poll, evidence, lost>>

-----------------------------------------------------------------------------
(* Timers and restart *)

\* two days without an import: the claim is freed unless a row is at work
ResetStuckClaim(v) ==
    /\ vol[v].st = "grabbed"
    /\ \A u \in Url : SameDownload(u, vol[v].url) => ~Active(u)
    /\ vol' = Freed({v})
    /\ UNCHANGED <<seen, grabbing, blocked, client, task, queue, receipts,
                   poll, removing, evidence, upsets, lost>>

\* thirty days pending: the row fails and the claims of its download are freed
_fail_stale_queue_and_reset_volume(u) ==
    /\ queue[u].st = "pending"
    /\ Upset
    /\ queue' = [queue EXCEPT ![u].st = "failed"]
    /\ vol' = Freed(ClaimsOf(u))
    /\ UNCHANGED <<seen, grabbing, blocked, client, task, receipts, poll,
                   removing, evidence, lost>>

\* settled rows older than a week are deleted; their receipts stay
PruneQueue(u) ==
    /\ queue[u].st \in {"imported", "skipped"}
    /\ Upset
    /\ queue' = [queue EXCEPT ![u] = NoRow]
    /\ UNCHANGED <<vol, seen, grabbing, blocked, client, task, receipts, poll,
                   removing, evidence, lost>>

\* the process dies: calls under way, the in-flight set and the poll are gone
Restart ==
    /\ Upset
    /\ task' = [t \in Task |-> Idle]
    /\ grabbing' = {}
    /\ poll' = PollIdle
    /\ removing' = {}
    /\ UNCHANGED <<vol, seen, blocked, client, queue, receipts, evidence,
                   lost>>

-----------------------------------------------------------------------------
Grabbing(t) == ClientAccepts(t) \/ RecordGrab(t)

Poll == \/ ListDownloads \/ NextPass
        \/ \E u \in Url : _queue_import(u) \/ _cleanup_missing_downloads(u) \/ _mark_failed(u)

Importing(u) == StartImport(u) \/ FinishImport(u)

Next ==
    \/ \E t \in Task : \/ \E u \in Url : grab_item(t, u)
                       \/ Grabbing(t) \/ GrabTimeout(t) \/ GrabUntracked(t)
    \/ \E h \in Hash : Complete(h) \/ Fail(h) \/ Vanish(h) \/ RemoveFromClient(h)
    \/ Poll
    \/ \E u \in Url : \/ Importing(u) \/ FailImport(u)
                      \/ _fail_stale_queue_and_reset_volume(u) \/ PruneQueue(u)
    \/ \E v \in Volume : reset_grabbed_volume(v) \/ ResetStuckClaim(v)
    \/ \E h \in Hash, block, fromClient \in BOOLEAN : _remove_from_queue(h, block, fromClient)
    \/ Restart

Spec == Init /\ [][Next]_vars

(* The status loop polls every minute, its passes run to their end, the
   import workers run what is queued; nothing is assumed of grabs, of the
   client's progress or of the timers. *)
FairSpec == /\ Spec
            /\ WF_vars(Poll)
            /\ \A u \in Url : WF_vars(Importing(u))

-----------------------------------------------------------------------------
(* Properties *)

(* A claim is never taken over: while a volume stays grabbed its claim is the
   same, whatever grabs were awaiting the client at the time
   (grab_core.py, the comparison with single_volume_observation). *)
ClaimNotStolen ==
    [][\A v \in Volume : vol[v].st = "grabbed" /\ vol'[v].st = "grabbed"
                             => vol'[v] = vol[v]]_vars

(* A release whose claim was lost while the client was answering never fills
   a volume that is not its own, although its download is tracked, completes
   and is queued like any other, and even when it was grabbed by hand. *)
LoserDoesNotFill ==
    [][\A v \in Volume, u \in lost :
          vol'[v] = [st |-> "downloaded", url |-> u] /\ vol'[v] # vol[v]
             => vol[v] = Claim(u)]_vars

(* No claim is dropped under an import that is reading the download. *)
ImportKeepsClaim ==
    [][\A v \in Volume :
          /\ vol[v].st = "grabbed" /\ vol'[v] = Wanted
          => \A u \in Url : SameDownload(u, vol[v].url) => queue'[u].st # "importing"]_vars

(* Two receipts may name one download (mirrors sent at the same time): it is
   queued once all the same, so that no two imports move the same files. *)
OneRowPerDownload ==
    \A u, w \in Url : u # w /\ SameDownload(u, w) => ~(Active(u) /\ Active(w))

(* A completed download with a tracked receipt is not overlooked: it gets a
   queue row or has a durable outcome, unless it leaves the client or its
   receipts are given up first. *)
CompletedIsQueued ==
    \A h \in Hash :
       (client[h] = "done" /\ \E u \in Tracked : Dl[u] = h)
          ~> \/ client[h] # "done" \/ \A u \in Tracked : Dl[u] # h
             \/ \E u \in Url : Dl[u] = h /\ (queue[u].st # "none" \/ u \in receipts)
             \/ \E v \in Volume : vol[v].st = "downloaded" /\ Dl[vol[v].url] = h

(* The program calls a grab lost "removed from client" and frees its claims
   only when the client no longer has the download. *)
ClaimDroppedOnlyWhenGone ==
    [][\A u \in Url :
          _cleanup_missing_downloads(u) /\ vol' # vol
             => client[Dl[u]] = "absent"]_vars
=============================================================================
