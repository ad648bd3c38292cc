------------------------- MODULE AcquisitionProofs -------------------------
(***************************************************************************)
(* Proofs, for every set of releases, volumes and grabbing tasks and any   *)
(* number of upsets, of what Acquisition promises of claims and of queue   *)
(* rows.                                                                   *)
(*                                                                         *)
(* The argument rests on two facts about work under way.  A task that      *)
(* awaits the client has observed its volume free (Observed).  And a       *)
(* release that lost its claim is bound to claims, in its receipt, in its  *)
(* row and in history (LoserBound): the poll may queue it after its        *)
(* receipt is gone, and then history decides (acquisition_policy).         *)
(***************************************************************************)
EXTENDS Acquisition, TLAPS

\* A task that awaits the client has a release, whose volume was not claimed.
Observed ==
  \A t \in Task : task[t].pc # "idle" =>
    /\ task[t].url \in Url
    /\ Single(task[t].url) => task[t].obs.st # "grabbed"

\* A release that lost its claim imports only what it holds.
LoserBound ==
  \A u \in lost : /\ u \in SeenUrls => seen[u].strict
                  /\ evidence[u] = "bound"
                  /\ Active(u) => queue[u].strict

IInv == TypeOK /\ OneRowPerDownload /\ Observed /\ LoserBound

-----------------------------------------------------------------------------
(* Types *)

\* What the helpers of the actions return.
LEMMA HelperTypes ==
  ASSUME TypeOK
  PROVE  /\ Wanted \in VolumeRow /\ \A u \in Url : Claim(u) \in VolumeRow
         /\ \A S : Freed(S) \in [Volume -> VolumeRow]
         /\ \A S : Forget(S) \in [Url -> SeenRow]
         /\ \A u \in Url, tracked, strict \in BOOLEAN :
              Insert(u, tracked, strict) \in [Url -> SeenRow]
         /\ \A S : SkipFailed(S) \in [Url -> QueueRow]
         /\ Idle \in Call /\ PollIdle \in PollState /\ NoRow \in QueueRow
  <1>1. Wanted \in VolumeRow /\ \A u \in Url : Claim(u) \in VolumeRow
    BY DEF Wanted, Claim, VolumeRow
  <1>2. \A S : Freed(S) \in [Volume -> VolumeRow]
    BY <1>1 DEF Freed, TypeOK
  <1>3. NoReceipt \in SeenRow
        /\ \A r \in SeenRow : \A S : [r EXCEPT !.earlier = @ \ S] \in SeenRow
    BY DEF NoReceipt, SeenRow
  <1>4. \A S : Forget(S) \in [Url -> SeenRow]
    BY <1>3 DEF Forget, TypeOK
  <1>5. \A u \in Url, tracked, strict \in BOOLEAN :
          Insert(u, tracked, strict) \in [Url -> SeenRow]
    BY DEF Insert, SeenUrls, SeenRow, TypeOK
  <1>6. \A S : SkipFailed(S) \in [Url -> QueueRow]
    BY DEF SkipFailed, QueueRow, TypeOK
  <1>7. Idle \in Call /\ PollIdle \in PollState /\ NoRow \in QueueRow
    BY <1>1 DEF Idle, Call, PollIdle, PollState, NoRow, QueueRow
  <1>q. QED
    BY <1>1, <1>2, <1>4, <1>5, <1>6, <1>7

\* A row of the work list is done; a queue row changes its status.
LEMMA UpdateTypes ==
  /\ \A k \in PollState : \A u : [k EXCEPT !.todo = @ \ {u}] \in PollState
  /\ \A k \in QueueRow :
       /\ [k EXCEPT !.st = "skipped"] \in QueueRow
       /\ [k EXCEPT !.st = "importing"] \in QueueRow
       /\ [k EXCEPT !.st = "imported"] \in QueueRow
       /\ [k EXCEPT !.st = "failed"] \in QueueRow
  /\ \A j \in Call : [j EXCEPT !.pc = "accepted"] \in Call
  BY DEF PollState, QueueRow, Call

\* The bound on upsets is kept.
LEMMA UpsetType == ASSUME TypeOK, Upset PROVE upsets' \in 0..MaxUpsets
  BY AcquisitionAssumption DEF Upset, TypeOK

\* The target of a single-volume release is one of its volumes.
LEMMA TargetCovered == ASSUME NEW u \in Url PROVE Target(u) \in Volume
  BY AcquisitionAssumption DEF Target

\* One grab of a task keeps the types.
LEMMA GrabType ==
  ASSUME TypeOK, Observed, NEW t \in Task,
         \/ \E u \in Url : grab_item(t, u)
         \/ Grabbing(t) \/ GrabTimeout(t) \/ GrabUntracked(t)
  PROVE  TypeOK'
  <1>1. ASSUME NEW u \in Url, grab_item(t, u) PROVE TypeOK'
    <2> DEFINE o == IF Single(u) THEN vol[Target(u)] ELSE Wanted
    <2>1. o \in VolumeRow
      BY TargetCovered, HelperTypes DEF TypeOK
    <2>2. [pc |-> "sending", url |-> u, obs |-> o] \in Call
      BY <2>1 DEF Call
    <2>q. QED
      BY <1>1, <2>2 DEF grab_item, TypeOK
  <1>2. CASE ClientAccepts(t)
    <2>1. Dl[task[t].url] \in Hash
      BY <1>2 DEF ClientAccepts, Observed, Hash
    <2>q. QED
      BY <1>2, <2>1, UpdateTypes DEF ClientAccepts, TypeOK
  <1>3. CASE RecordGrab(t)
    <2> DEFINE u == task[t].url
    <2>1. u \in Url
      BY <1>3 DEF RecordGrab, Observed
    <2>2. vol' \in [Volume -> VolumeRow]
      BY <1>3, <2>1, HelperTypes DEF RecordGrab, TypeOK
    <2>3. seen' \in [Url -> SeenRow]
      <3>1. Strict(t) \in BOOLEAN /\ seen \in [Url -> SeenRow]
        BY DEF Strict, TypeOK
      <3>2. Insert(u, TRUE, Strict(t)) \in [Url -> SeenRow]
        BY <2>1, <3>1, HelperTypes
      <3>q. QED
        BY <1>3, <3>1, <3>2 DEF RecordGrab
    <2>4. poll' \in PollState
      BY <1>3, UpdateTypes DEF RecordGrab, TypeOK
    <2>5. evidence' \in [Url -> {"none", "manual", "bound"}]
      BY <1>3, <2>1 DEF RecordGrab, TypeOK
    <2>q. QED
      BY <1>3, <2>1, <2>2, <2>3, <2>4, <2>5, HelperTypes DEF RecordGrab, Return, TypeOK
  <1>4. CASE GrabTimeout(t)
    BY <1>4, HelperTypes, UpsetType DEF GrabTimeout, Return, TypeOK
  <1>5. CASE GrabUntracked(t)
    <2>1. task[t].url \in Url
      BY <1>5 DEF GrabUntracked, Observed
    <2>2. seen' \in [Url -> SeenRow]
      BY <1>5, <2>1, HelperTypes DEF GrabUntracked, TypeOK
    <2>q. QED
      BY <1>5, <2>2, HelperTypes, UpsetType DEF GrabUntracked, Return, TypeOK
  <1>q. QED
    BY <1>1, <1>2, <1>3, <1>4, <1>5 DEF Grabbing

\* One step of the poll keeps the types.
LEMMA PollType == ASSUME TypeOK, Poll PROVE TypeOK'
  <1>1. CASE ListDownloads
    BY <1>1 DEF ListDownloads, TypeOK, PollState, Present, Tracked, SeenUrls
  <1>2. CASE NextPass
    <2> DEFINE claims == {u \in Url : \E v \in Volume : vol[v] = Claim(u)}
               errors == {u \in Tracked : Dl[u] \in poll.error}
    <2>1. claims \in SUBSET Url /\ errors \in SUBSET Url
      BY DEF Tracked, SeenUrls
    <2>2. \/ poll' = [poll EXCEPT !.pc = "orphans", !.todo = claims]
          \/ poll' = [poll EXCEPT !.pc = "failures", !.todo = errors]
          \/ poll' = PollIdle
      BY <1>2 DEF NextPass
    <2> HIDE DEF claims, errors
    <2>3. /\ [poll EXCEPT !.pc = "orphans", !.todo = claims] \in PollState
          /\ [poll EXCEPT !.pc = "failures", !.todo = errors] \in PollState
      BY <2>1 DEF TypeOK, PollState
    <2>4. poll' \in PollState
      BY <2>2, <2>3, HelperTypes
    <2>q. QED
      BY <1>2, <2>4 DEF NextPass, TypeOK
  <1>3. ASSUME NEW u \in Url, _queue_import(u) PROVE TypeOK'
    <2>1. acquisition_policy(u) \in BOOLEAN
      BY DEF acquisition_policy, TypeOK, SeenRow
    <2>2. [st |-> "pending", strict |-> acquisition_policy(u)] \in QueueRow
      BY <2>1 DEF QueueRow
    <2>q. QED
      BY <1>3, <2>2, UpdateTypes DEF _queue_import, TypeOK
  <1>4. ASSUME NEW u \in Url, _cleanup_missing_downloads(u) PROVE TypeOK'
    BY <1>4, HelperTypes, UpdateTypes DEF _cleanup_missing_downloads, TypeOK
  <1>5. ASSUME NEW u \in Url, _mark_failed(u) PROVE TypeOK'
    <2>1. blocked' \subseteq Url /\ removing' \subseteq Hash
      BY <1>5 DEF _mark_failed, TypeOK, Blocks, Hash
    <2>2. vol' \in [Volume -> VolumeRow] /\ seen' \in [Url -> SeenRow]
      BY <1>5, HelperTypes DEF _mark_failed, TypeOK
    <2>3. queue' \in [Url -> QueueRow] /\ poll' \in PollState
      BY <1>5, HelperTypes, UpdateTypes DEF _mark_failed, TypeOK
    <2>q. QED
      BY <1>5, <2>1, <2>2, <2>3 DEF _mark_failed, TypeOK
  <1>q. QED
    BY <1>1, <1>2, <1>3, <1>4, <1>5 DEF Poll

\* Every other step keeps the types.
LEMMA OtherType ==
  ASSUME TypeOK,
         \/ \E h \in Hash : Complete(h) \/ Fail(h) \/ Vanish(h) \/ RemoveFromClient(h)
         \/ \E u \in Url : \/ Importing(u) \/ FailImport(u)
                           \/ _fail_stale_queue_and_reset_volume(u) \/ PruneQueue(u)
         \/ \E v \in Volume : reset_grabbed_volume(v) \/ ResetStuckClaim(v)
         \/ \E h \in Hash, block, fromClient \in BOOLEAN :
              _remove_from_queue(h, block, fromClient)
         \/ Restart
  PROVE  TypeOK'
  <1> USE UpsetType DEF TypeOK
  <1>1. ASSUME NEW h \in Hash, Complete(h) PROVE TypeOK'
    BY <1>1 DEF Complete
  <1>2. ASSUME NEW h \in Hash, Fail(h) PROVE TypeOK'
    BY <1>2 DEF Fail
  <1>3. ASSUME NEW h \in Hash, Vanish(h) PROVE TypeOK'
    BY <1>3 DEF Vanish
  <1>4. ASSUME NEW h \in Hash, RemoveFromClient(h) PROVE TypeOK'
    BY <1>4 DEF RemoveFromClient
  <1>5. ASSUME NEW u \in Url, StartImport(u) PROVE TypeOK'
    BY <1>5, UpdateTypes DEF StartImport
  <1>6. ASSUME NEW u \in Url, FinishImport(u) PROVE TypeOK'
    <2>1. [st |-> "downloaded", url |-> u] \in VolumeRow
      BY DEF VolumeRow
    <2>q. QED
      BY <1>6, <2>1, UpdateTypes DEF FinishImport
  <1>7. ASSUME NEW u \in Url, FailImport(u) PROVE TypeOK'
    <2>1. vol' \in [Volume -> VolumeRow] /\ queue' \in [Url -> QueueRow]
      BY <1>7, HelperTypes, UpdateTypes DEF FailImport
    <2>q. QED
      BY <1>7, <2>1 DEF FailImport
  <1>8. ASSUME NEW u \in Url, _fail_stale_queue_and_reset_volume(u) PROVE TypeOK'
    <2>1. vol' \in [Volume -> VolumeRow] /\ queue' \in [Url -> QueueRow]
      BY <1>8, HelperTypes, UpdateTypes DEF _fail_stale_queue_and_reset_volume
    <2>q. QED
      BY <1>8, <2>1 DEF _fail_stale_queue_and_reset_volume
  <1>9. ASSUME NEW u \in Url, PruneQueue(u) PROVE TypeOK'
    BY <1>9, HelperTypes DEF PruneQueue
  <1>10. ASSUME NEW v \in Volume, reset_grabbed_volume(v) PROVE TypeOK'
    <2>1. queue' \in [Url -> QueueRow]
      BY <1>10, UpdateTypes DEF reset_grabbed_volume, _reserve_manual_download_cleanup
    <2>2. vol' \in [Volume -> VolumeRow] /\ seen' \in [Url -> SeenRow]
      BY <1>10, HelperTypes DEF reset_grabbed_volume
    <2>q. QED
      BY <1>10, <2>1, <2>2 DEF reset_grabbed_volume
  <1>11. ASSUME NEW v \in Volume, ResetStuckClaim(v) PROVE TypeOK'
    BY <1>11, HelperTypes DEF ResetStuckClaim
  <1>12. ASSUME NEW h \in Hash, NEW block \in BOOLEAN, NEW fromClient \in BOOLEAN,
                _remove_from_queue(h, block, fromClient)
         PROVE  TypeOK'
    <2>1. blocked' \subseteq Url
      BY <1>12 DEF _remove_from_queue, Blocks, Tracked, SeenUrls
    <2>2. queue' \in [Url -> QueueRow]
      BY <1>12, UpdateTypes DEF _remove_from_queue, _reserve_manual_download_cleanup
    <2>3. vol' \in [Volume -> VolumeRow] /\ seen' \in [Url -> SeenRow]
      BY <1>12, HelperTypes DEF _remove_from_queue
    <2>q. QED
      BY <1>12, <2>1, <2>2, <2>3 DEF _remove_from_queue
  <1>13. CASE Restart
    BY <1>13, HelperTypes DEF Restart
  <1>q. QED
    BY <1>1, <1>2, <1>3, <1>4, <1>5, <1>6, <1>7, <1>8, <1>9, <1>10, <1>11, <1>12,
       <1>13 DEF Importing

-----------------------------------------------------------------------------
(* The inductive invariant *)

\* A task observes before it awaits, and awaits with what it observed.
LEMMA ObservedStep == ASSUME TypeOK, Observed, Next PROVE Observed'
  <1>1. ASSUME NEW t \in Task, NEW u \in Url, grab_item(t, u) PROVE Observed'
    BY <1>1 DEF grab_item, Observed, TypeOK, CoverageOpen, Call
  <1>2. ASSUME NEW t \in Task, ClientAccepts(t) PROVE Observed'
    BY <1>2 DEF ClientAccepts, Observed, TypeOK, Call
  <1>3. ASSUME NEW t \in Task, Return(t) PROVE Observed'
    BY <1>3 DEF Return, Observed, TypeOK, Idle
  <1>4. CASE Restart
    BY <1>4 DEF Restart, Observed, Idle
  <1>5. CASE task' = task
    BY <1>5 DEF Observed
  <1>q. QED
    BY <1>1, <1>2, <1>3, <1>4, <1>5
       DEF Next, Grabbing, RecordGrab, GrabTimeout, GrabUntracked, Poll, ListDownloads,
           NextPass, _queue_import, _cleanup_missing_downloads, _mark_failed, Complete,
           Fail, Vanish, RemoveFromClient, Importing, StartImport, FinishImport,
           FailImport, _fail_stale_queue_and_reset_volume, PruneQueue,
           reset_grabbed_volume, ResetStuckClaim, _remove_from_queue

\* Only _queue_import puts a row to work, the only one of its download; nobody
\* else raises a row, and a row at work never changes how it treats claims.
NoNewWork ==
  \A u \in Url : Active(u)' => Active(u) /\ queue'[u].strict = queue[u].strict

\* A step that puts no row to work leaves one row per download.
LEMMA OneRowKept == ASSUME OneRowPerDownload, NoNewWork PROVE OneRowPerDownload'
  BY DEF OneRowPerDownload, NoNewWork, SameDownload

\* The queue keeps one row at work per download, whichever step is taken.
LEMMA QueueStep ==
  ASSUME TypeOK, Next
  PROVE  NoNewWork \/ \E u \in Url : _queue_import(u) /\ Queueable(u)
  <1>1. CASE queue' = queue
    BY <1>1 DEF NoNewWork, Active
  <1>2. ASSUME NEW S, queue' = SkipFailed(S) PROVE NoNewWork
    BY <1>2 DEF NoNewWork, Active, SkipFailed, TypeOK, QueueRow
  <1>3. ASSUME NEW h, _reserve_manual_download_cleanup(h) PROVE NoNewWork
    BY <1>3 DEF _reserve_manual_download_cleanup, NoNewWork, Active, TypeOK, QueueRow
  <1>4. ASSUME NEW u \in Url, NEW st, queue' = [queue EXCEPT ![u].st = st],
               Active(u) \/ st \notin {"pending", "importing"}
        PROVE  NoNewWork
    BY <1>4 DEF NoNewWork, Active, TypeOK, QueueRow
  <1>5. ASSUME NEW u \in Url, PruneQueue(u) PROVE NoNewWork
    BY <1>5 DEF PruneQueue, NoNewWork, Active, NoRow, TypeOK, QueueRow
  <1>6. ASSUME NEW u \in Url, Importing(u) \/ FailImport(u)
                              \/ _fail_stale_queue_and_reset_volume(u)
        PROVE  NoNewWork
    BY <1>4, <1>6 DEF Importing, StartImport, FinishImport, FailImport,
       _fail_stale_queue_and_reset_volume, Active
  <1>7. CASE Poll
    BY <1>1, <1>2, <1>7 DEF Poll, ListDownloads, NextPass, _queue_import,
       _cleanup_missing_downloads, _mark_failed
  <1>8. CASE \/ \E v \in Volume : reset_grabbed_volume(v) \/ ResetStuckClaim(v)
             \/ \E h \in Hash, block, fromClient \in BOOLEAN :
                  _remove_from_queue(h, block, fromClient)
    BY <1>1, <1>3, <1>8 DEF reset_grabbed_volume, ResetStuckClaim, _remove_from_queue
  <1>9. CASE \E t \in Task : \/ \E u \in Url : grab_item(t, u)
                             \/ Grabbing(t) \/ GrabTimeout(t) \/ GrabUntracked(t)
    BY <1>1, <1>9 DEF grab_item, Grabbing, ClientAccepts, RecordGrab, GrabTimeout,
       GrabUntracked
  <1>10. CASE \/ \E h \in Hash : Complete(h) \/ Fail(h) \/ Vanish(h) \/ RemoveFromClient(h)
              \/ Restart
    BY <1>1, <1>10 DEF Complete, Fail, Vanish, RemoveFromClient, Restart
  <1>q. QED
    BY <1>5, <1>6, <1>7, <1>8, <1>9, <1>10 DEF Next

\* A queued row is the only one of its download, has its receipt and takes from
\* it how it treats claims.
LEMMA Queued ==
  ASSUME TypeOK, NEW u \in Url, _queue_import(u), Queueable(u)
  PROVE  /\ \A w \in Url : w # u => Active(w)' = Active(w) /\ queue'[w] = queue[w]
         /\ \A w \in Url : SameDownload(w, u) => ~Active(w)
         /\ Active(u)' /\ queue'[u].strict = acquisition_policy(u)
         /\ seen' = seen /\ lost' = lost
  <1>1. queue' = [queue EXCEPT ![u] = [st |-> "pending", strict |-> acquisition_policy(u)]]
    BY DEF _queue_import
  <1>2. \A w \in Url : w # u => Active(w)' = Active(w) /\ queue'[w] = queue[w]
    BY <1>1 DEF TypeOK, Active
  <1>3. \A w \in Url : SameDownload(w, u) => ~Active(w)
    BY DEF Queueable, Active
  <1>4. Active(u)' /\ queue'[u].strict = acquisition_policy(u)
    BY <1>1 DEF TypeOK, Active
  <1>5. seen' = seen /\ lost' = lost
    BY DEF _queue_import
  <1>q. QED
    BY <1>2, <1>3, <1>4, <1>5

\* OneRowPerDownload is preserved.
LEMMA OneRowStep == ASSUME TypeOK, OneRowPerDownload, Next PROVE OneRowPerDownload'
  <1>1. ASSUME NEW u \in Url, _queue_import(u), Queueable(u) PROVE OneRowPerDownload'
    <2> SUFFICES ASSUME NEW x \in Url, NEW y \in Url, x # y, SameDownload(x, y)
                 PROVE  ~(Active(x)' /\ Active(y)')
      BY DEF OneRowPerDownload, SameDownload
    <2>1. CASE x # u /\ y # u
      BY <1>1, <2>1, Queued DEF OneRowPerDownload
    <2>2. CASE x = u \/ y = u
      BY <1>1, <2>2, Queued DEF SameDownload
    <2>q. QED
      BY <2>1, <2>2
  <1>q. QED
    BY <1>1, QueueStep, OneRowKept

\* What is written to the table of receipts: a new receipt by a task, nothing, or
\* the loss of some receipts; history is written by a recorded grab alone.
LEMMA SeenStep ==
  ASSUME TypeOK, Next
  PROVE  \/ \E t \in Task : RecordGrab(t)
         \/ \E t \in Task : GrabUntracked(t)
         \/ /\ lost' = lost /\ evidence' = evidence
            /\ seen' = seen \/ \E S \in SUBSET Url : seen' = Forget(S)
  <1> DEFINE Lose == \E S \in SUBSET Url : seen' = Forget(S)
  <1>1. ASSUME NEW u \in Url, _cleanup_missing_downloads(u) \/ _mark_failed(u)
        PROVE  seen' = seen \/ Lose
    BY <1>1 DEF _cleanup_missing_downloads, _mark_failed
  <1>2. ASSUME NEW v \in Volume, reset_grabbed_volume(v) PROVE Lose
    <2> DEFINE u == vol[v].url
               S == {u} \cup {w \in Tracked : ~(ClaimsOf(u) # {v}) /\ SameDownload(w, u)}
    <2>1. S \in SUBSET Url
      BY <1>2 DEF reset_grabbed_volume, Tracked, SeenUrls, TypeOK, VolumeRow, Wanted
    <2>2. seen' = Forget(S)
      BY <1>2 DEF reset_grabbed_volume
    <2>q. QED
      BY <2>1, <2>2
  <1>3. ASSUME NEW h \in Hash, NEW block \in BOOLEAN, NEW fromClient \in BOOLEAN,
               _remove_from_queue(h, block, fromClient)
        PROVE  Lose
    <2> DEFINE S == {w \in Tracked : Dl[w] = h}
    <2>1. S \in SUBSET Url
      BY DEF Tracked, SeenUrls
    <2>q. QED
      BY <1>3, <2>1 DEF _remove_from_queue
  <1> HIDE DEF Lose
  <1>4. \/ \E t \in Task : RecordGrab(t) \/ GrabUntracked(t)
        \/ seen' = seen \/ Lose
    BY <1>1, <1>2, <1>3
       DEF Next, grab_item, Grabbing, ClientAccepts, GrabTimeout, Poll, ListDownloads,
           NextPass, _queue_import, Complete, Fail, Vanish, RemoveFromClient, Importing,
           StartImport, FinishImport, FailImport, _fail_stale_queue_and_reset_volume,
           PruneQueue, ResetStuckClaim, Restart
  <1>5. (\E t \in Task : RecordGrab(t)) \/ (lost' = lost /\ evidence' = evidence)
    BY DEF Next, grab_item, Grabbing, ClientAccepts, GrabTimeout, GrabUntracked, Poll,
       ListDownloads, NextPass, _queue_import, _cleanup_missing_downloads, _mark_failed,
       Complete, Fail, Vanish, RemoveFromClient, Importing, StartImport, FinishImport,
       FailImport, _fail_stale_queue_and_reset_volume, PruneQueue, ResetStuckClaim,
       reset_grabbed_volume, _remove_from_queue, Restart
  <1>q. QED
    BY <1>4, <1>5 DEF Lose

\* A task adds at most the receipt of its release, which had none.
LEMMA SeenByTask ==
  ASSUME Observed, NEW t \in Task, RecordGrab(t) \/ GrabUntracked(t)
  PROVE  \/ seen' = seen
         \/ \E u \in Url, tracked, strict \in BOOLEAN : seen' = Insert(u, tracked, strict)
  <1>1. task[t].url \in Url
    BY DEF RecordGrab, GrabUntracked, Observed
  <1>q. QED
    BY <1>1 DEF RecordGrab, GrabUntracked, Strict

\* What the two writers of receipts leave.
LEMMA ReceiptsLeft ==
  ASSUME TypeOK
  PROVE  /\ \A S \in SUBSET Url : seen' = Forget(S) =>
              /\ SeenUrls' = SeenUrls \ S
              /\ \A u \in SeenUrls' : seen'[u].strict = seen[u].strict
         /\ \A u \in Url, tracked, strict \in BOOLEAN :
              seen' = Insert(u, tracked, strict) =>
                /\ SeenUrls' = SeenUrls \cup {u}
                /\ seen'[u].strict = strict
                /\ \A w \in Url : w # u => seen'[w] = seen[w]
  <1>1. ASSUME NEW S \in SUBSET Url, seen' = Forget(S)
        PROVE  /\ SeenUrls' = SeenUrls \ S
               /\ \A u \in SeenUrls' : seen'[u].strict = seen[u].strict
    <2>1. \A u \in Url : seen'[u] = IF u \in S THEN NoReceipt
                                    ELSE [seen[u] EXCEPT !.earlier = @ \ S]
      BY <1>1 DEF Forget
    <2>2. \A u \in Url \ S : seen'[u].in = seen[u].in /\ seen'[u].strict = seen[u].strict
      <3>1. ASSUME NEW u \in Url \ S
            PROVE  seen'[u].in = seen[u].in /\ seen'[u].strict = seen[u].strict
        <4>1. seen[u] \in SeenRow /\ seen'[u] = [seen[u] EXCEPT !.earlier = @ \ S]
          BY <2>1, <3>1 DEF TypeOK
        <4>q. QED
          BY <4>1 DEF SeenRow
      <3>q. QED
        BY <3>1
    <2>3. \A u \in S : u \in Url /\ seen'[u] = NoReceipt
      BY <2>1
    <2>4. ~NoReceipt.in
      BY DEF NoReceipt
    <2>q. QED
      BY <2>2, <2>3, <2>4 DEF SeenUrls
  <1>2. ASSUME NEW u \in Url, NEW tracked \in BOOLEAN, NEW strict \in BOOLEAN,
               seen' = Insert(u, tracked, strict)
        PROVE  /\ SeenUrls' = SeenUrls \cup {u}
               /\ seen'[u].strict = strict
               /\ \A w \in Url : w # u => seen'[w] = seen[w]
    BY <1>2 DEF Insert, SeenUrls, TypeOK
  <1>q. QED
    BY <1>1, <1>2

\* LoserBound is preserved.
LEMMA LoserBoundStep ==
  ASSUME TypeOK, Observed, LoserBound, Next PROVE LoserBound'
  <1> SUFFICES ASSUME NEW u \in lost'
               PROVE  /\ u \in SeenUrls' => seen'[u].strict
                      /\ evidence'[u] = "bound"
                      /\ Active(u)' => queue'[u].strict
    BY DEF LoserBound
  <1>1. ASSUME NEW t \in Task, RecordGrab(t)
        PROVE  /\ u \in SeenUrls' => seen'[u].strict
               /\ evidence'[u] = "bound"
               /\ Active(u)' => queue'[u].strict
    <2> DEFINE w == task[t].url
    <2>1. w \in Url /\ Strict(t) \in BOOLEAN
      BY <1>1 DEF RecordGrab, Observed, Strict
    <2>2. CASE u = w
      <3>1. /\ w \notin SeenUrls /\ ClaimLost(t) /\ ~Active(w)
            /\ seen' = Insert(w, TRUE, Strict(t))
            /\ evidence' = [evidence EXCEPT ![w] =
                              IF Strict(t) THEN "bound" ELSE IF @ = "none" THEN "manual" ELSE @]
        BY <1>1, <2>2 DEF RecordGrab
      <3>2. seen'[u].strict = Strict(t) /\ Strict(t)
        BY <2>1, <2>2, <3>1, ReceiptsLeft DEF Strict
      <3>3. ~Active(u)'
        BY <1>1, <2>2, <3>1 DEF RecordGrab, Active
      <3>4. evidence'[u] = "bound"
        BY <2>1, <2>2, <3>1, <3>2 DEF TypeOK
      <3>q. QED
        BY <3>2, <3>3, <3>4
    <2>3. CASE u # w
      <3>1. u \in lost /\ u \in Url /\ queue' = queue
        BY <1>1, <2>3 DEF RecordGrab, TypeOK
      <3>2. seen' = seen \/ seen' = Insert(w, TRUE, Strict(t))
        BY <1>1 DEF RecordGrab
      <3>3. seen'[u] = seen[u]
        BY <2>1, <2>3, <3>1, <3>2, ReceiptsLeft
      <3>4. evidence'[u] = evidence[u]
        BY <1>1, <2>1, <2>3, <3>1 DEF RecordGrab, TypeOK
      <3>q. QED
        BY <3>1, <3>3, <3>4 DEF LoserBound, Active, SeenUrls
    <2>q. QED
      BY <2>2, <2>3
  <1>2. ASSUME NEW t \in Task, GrabUntracked(t)
        PROVE  /\ u \in SeenUrls' => seen'[u].strict
               /\ evidence'[u] = "bound"
               /\ Active(u)' => queue'[u].strict
    <2> DEFINE w == task[t].url
    <2>1. w \in Url /\ u \in lost /\ u \in Url /\ queue' = queue /\ evidence' = evidence
      BY <1>2 DEF GrabUntracked, Observed, TypeOK
    <2>2. seen'[u].strict \/ seen' = seen \/ (seen' = Insert(w, FALSE, TRUE) /\ u # w)
      BY <1>2, <2>1, ReceiptsLeft DEF GrabUntracked
    <2>3. seen'[u].strict \/ seen'[u] = seen[u]
      BY <2>1, <2>2, ReceiptsLeft
    <2>q. QED
      BY <2>1, <2>3 DEF LoserBound, Active, SeenUrls
  <1>3. CASE /\ lost' = lost /\ evidence' = evidence
             /\ seen' = seen \/ \E S \in SUBSET Url : seen' = Forget(S)
    <2>1. u \in lost /\ u \in Url
      BY <1>3 DEF TypeOK
    <2>2. u \in SeenUrls' => u \in SeenUrls /\ seen'[u].strict = seen[u].strict
      BY <1>3, <2>1, ReceiptsLeft DEF SeenUrls
    <2>3. (u \in SeenUrls' => seen'[u].strict) /\ evidence'[u] = "bound"
      BY <1>3, <2>1, <2>2 DEF LoserBound
    <2>4. CASE NoNewWork
      BY <2>1, <2>3, <2>4 DEF NoNewWork, LoserBound
    <2>5. ASSUME NEW w \in Url, _queue_import(w), Queueable(w)
          PROVE  Active(u)' => queue'[u].strict
      <3>1. acquisition_policy(u)
        BY <2>1 DEF acquisition_policy, LoserBound, Tracked
      <3>q. QED
        BY <2>1, <2>5, <3>1, Queued DEF LoserBound
    <2>q. QED
      BY <2>3, <2>4, <2>5, QueueStep
  <1>q. QED
    BY <1>1, <1>2, <1>3, SeenStep

\* The initial states satisfy the invariant.
LEMMA InitIInv == Init => IInv
  <1> SUFFICES ASSUME Init PROVE IInv
    OBVIOUS
  <1>1. TypeOK
    <2>1. Wanted \in VolumeRow /\ Idle \in Call /\ NoRow \in QueueRow /\ NoReceipt \in SeenRow
          /\ PollIdle \in PollState
      BY DEF Wanted, VolumeRow, Idle, Call, NoRow, QueueRow, NoReceipt, SeenRow, PollIdle,
         PollState
    <2>q. QED
      BY <2>1, AcquisitionAssumption DEF Init, TypeOK
  <1>2. OneRowPerDownload /\ LoserBound
    BY DEF Init, NoRow, OneRowPerDownload, LoserBound, Active
  <1>3. Observed
    BY DEF Init, Idle, Observed
  <1>q. QED
    BY <1>1, <1>2, <1>3 DEF IInv

\* Every step preserves the invariant.
LEMMA NextIInv == IInv /\ [Next]_vars => IInv'
  <1> SUFFICES ASSUME IInv, [Next]_vars PROVE IInv'
    OBVIOUS
  <1>1. CASE Next
    <2>1. TypeOK'
      BY <1>1, GrabType, PollType, OtherType DEF Next, IInv
    <2>q. QED
      BY <1>1, <2>1, OneRowStep, ObservedStep, LoserBoundStep DEF IInv
  <1>2. CASE UNCHANGED vars
    BY <1>2 DEF vars, IInv, TypeOK, OneRowPerDownload, Observed, LoserBound,
       Active, SeenUrls
  <1>q. QED
    BY <1>1, <1>2

\* The inductive invariant holds in every behaviour (grab_core.grab_item, the poll
\* of import_discovery, the queue routes).
THEOREM AcquisitionInvariant == Spec => []IInv
  BY InitIInv, NextIInv, PTL DEF Spec

\* A download is queued once, however many receipts name it
\* (import_discovery._deduplicate_qbit_matches, import_queue._queue_import).
THEOREM QueuedOnce == Spec => []OneRowPerDownload
  <1>1. IInv => OneRowPerDownload
    BY DEF IInv
  <1>q. QED
    BY <1>1, AcquisitionInvariant, PTL

-----------------------------------------------------------------------------
(* What a step may do to a volume *)

\* Besides a recorded grab and a finished import, a step only frees volumes, and
\* frees no volume whose download is being imported after it.
LEMMA VolumeStep ==
  ASSUME IInv, Next
  PROVE  \/ \E t \in Task : RecordGrab(t)
         \/ \E u \in Url : FinishImport(u)
         \/ \A v \in Volume :
              \/ vol'[v] = vol[v]
              \/ /\ vol'[v] = Wanted
                 /\ vol[v].st = "grabbed" =>
                      \A u \in Url : SameDownload(u, vol[v].url) => queue'[u].st # "importing"
  <1> DEFINE Frees == \A v \in Volume :
                \/ vol'[v] = vol[v]
                \/ /\ vol'[v] = Wanted
                   /\ vol[v].st = "grabbed" =>
                        \A u \in Url : SameDownload(u, vol[v].url) =>
                          queue'[u].st # "importing"
  <1>0. TypeOK /\ OneRowPerDownload
    BY DEF IInv
  <1>1. CASE vol' = vol
    BY <1>1
  <1>2. ASSUME NEW u \in Url, _cleanup_missing_downloads(u) PROVE Frees
    BY <1>0, <1>2 DEF _cleanup_missing_downloads, Freed, _reserve_orphan_cleanup, Active,
       SkipFailed, SameDownload, Claim, TypeOK, QueueRow
  <1>3. ASSUME NEW u \in Url, _mark_failed(u) PROVE Frees
    BY <1>0, <1>3 DEF _mark_failed, Freed, ClaimsOf, Active, SkipFailed, SameDownload,
       TypeOK, QueueRow
  <1>4. ASSUME NEW u \in Url, Active(u), queue' = [queue EXCEPT ![u].st = "failed"],
               vol' = Freed(ClaimsOf(u))
        PROVE  Frees
    BY <1>0, <1>4 DEF Freed, ClaimsOf, Active, SameDownload, OneRowPerDownload, TypeOK,
       QueueRow
  <1>5. ASSUME NEW v \in Volume, reset_grabbed_volume(v) PROVE Frees
    BY <1>0, <1>5 DEF reset_grabbed_volume, _reserve_manual_download_cleanup, ManualAllowed,
       Freed, SameDownload, TypeOK, QueueRow
  <1>6. ASSUME NEW h \in Hash, NEW block \in BOOLEAN, NEW fromClient \in BOOLEAN,
               _remove_from_queue(h, block, fromClient)
        PROVE  Frees
    BY <1>0, <1>6 DEF _remove_from_queue, _reserve_manual_download_cleanup, ManualAllowed,
       Freed, ClaimsOf, SameDownload, TypeOK, QueueRow
  <1>7. ASSUME NEW v \in Volume, ResetStuckClaim(v) PROVE Frees
    BY <1>0, <1>7 DEF ResetStuckClaim, Freed, SameDownload, Active, TypeOK
  <1>8. ASSUME NEW u \in Url, FailImport(u) \/ _fail_stale_queue_and_reset_volume(u)
        PROVE  Frees
    BY <1>4, <1>8 DEF FailImport, _fail_stale_queue_and_reset_volume, Active
  <1> HIDE DEF Frees
  <1>9. \/ \E t \in Task : RecordGrab(t)
        \/ \E u \in Url : FinishImport(u)
        \/ vol' = vol \/ Frees
    BY <1>2, <1>3, <1>5, <1>6, <1>7, <1>8
       DEF Next, grab_item, Grabbing, ClientAccepts, GrabTimeout, GrabUntracked, Poll,
       ListDownloads, NextPass, _queue_import, Complete, Fail, Vanish, RemoveFromClient,
       Importing, StartImport, PruneQueue, Restart
  <1>q. QED
    BY <1>1, <1>9 DEF Frees

\* A recorded grab claims only volumes that nobody has claimed.
LEMMA RecordClaimsFree ==
  ASSUME IInv, NEW t \in Task, RecordGrab(t), NEW v \in Volume
  PROVE  vol'[v] = vol[v] \/ (vol[v].st # "grabbed" /\ vol'[v].st = "grabbed")
  <1> DEFINE u == task[t].url
  <1>1. u \in Url /\ (Single(u) => task[t].obs.st # "grabbed")
    BY DEF IInv, Observed, RecordGrab
  <1>2. v \in Claimed(t) => vol[v].st # "grabbed"
    BY <1>1 DEF Claimed, ClaimLost
  <1>3. vol' = vol \/ vol'[v] = IF v \in Claimed(t) THEN Claim(u) ELSE vol[v]
    BY DEF RecordGrab
  <1>q. QED
    BY <1>2, <1>3 DEF Claim

\* No grab takes over the claim of another, whatever it was awaiting meanwhile
\* (grab_core.grab_item, the comparison with single_volume_observation).
THEOREM ClaimsStand == Spec => ClaimNotStolen
  <1>1. ASSUME IInv, [Next]_vars, NEW v \in Volume, vol[v].st = "grabbed",
               vol'[v].st = "grabbed"
        PROVE  vol'[v] = vol[v]
    <2>1. CASE UNCHANGED vars
      BY <2>1 DEF vars
    <2>2. ASSUME NEW t \in Task, RecordGrab(t) PROVE vol'[v] = vol[v]
      BY <1>1, <2>2, RecordClaimsFree
    <2>3. ASSUME NEW u \in Url, FinishImport(u) PROVE vol'[v] = vol[v]
      BY <1>1, <2>3 DEF FinishImport
    <2>q. QED
      BY <1>1, <2>1, <2>2, <2>3, VolumeStep DEF Wanted
  <1>2. IInv /\ [Next]_vars =>
          [\A v \in Volume : vol[v].st = "grabbed" /\ vol'[v].st = "grabbed"
                               => vol'[v] = vol[v]]_vars
    BY <1>1
  <1>q. QED
    BY <1>2, AcquisitionInvariant, PTL DEF Spec, ClaimNotStolen

\* A release that lost its claim while the client was answering fills no volume but
\* the ones it holds (grab_core.grab_item, seen.respect_grab_claims).
THEOREM LosersBound == Spec => LoserDoesNotFill
  <1>1. ASSUME IInv, [Next]_vars, NEW v \in Volume, NEW u \in lost,
               vol'[v] = [st |-> "downloaded", url |-> u], vol'[v] # vol[v]
        PROVE  vol[v] = Claim(u)
    <2>1. CASE UNCHANGED vars
      BY <1>1, <2>1 DEF vars
    <2>2. ASSUME NEW t \in Task, RecordGrab(t) PROVE FALSE
      BY <1>1, <2>2, RecordClaimsFree
    <2>3. ASSUME NEW w \in Url, FinishImport(w) PROVE vol[v] = Claim(u)
      <3>1. vol'[v] = [st |-> "downloaded", url |-> w] /\ v \in Imports(w)
        BY <1>1, <2>3 DEF FinishImport
      <3>2. w = u
        BY <1>1, <3>1
      <3>3. queue[u].strict
        BY <1>1, <2>3, <3>2 DEF FinishImport, Active, IInv, LoserBound
      <3>q. QED
        BY <3>1, <3>2, <3>3 DEF Imports
    <2>q. QED
      BY <1>1, <2>1, <2>2, <2>3, VolumeStep DEF Wanted
  <1>2. IInv /\ [Next]_vars =>
          [\A v \in Volume, u \in lost :
             vol'[v] = [st |-> "downloaded", url |-> u] /\ vol'[v] # vol[v]
               => vol[v] = Claim(u)]_vars
    BY <1>1
  <1>q. QED
    BY <1>2, AcquisitionInvariant, PTL DEF Spec, LoserDoesNotFill

\* No claim is dropped under an import that reads the download
\* (import_discovery._reserve_orphan_cleanup, the routes of queue_, the timers).
THEOREM ImportHoldsClaim == Spec => ImportKeepsClaim
  <1>1. ASSUME IInv, [Next]_vars, NEW v \in Volume, vol[v].st = "grabbed",
               vol'[v] = Wanted, NEW u \in Url, SameDownload(u, vol[v].url)
        PROVE  queue'[u].st # "importing"
    <2>1. CASE UNCHANGED vars
      BY <1>1, <2>1 DEF vars, Wanted
    <2>2. ASSUME NEW t \in Task, RecordGrab(t) PROVE FALSE
      BY <1>1, <2>2, RecordClaimsFree DEF Wanted
    <2>3. ASSUME NEW w \in Url, FinishImport(w) PROVE FALSE
      BY <1>1, <2>3 DEF FinishImport, Wanted
    <2>q. QED
      BY <1>1, <2>1, <2>2, <2>3, VolumeStep DEF Wanted
  <1>2. IInv /\ [Next]_vars =>
          [\A v \in Volume :
             /\ vol[v].st = "grabbed" /\ vol'[v] = Wanted
             => \A u \in Url : SameDownload(u, vol[v].url) => queue'[u].st # "importing"]_vars
    BY <1>1
  <1>q. QED
    BY <1>2, AcquisitionInvariant, PTL DEF Spec, ImportKeepsClaim
=============================================================================
