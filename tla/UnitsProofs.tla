----------------------------- MODULE UnitsProofs -----------------------------
(***************************************************************************)
(* Proofs about the components of MCUnits, for every value of their        *)
(* constants.  A step of MCUnits is a step of one component and leaves the *)
(* variables of the others alone, so each component has an inductive       *)
(* invariant over its own variables.                                       *)
(***************************************************************************)
EXTENDS MCUnits, Sequences, TLAPS

-----------------------------------------------------------------------------
(* Import workers: the registry and the tasks point at each other.         *)

\* A registered task works on its row, and its done callback has not run.
RegisteredWorks ==
    \A q \in Queue : iw_workers[q] # NoTask =>
      /\ iw_task[iw_workers[q]].row = q
      /\ iw_task[iw_workers[q]].state \notin {"new", "over"}
\* Every task that was created works on a row.
CreatedHasRow == \A t \in Task : iw_task[t].state # "new" => iw_task[t].row \in Queue
\* Nothing is admitted once the lifespan ends, and what is still registered then is
\* what the shutdown waits for.
DrainReaches ==
    /\ iw_phase # "up" => iw_accepting = FALSE
    /\ iw_phase = "draining" =>
         \A q \in Queue : iw_workers[q] # NoTask => iw_workers[q] \in iw_awaited
    /\ iw_phase = "down" => \A q \in Queue : iw_workers[q] = NoTask

WorkersInv ==
    /\ Workers!TypeOK /\ Workers!LiveWorkerRegistered
    /\ RegisteredWorks /\ CreatedHasRow /\ DrainReaches

LEMMA WorkersInit == ASSUME Workers!Init PROVE WorkersInv
  <1>1. Workers!TypeOK
    <2>1. 0 \in 0..MaxLifespans
      BY UnitsAssumption
    <2>q. QED
      BY <2>1 DEF Workers!Init, Workers!TypeOK, Workers!NotCreated
  <1>2. /\ Workers!LiveWorkerRegistered
        /\ RegisteredWorks /\ CreatedHasRow /\ DrainReaches
    BY DEF Workers!Init, Workers!LiveWorkerRegistered, RegisteredWorks, CreatedHasRow,
           DrainReaches, Workers!Alive, Workers!NotCreated
  <1>q. QED
    BY <1>1, <1>2 DEF WorkersInv

\* A row is given to a new task when none, or one that has finished, is registered.
LEMMA ScheduleKeeps ==
  ASSUME WorkersInv, NEW q \in Queue, Workers!schedule_import_worker(q)
  PROVE  WorkersInv'
  <1>1. PICK t \in Task :
          /\ iw_task[t] = Workers!NotCreated
          /\ iw_task' = [iw_task EXCEPT ![t] = [row |-> q, state |-> "running"]]
          /\ iw_workers' = [iw_workers EXCEPT ![q] = t]
    BY DEF Workers!schedule_import_worker
  <1>2. iw_accepting /\ (iw_workers[q] # NoTask => ~Workers!Alive(iw_workers[q]))
        /\ UNCHANGED <<iw_phase, iw_accepting, iw_producers, iw_awaited, iw_lifespans>>
    BY DEF Workers!schedule_import_worker, Workers!MaySchedule, Workers!Free
  <1>3. Workers!TypeOK'
    BY <1>1, <1>2 DEF WorkersInv, Workers!TypeOK
  <1>4. Workers!LiveWorkerRegistered'
    BY <1>1, <1>2, UnitsAssumption DEF WorkersInv, Workers!TypeOK, Workers!LiveWorkerRegistered, Workers!Alive,
       RegisteredWorks, Workers!NotCreated
  <1>5. RegisteredWorks' /\ CreatedHasRow'
    BY <1>1, UnitsAssumption
    DEF WorkersInv, Workers!TypeOK, RegisteredWorks, CreatedHasRow, Workers!NotCreated
  <1>6. DrainReaches'
    BY <1>1, <1>2 DEF WorkersInv, Workers!TypeOK, DrainReaches
  <1>q. QED
    BY <1>3, <1>4, <1>5, <1>6 DEF WorkersInv

\* A worker finishes, and later its done callback unregisters it.
LEMMA LoopKeeps ==
  ASSUME WorkersInv, NEW t \in Task,
         Workers!WorkerFinishes(t) \/ Workers!_on_import_worker_done(t)
  PROVE  WorkersInv'
  <1>1. CASE Workers!WorkerFinishes(t)
    BY <1>1, UnitsAssumption
    DEF Workers!WorkerFinishes, WorkersInv, Workers!TypeOK, Workers!LiveWorkerRegistered,
        Workers!Alive, RegisteredWorks, CreatedHasRow, DrainReaches
  <1>2. CASE Workers!_on_import_worker_done(t)
    BY <1>2, UnitsAssumption
    DEF Workers!_on_import_worker_done, Workers!Unregistered, WorkersInv, Workers!TypeOK,
        Workers!LiveWorkerRegistered, Workers!Alive, RegisteredWorks, CreatedHasRow,
        DrainReaches
  <1>q. QED
    BY <1>1, <1>2

LEMMA ShutdownKeeps ==
  ASSUME WorkersInv,
         \/ Workers!start_import_worker_scheduling \/ Workers!stop_import_worker_scheduling
         \/ Workers!Shutdown
  PROVE  WorkersInv'
  <1>1. CASE Workers!start_import_worker_scheduling
    BY <1>1, UnitsAssumption
    DEF Workers!start_import_worker_scheduling, WorkersInv, Workers!TypeOK,
        Workers!LiveWorkerRegistered, Workers!Alive, RegisteredWorks, CreatedHasRow,
        DrainReaches
  <1>2. CASE Workers!stop_import_worker_scheduling
    BY <1>2
    DEF Workers!stop_import_worker_scheduling, WorkersInv, Workers!TypeOK,
        Workers!LiveWorkerRegistered, Workers!Alive, RegisteredWorks, CreatedHasRow,
        DrainReaches
  <1>3. ASSUME NEW p \in Producer, Workers!_cancel_background_tasks(p) PROVE WorkersInv'
    BY <1>3
    DEF Workers!_cancel_background_tasks, WorkersInv, Workers!TypeOK,
        Workers!LiveWorkerRegistered, Workers!Alive, RegisteredWorks, CreatedHasRow,
        DrainReaches
  <1>4. CASE Workers!cancel_import_workers
    <2> DEFINE owned == {iw_workers[q] : q \in Workers!Owned}
    <2>1. \A q \in Queue : iw_workers[q] # NoTask => iw_workers[q] \in owned
      BY DEF Workers!Owned
    <2>2. owned \subseteq Task
      BY DEF Workers!Owned, WorkersInv, Workers!TypeOK
    <2>3. /\ iw_phase' = "draining" /\ iw_awaited' = owned /\ iw_phase = "stopping"
          /\ iw_task' = Workers!Cancelled(owned)
          /\ UNCHANGED <<iw_accepting, iw_workers, iw_producers, iw_lifespans>>
      BY <1>4 DEF Workers!cancel_import_workers
    <2>4. \A t \in Task : /\ iw_task'[t].row = iw_task[t].row
                          /\ iw_task'[t].state # iw_task[t].state =>
                               iw_task[t].state = "running" /\ iw_task'[t].state = "cancelling"
      BY <2>3 DEF Workers!Cancelled, WorkersInv, Workers!TypeOK
    <2>5. Workers!TypeOK'
      BY <2>2, <2>3 DEF Workers!Cancelled, WorkersInv, Workers!TypeOK
    <2>6. Workers!LiveWorkerRegistered' /\ RegisteredWorks' /\ CreatedHasRow'
      BY <2>3, <2>4
      DEF WorkersInv, Workers!TypeOK, Workers!LiveWorkerRegistered, Workers!Alive,
          RegisteredWorks, CreatedHasRow
    <2>7. DrainReaches'
      BY <2>1, <2>3 DEF WorkersInv, DrainReaches
    <2>q. QED
      BY <2>5, <2>6, <2>7 DEF WorkersInv
  <1>5. CASE Workers!LifespanEnds
    BY <1>5
    DEF Workers!LifespanEnds, Workers!Gathered, WorkersInv, Workers!TypeOK,
        Workers!LiveWorkerRegistered, Workers!Alive, RegisteredWorks, CreatedHasRow,
        DrainReaches
  <1>q. QED
    BY <1>1, <1>2, <1>3, <1>4, <1>5 DEF Workers!Shutdown

LEMMA WorkersUnchanged == ASSUME WorkersInv, UNCHANGED iw_vars PROVE WorkersInv'
  BY DEF iw_vars, WorkersInv, Workers!TypeOK, Workers!LiveWorkerRegistered, Workers!Alive,
         RegisteredWorks, CreatedHasRow, DrainReaches

\* The registry of import workers and its tasks agree in every reachable state
\* (import_workers.py).
THEOREM WorkersInvariant == Spec => []WorkersInv
  <1>1. Init => WorkersInv
    BY WorkersInit DEF Init
  <1>2. WorkersInv /\ [Next]_vars => WorkersInv'
    <2> SUFFICES ASSUME WorkersInv, [Next]_vars PROVE WorkersInv'
      OBVIOUS
    <2>1. CASE Workers!Next
      BY <2>1, ScheduleKeeps, LoopKeeps, ShutdownKeeps DEF Workers!Next, Workers!LoopStep
    <2>2. Workers!Next \/ UNCHANGED iw_vars
      BY DEF Next, RescanStep, DirectStep, QuarantineStep, IdentityStep, WorkersStep,
             ReconcileStep, vars
    <2>q. QED
      BY <2>1, <2>2, WorkersUnchanged
  <1>q. QED
    BY <1>1, <1>2, PTL DEF Spec

\* A row has one worker at work, registered where the shutdown finds it, and none is
\* left when the lifespan has ended (import_workers.schedule_import_worker,
\* _on_import_worker_done, cancel_import_workers).
THEOREM OneOwner == Spec => []WorkersOwned
  <1>1. WorkersInv => WorkersOwned
    BY UnitsAssumption
    DEF WorkersInv, WorkersOwned, Workers!OneWorkerPerRow, Workers!LiveWorkerRegistered,
        Workers!QuietWhenDown, Workers!Owned, Workers!Alive, DrainReaches, CreatedHasRow,
        Workers!TypeOK
  <1>q. QED
    BY <1>1, WorkersInvariant, PTL

-----------------------------------------------------------------------------
(* The rescan of a series: what it has read is still so while it is quiet. *)

\* A volume whose row has changed since the snapshot keeps what that change made of
\* it (rescan._recover_volume, _reset_missing_volume, _mark_volume_from_pack).
THEOREM LaterChangesStand == Spec => LaterChangeStands
  <1>1. ASSUME Reconcile!Next PROVE Reconcile!LaterChangeStands
    <2> SUFFICES ASSUME rr_pc = "validated", rr_pc' = "done", rr_vol # rr_snap.vol,
                        rr_snap.vol.st # "absent"
                 PROVE  rr_vol' = rr_vol
      BY DEF Reconcile!LaterChangeStands, Reconcile!Reconciling
    <2>1. Reconcile!reconcile_series_inventory
      BY <1>1
      DEF Reconcile!Next, Reconcile!snapshot_series_rescan,
          Reconcile!build_filesystem_inventory, Reconcile!rescan_series_folder,
          Reconcile!Again, Reconcile!Grab, Reconcile!Import, Reconcile!Delete,
          Reconcile!Edit, Reconcile!Fence, Reconcile!User
    <2>2. \A e, c : Reconcile!VolumePass(e, c) = rr_vol
      BY DEF Reconcile!VolumePass, Reconcile!_reset_missing_volume,
             Reconcile!_recover_volume, Reconcile!current_parent
    <2>3. \A e : Reconcile!StubPass(e, Reconcile!_mark_volume_from_pack(e, rr_vol)) = rr_vol
      BY DEF Reconcile!StubPass, Reconcile!_mark_volume_from_pack
    <2>q. QED
      BY <2>1, <2>2, <2>3 DEF Reconcile!reconcile_series_inventory
  <1>2. [Next]_vars => [Reconcile!LaterChangeStands]_rr_vars
    BY <1>1
    DEF Next, RescanStep, DirectStep, QuarantineStep, IdentityStep, WorkersStep,
        ReconcileStep, vars
  <1>q. QED
    BY <1>2, PTL DEF Spec, LaterChangeStands

\* What the snapshot copied, and what is observed in the folder.
Snapshot == [vol |-> rr_vol, chap |-> rr_chap, pack |-> rr_pack, context |-> rr_context,
             deleted |-> rr_deleted]
Quiet(pcs) == rr_quiet /\ rr_pc \in pcs
Inventory == Reconcile!_quarantine_recorded_volume_files(Reconcile!Observed)

ReconcileInv ==
    /\ Reconcile!TypeOK
    /\ rr_chap.path = "loose" => rr_chap.st = "downloaded"
    /\ Quiet({"snapped", "observed", "validated"}) => rr_snap = Snapshot
    /\ Quiet({"observed", "validated"}) => rr_inv = Inventory
    /\ RowsAgree

\* Nothing of the inventory is left out a second time.
LEMMA QuarantineTwice ==
  ASSUME rr_snap = Snapshot, Reconcile!TypeOK
  PROVE  /\ Reconcile!_quarantine_recorded_volume_files(Inventory) = Inventory
         /\ Reconcile!Revalidated(Inventory) = Inventory
  BY DEF Inventory, Reconcile!_quarantine_recorded_volume_files, Reconcile!Observed,
         Reconcile!Revalidated

\* What a rescan that nobody disturbed knows when it writes.
LEMMA QuietEvidence ==
  ASSUME Reconcile!TypeOK, rr_snap = Snapshot, rr_inv = Inventory
  PROVE  LET e == Reconcile!Evidence
             claims == rr_vol.st = "downloaded" /\ rr_vol.path
         IN  /\ e.vol <=> rr_fs.vol = "file" \/ (rr_fs.vol = "odd" /\ ~claims)
             /\ e.pack = rr_fs.pack
             /\ e.loose <=> rr_fs.loose \notin {"none", "twin"} /\ ~(rr_fs.loose = "alias" /\ rr_deleted)
             /\ e.missing = Reconcile!_missing_loose_observations
             /\ e.recorded = Reconcile!_recorded_volume_observations
  <1>1. Reconcile!Evidence = Inventory
    BY QuarantineTwice DEF Reconcile!Evidence, Snapshot
  <1>2. Reconcile!Claims <=> rr_vol.st = "downloaded" /\ rr_vol.path
    BY DEF Reconcile!Claims, Snapshot
  <1>3. Reconcile!_loose_chapter_inventory
          <=> rr_fs.loose \notin {"none", "twin"} /\ ~(rr_fs.loose = "alias" /\ rr_deleted)
    BY DEF Reconcile!_loose_chapter_inventory, Reconcile!_completed_volume_alias, Snapshot
  <1>q. QED
    BY <1>1, <1>2, <1>3
    DEF Inventory, Reconcile!_quarantine_recorded_volume_files, Reconcile!Observed,
        Reconcile!_recorded_volume_observations, Reconcile!TypeOK, Reconcile!Folder

\* The transaction of a rescan that nobody disturbed leaves rows that agree.
LEMMA QuietAgrees ==
  ASSUME ReconcileInv, Reconcile!reconcile_series_inventory, rr_quiet, ~rr_fence, rr_owned
  PROVE  RowsAgree'
  <1> DEFINE e == Reconcile!Evidence
             c1 == Reconcile!ChapterPass(e)
             v1 == Reconcile!VolumePass(e, c1)
             c2 == Reconcile!_cascade_chapter_snapshot(e, c1)
             v2 == Reconcile!_mark_volume_from_pack(e, v1)
             v3 == Reconcile!StubPass(e, v2)
             c3 == Reconcile!PackChapters(e, v1, c2)
  <1>1. /\ Reconcile!TypeOK /\ rr_snap = Snapshot /\ rr_inv = Inventory
    BY DEF ReconcileInv, Quiet, Reconcile!reconcile_series_inventory
  <1>2. /\ rr_vol' = v3 /\ rr_chap' = c3
        /\ rr_pack' = IF Reconcile!PackGone(e) THEN "none"
                      ELSE IF Reconcile!PackConfirmed(e) THEN "downloaded" ELSE rr_pack
        /\ UNCHANGED <<rr_fs, rr_snap>>
    BY DEF Reconcile!reconcile_series_inventory
  <1>3. /\ rr_snap.vol = rr_vol /\ rr_snap.chap = rr_chap /\ rr_snap.pack = rr_pack
        /\ Reconcile!current_parent /\ Reconcile!current_context /\ Reconcile!uniquely_owned
    BY <1>1 DEF Snapshot, Reconcile!current_parent, Reconcile!current_context,
                Reconcile!uniquely_owned
  <1>4. e.vol <=> rr_fs.vol = "file"
                 \/ (rr_fs.vol = "odd" /\ ~(rr_vol.st = "downloaded" /\ rr_vol.path))
    BY <1>1, QuietEvidence
  <1>5. /\ e.loose <=> rr_fs.loose \notin {"none", "twin"} /\ ~(rr_fs.loose = "alias" /\ rr_deleted)
        /\ e.pack = rr_fs.pack
    BY <1>1, QuietEvidence
  <1>6. e.missing =
          IF \/ e.loose \/ rr_chap.st # "downloaded" \/ rr_chap.path # "loose"
             \/ rr_fs.loose # "none" THEN "no"
          ELSE IF rr_vol.st # "downloaded" THEN "bare"
          ELSE IF rr_vol.path /\ rr_fs.vol = "file" THEN "backed" ELSE "no"
    BY <1>1, <1>3, <1>5, QuietEvidence
    DEF Reconcile!_missing_loose_observations, Reconcile!_loose_chapter_inventory,
        Reconcile!_completed_volume_alias, Reconcile!Claims, Snapshot
  <1>7. rr_vol.st = "downloaded" /\ rr_vol.path =>
          /\ rr_fs.vol = "none" => e.recorded = "absent"
          /\ rr_fs.vol = "file" => e.recorded = "present"
    BY <1>1, <1>3, QuietEvidence DEF Reconcile!_recorded_volume_observations, Reconcile!Claims
  <1> HIDE DEF e
  <1> USE <1>3
  <1>8. rr_chap \in Reconcile!Chapter /\ rr_vol \in Reconcile!Volume /\ rr_fs \in Reconcile!Folder
    BY <1>1 DEF Reconcile!TypeOK
  <1>9. c1.path = "vol" /\ c1 # rr_chap => rr_fs.vol = "file"
    BY <1>6, <1>8 DEF Reconcile!ChapterPass, Reconcile!Chapter
  \* The later passes change the status of the chapter only.
  <1>10. c1 \in Reconcile!Chapter /\ c3.path = c1.path
    BY <1>8 DEF Reconcile!ChapterPass, Reconcile!_cascade_chapter_snapshot,
                Reconcile!PackChapters, Reconcile!Chapter, Reconcile!Status
  <1>11. rr_fs.vol = "file" => v3.st = "downloaded"
    <2> SUFFICES ASSUME rr_fs.vol = "file" PROVE v3.st = "downloaded"
      OBVIOUS
    <2>1. e.vol /\ Reconcile!FileOf(e, c1) /\ ~Reconcile!_reset_missing_volume(e, c1)
      BY <1>4 DEF Reconcile!FileOf, Reconcile!_reset_missing_volume
    <2>2. CASE rr_vol.st \in {"wanted", "grabbed"}
      <3>1. v1 = [rr_vol EXCEPT !.st = "downloaded", !.path = TRUE, !.direct = FALSE]
        BY <2>1, <2>2 DEF Reconcile!VolumePass, Reconcile!_recover_volume
      <3>q. QED
        BY <3>1, <1>8
        DEF Reconcile!StubPass, Reconcile!_mark_volume_from_pack, Reconcile!Volume
    <2>3. CASE rr_vol.st \notin {"wanted", "grabbed"}
      <3>1. v1 = rr_vol
        BY <2>1, <2>3 DEF Reconcile!VolumePass, Reconcile!_recover_volume
      <3>q. QED
        BY <3>1, <2>1, <2>3, <1>8
        DEF Reconcile!StubPass, Reconcile!_mark_volume_from_pack, Reconcile!Volume,
            Reconcile!Status
    <2>q. QED
      BY <2>2, <2>3
  <1>12. v3.st = "downloaded" /\ v3.path => rr_fs.vol # "none" \/ rr_pack' # rr_snap.pack
    <2> SUFFICES ASSUME rr_fs.vol = "none", rr_pack' = rr_pack
                 PROVE  ~(v3.st = "downloaded" /\ v3.path)
      OBVIOUS
    <2>1. ~e.vol /\ ~Reconcile!FileOf(e, c1)
      BY <1>4, <1>9 DEF Reconcile!FileOf
    <2>2. ~Reconcile!PackConfirmed(e)
      BY <1>2 DEF Reconcile!PackConfirmed, Reconcile!PackGone
    <2>3. v3 = v1
      BY <2>1, <2>2 DEF Reconcile!StubPass, Reconcile!_mark_volume_from_pack
    <2>4. rr_vol.st = "downloaded" /\ rr_vol.path => Reconcile!_reset_missing_volume(e, c1)
      BY <2>1, <1>7 DEF Reconcile!_reset_missing_volume
    <2>5. ~Reconcile!_recover_volume(e, c1)
      BY <2>1 DEF Reconcile!_recover_volume
    <2>q. QED
      BY <2>3, <2>4, <2>5, <1>8 DEF Reconcile!VolumePass, Reconcile!Volume
  <1>13. rr_pack' = "imported" => rr_fs.pack
    BY <1>2, <1>5, <1>8 DEF Reconcile!PackGone, Reconcile!Folder
  <1>14. rr_fs.loose = "file" => c3.st = "downloaded" /\ c3.path = "loose"
    <2> SUFFICES ASSUME rr_fs.loose = "file" PROVE c3.st = "downloaded" /\ c3.path = "loose"
      OBVIOUS
    <2>1. e.loose /\ e.missing = "no"
      BY <1>5, <1>6
    <2>2. c1 = [rr_chap EXCEPT !.st = "downloaded", !.path = "loose"]
      BY <2>1 DEF Reconcile!ChapterPass
    <2>q. QED
      BY <2>1, <2>2, <1>8, <1>10
      DEF Reconcile!_cascade_chapter_snapshot, Reconcile!PackChapters, Reconcile!Chapter
  <1>15. c3.st = "downloaded" /\ c3.path = "loose" /\ rr_fs.loose = "none"
           => rr_snap.vol.st = "downloaded" /\ (rr_fs.vol = "file" => ~rr_snap.vol.path)
    <2> SUFFICES ASSUME c3.path = "loose", rr_fs.loose = "none"
                 PROVE  rr_vol.st = "downloaded" /\ (rr_fs.vol = "file" => ~rr_vol.path)
      OBVIOUS
    <2>1. c1.path = "loose" /\ ~e.loose
      BY <1>10, <1>5
    <2>2. e.missing = "no"
      <3>1. CASE e.missing = "bare"
        BY <3>1, <2>1, <1>8 DEF Reconcile!ChapterPass, Reconcile!Chapter
      <3>2. CASE e.missing = "backed"
        <4>1. Reconcile!matching_backing(e)
          BY <3>2, <1>6, <1>7 DEF Reconcile!matching_backing
        <4>q. QED
          BY <4>1, <3>2, <2>1, <1>8 DEF Reconcile!ChapterPass, Reconcile!Chapter
      <3>q. QED
        BY <3>1, <3>2, <1>6
    <2>3. rr_chap.path = "loose"
      BY <2>1, <2>2 DEF Reconcile!ChapterPass
    <2>q. QED
      BY <2>1, <2>2, <2>3, <1>6 DEF ReconcileInv
  <1>q. QED
    BY <1>2, <1>11, <1>12, <1>13, <1>14, <1>15 DEF RowsAgree, Reconcile!RowsAgree

LEMMA ReconcileInit == ASSUME Reconcile!Init PROVE ReconcileInv
  <1>1. rr_vol \in Reconcile!Volume
    <2>1. \/ rr_vol \in [st : {"absent", "wanted"}, path : {FALSE}, direct : {FALSE}, v : {0}]
          \/ rr_vol \in [st : {"grabbed"}, path : {FALSE}, direct : BOOLEAN, v : {0}]
          \/ rr_vol \in [st : {"downloaded"}, path : {FALSE}, direct : BOOLEAN, v : {0}]
          \/ rr_vol \in [st : {"downloaded"}, path : {TRUE}, direct : {FALSE}, v : {0}]
      BY DEF Reconcile!Init
    <2>2. \E s \in {"absent", "wanted", "grabbed", "downloaded"}, p, d \in BOOLEAN :
            rr_vol = [st |-> s, path |-> p, direct |-> d, v |-> 0]
      BY <2>1
    <2>3. \A s \in {"absent", "wanted", "grabbed", "downloaded"}, p, d \in BOOLEAN :
            [st |-> s, path |-> p, direct |-> d, v |-> 0] \in Reconcile!Volume
      BY DEF Reconcile!Volume, Reconcile!Status
    <2>q. QED
      BY <2>2, <2>3
  <1>2. rr_chap \in Reconcile!Chapter /\ (rr_chap.path = "loose" => rr_chap.st = "downloaded")
    BY DEF Reconcile!Init, Reconcile!Chapter, Reconcile!Status
  <1>3. /\ rr_fs \in Reconcile!Folder /\ rr_pc = "idle" /\ rr_context \in Nat
        /\ rr_pack \in {"none", "grabbed", "downloaded", "imported"}
    BY DEF Reconcile!Init
  <1>q. QED
    BY <1>1, <1>2, <1>3
    DEF ReconcileInv, Reconcile!TypeOK, Quiet, RowsAgree, Reconcile!RowsAgree

\* The transaction keeps the types, and a chapter of a file of its own is downloaded.
LEMMA ReconcileTypes ==
  ASSUME ReconcileInv, Reconcile!reconcile_series_inventory
  PROVE  Reconcile!TypeOK' /\ (rr_chap'.path = "loose" => rr_chap'.st = "downloaded")
  <1> DEFINE Good(c) == c \in Reconcile!Chapter /\ (c.path = "loose" => c.st = "downloaded")
  <1>1. CASE rr_fence
    BY <1>1 DEF Reconcile!reconcile_series_inventory, ReconcileInv, Reconcile!TypeOK
  <1>2. CASE ~rr_fence
    <2>1. \A e : Good(Reconcile!ChapterPass(e))
      BY DEF ReconcileInv, Reconcile!TypeOK, Reconcile!ChapterPass, Reconcile!Chapter,
             Reconcile!Status
    <2>2. \A e, c : Good(c) => Good(Reconcile!_cascade_chapter_snapshot(e, c))
      BY DEF Reconcile!_cascade_chapter_snapshot, Reconcile!Chapter, Reconcile!Status
    <2>3. \A e, v, c : Good(c) => Good(Reconcile!PackChapters(e, v, c))
      BY DEF Reconcile!PackChapters, Reconcile!Chapter, Reconcile!Status
    <2>4. \A e, c : Reconcile!VolumePass(e, c) \in Reconcile!Volume
      BY DEF ReconcileInv, Reconcile!TypeOK, Reconcile!VolumePass, Reconcile!Volume,
             Reconcile!Status
    <2>5. \A e : \A v \in Reconcile!Volume :
            Reconcile!_mark_volume_from_pack(e, v) \in Reconcile!Volume
      BY DEF Reconcile!_mark_volume_from_pack, Reconcile!Volume, Reconcile!Status
    <2>6. \A e : \A v \in Reconcile!Volume : Reconcile!StubPass(e, v) \in Reconcile!Volume
      BY DEF Reconcile!StubPass, Reconcile!Volume, Reconcile!Status
    <2>7. rr_vol' \in Reconcile!Volume /\ Good(rr_chap')
      BY <1>2, <2>1, <2>2, <2>3, <2>4, <2>5, <2>6 DEF Reconcile!reconcile_series_inventory
    <2>8. rr_pack' \in {"none", "grabbed", "downloaded", "imported"}
      BY <1>2 DEF Reconcile!reconcile_series_inventory, ReconcileInv, Reconcile!TypeOK
    <2>q. QED
      BY <2>7, <2>8 DEF Reconcile!reconcile_series_inventory, ReconcileInv, Reconcile!TypeOK
  <1>q. QED
    BY <1>1, <1>2

\* The steps of a rescan.
LEMMA RescanKeeps ==
  ASSUME ReconcileInv,
         \/ Reconcile!snapshot_series_rescan \/ Reconcile!build_filesystem_inventory
         \/ Reconcile!rescan_series_folder \/ Reconcile!reconcile_series_inventory
         \/ Reconcile!Again
  PROVE  ReconcileInv'
  <1>1. CASE Reconcile!snapshot_series_rescan
    BY <1>1
    DEF Reconcile!snapshot_series_rescan, Reconcile!rows, ReconcileInv, Reconcile!TypeOK,
        Quiet, Snapshot, RowsAgree, Reconcile!RowsAgree
  <1>2. CASE Reconcile!build_filesystem_inventory
    <2>1. Inventory' = Inventory /\ Snapshot' = Snapshot /\ rr_inv' = Inventory
      BY <1>2
      DEF Reconcile!build_filesystem_inventory, Reconcile!rows, Snapshot, Inventory,
          Reconcile!_quarantine_recorded_volume_files, Reconcile!Observed,
          Reconcile!_missing_loose_observations, Reconcile!_recorded_volume_observations,
          Reconcile!_loose_chapter_inventory, Reconcile!_completed_volume_alias,
          Reconcile!Claims
    <2>q. QED
      BY <1>2, <2>1
      DEF Reconcile!build_filesystem_inventory, Reconcile!rows, ReconcileInv,
          Reconcile!TypeOK, Quiet, RowsAgree, Reconcile!RowsAgree
  <1>3. CASE Reconcile!rescan_series_folder
    <2>1. Inventory' = Inventory /\ Snapshot' = Snapshot
      BY <1>3
      DEF Reconcile!rescan_series_folder, Reconcile!rows, Snapshot, Inventory,
          Reconcile!_quarantine_recorded_volume_files, Reconcile!Observed,
          Reconcile!_missing_loose_observations, Reconcile!_recorded_volume_observations,
          Reconcile!_loose_chapter_inventory, Reconcile!_completed_volume_alias,
          Reconcile!Claims
    <2>2. rr_quiet => rr_inv' = Inventory
      BY <1>3, QuarantineTwice DEF Reconcile!rescan_series_folder, ReconcileInv, Quiet
    <2>q. QED
      BY <1>3, <2>1, <2>2
      DEF Reconcile!rescan_series_folder, Reconcile!rows, ReconcileInv,
          Reconcile!TypeOK, Quiet, RowsAgree, Reconcile!RowsAgree
  <1>4. CASE Reconcile!reconcile_series_inventory
    <2>1. RowsAgree'
      <3>1. CASE rr_quiet /\ ~rr_fence /\ rr_owned
        BY <3>1, <1>4, QuietAgrees
      <3>2. CASE ~(rr_quiet /\ ~rr_fence /\ rr_owned)
        BY <3>2, <1>4
        DEF RowsAgree, Reconcile!RowsAgree, Reconcile!reconcile_series_inventory
      <3>q. QED
        BY <3>1, <3>2
    <2>2. rr_pc' = "done"
      BY <1>4 DEF Reconcile!reconcile_series_inventory
    <2>q. QED
      BY <1>4, <2>1, <2>2, ReconcileTypes DEF ReconcileInv, Quiet
  <1>5. CASE Reconcile!Again
    BY <1>5
    DEF Reconcile!Again, Reconcile!rows, ReconcileInv, Reconcile!TypeOK, Quiet, RowsAgree,
        Reconcile!RowsAgree
  <1>q. QED
    BY <1>1, <1>2, <1>3, <1>4, <1>5

\* Whatever others do ends the quiet.
LEMMA ChangesKeep ==
  ASSUME ReconcileInv,
         \/ Reconcile!Grab \/ Reconcile!Import \/ Reconcile!Delete \/ Reconcile!Edit
         \/ Reconcile!Fence \/ Reconcile!User
  PROVE  ReconcileInv'
  <1>1. ~rr_quiet'
    BY DEF Reconcile!Grab, Reconcile!Import, Reconcile!Delete, Reconcile!Edit,
           Reconcile!Fence, Reconcile!User, Reconcile!Changed
  <1>2. Reconcile!TypeOK' /\ (rr_chap'.path = "loose" => rr_chap'.st = "downloaded")
    <2>1. /\ \A d \in BOOLEAN :
               [rr_vol EXCEPT !.st = "grabbed", !.direct = d, !.v = @ + 1] \in Reconcile!Volume
          /\ [rr_vol EXCEPT !.st = "downloaded", !.path = TRUE, !.direct = FALSE, !.v = @ + 1]
                \in Reconcile!Volume
          /\ [rr_vol EXCEPT !.st = "wanted", !.path = FALSE, !.direct = FALSE, !.v = @ + 1]
                \in Reconcile!Volume
      <3>1. rr_vol \in Reconcile!Volume /\ rr_vol.v + 1 \in Nat
        BY DEF ReconcileInv, Reconcile!TypeOK, Reconcile!Volume
      <3>2. ASSUME NEW n \in Nat, NEW d \in BOOLEAN
            PROVE  [rr_vol EXCEPT !.st = "grabbed", !.direct = d, !.v = n] \in Reconcile!Volume
        BY <3>1 DEF Reconcile!Volume, Reconcile!Status
      <3>3. ASSUME NEW n \in Nat
            PROVE  [rr_vol EXCEPT !.st = "downloaded", !.path = TRUE, !.direct = FALSE, !.v = n]
                     \in Reconcile!Volume
        BY <3>1 DEF Reconcile!Volume, Reconcile!Status
      <3>4. ASSUME NEW n \in Nat
            PROVE  [rr_vol EXCEPT !.st = "wanted", !.path = FALSE, !.direct = FALSE, !.v = n]
                     \in Reconcile!Volume
        BY <3>1 DEF Reconcile!Volume, Reconcile!Status
      <3>q. QED
        BY <3>1, <3>2, <3>3, <3>4
    <2>f. rr_fs \in Reconcile!Folder
      BY DEF ReconcileInv, Reconcile!TypeOK
    <2>2. CASE Reconcile!Grab \/ Reconcile!Delete
      <3>1. rr_vol' \in Reconcile!Volume
        <4>1. CASE Reconcile!Grab
          <5>1. PICK d \in BOOLEAN :
                  rr_vol' = [rr_vol EXCEPT !.st = "grabbed", !.direct = d, !.v = @ + 1]
            BY <4>1, Zenon DEF Reconcile!Grab
          <5>q. QED
            BY <5>1, <2>1
        <4>2. CASE Reconcile!Delete
          BY <4>2, <2>1 DEF Reconcile!Delete
        <4>q. QED
          BY <2>2, <4>1, <4>2
      <3>2. [rr_fs EXCEPT !.vol = "none", !.loose = Reconcile!TwinBecomes("alias")]
              \in Reconcile!Folder
        BY <2>f DEF Reconcile!Folder, Reconcile!TwinBecomes
      <3>3. rr_fs' \in Reconcile!Folder
        <4>1. CASE Reconcile!Grab
          BY <4>1, <2>f DEF Reconcile!Grab
        <4>2. CASE Reconcile!Delete
          BY <4>2, <3>2 DEF Reconcile!Delete
        <4>q. QED
          BY <2>2, <4>1, <4>2
      <3>q. QED
        BY <2>2, <3>1, <3>3 DEF Reconcile!Grab, Reconcile!Delete, ReconcileInv,
                                Reconcile!TypeOK
    <2>3. CASE Reconcile!Import
      <3>1. rr_vol' \in Reconcile!Volume
        BY <2>1, <2>3 DEF Reconcile!Import
      <3>2. rr_fs' \in Reconcile!Folder
        <4>1. [rr_fs EXCEPT !.vol = "file", !.loose = Reconcile!TwinBecomes("file")]
                \in Reconcile!Folder
          BY <2>f DEF Reconcile!Folder, Reconcile!TwinBecomes
        <4>q. QED
          BY <2>3, <4>1 DEF Reconcile!Import
      <3>3. rr_chap' \in Reconcile!Chapter /\ rr_chap'.st = "downloaded"
        BY <2>3 DEF Reconcile!Import, ReconcileInv, Reconcile!TypeOK, Reconcile!Chapter,
                    Reconcile!Status
      <3>q. QED
        BY <2>3, <3>1, <3>2, <3>3 DEF Reconcile!Import, ReconcileInv, Reconcile!TypeOK
    <2>4. CASE Reconcile!Edit \/ Reconcile!Fence \/ Reconcile!User
      BY <2>4 DEF Reconcile!Edit, Reconcile!Fence, Reconcile!User, Reconcile!rows,
                  ReconcileInv, Reconcile!TypeOK
    <2>q. QED
      BY <2>2, <2>3, <2>4
  <1>q. QED
    BY <1>1, <1>2 DEF ReconcileInv, Quiet, RowsAgree, Reconcile!RowsAgree

LEMMA ReconcileUnchanged == ASSUME ReconcileInv, UNCHANGED rr_vars PROVE ReconcileInv'
  <1>1. Inventory' = Inventory /\ Snapshot' = Snapshot
    BY DEF rr_vars, Snapshot, Inventory,
           Reconcile!_quarantine_recorded_volume_files, Reconcile!Observed,
           Reconcile!_missing_loose_observations, Reconcile!_recorded_volume_observations,
           Reconcile!_loose_chapter_inventory, Reconcile!_completed_volume_alias,
           Reconcile!Claims
  <1>q. QED
    BY <1>1 DEF rr_vars, ReconcileInv, Reconcile!TypeOK, Quiet, RowsAgree, Reconcile!RowsAgree

\* A rescan nobody interfered with ends with rows that agree with the folder
\* (rescan.reconcile_series_inventory), on whatever rows and folder it started.
THEOREM RescanAgrees == Spec => []RowsAgree
  <1>1. Init => ReconcileInv
    BY ReconcileInit DEF Init
  <1>2. ReconcileInv /\ [Next]_vars => ReconcileInv'
    <2> SUFFICES ASSUME ReconcileInv, [Next]_vars PROVE ReconcileInv'
      OBVIOUS
    <2>1. CASE Reconcile!Next
      BY <2>1, RescanKeeps, ChangesKeep DEF Reconcile!Next
    <2>2. Reconcile!Next \/ UNCHANGED rr_vars
      BY DEF Next, RescanStep, DirectStep, QuarantineStep, IdentityStep, WorkersStep,
             ReconcileStep, vars
    <2>q. QED
      BY <2>1, <2>2, ReconcileUnchanged
  <1>3. ReconcileInv => RowsAgree
    BY DEF ReconcileInv
  <1>q. QED
    BY <1>1, <1>2, <1>3, PTL DEF Spec

-----------------------------------------------------------------------------
(* Direct downloads: the ids that grabs, the poll and a retry hold across  *)
(* an await are ids of jobs, and jobs never change their item once used.   *)

GrabbedHere == [st |-> "grabbed", client |-> "suwayomi"]
ItemRow == [st : {"absent", "wanted", "grabbed", "downloaded"},
            client : {"none", "suwayomi", "other"}]
JobStatus == {"free", "queued", "error", "completed", "deleted"}
JobRow == [st : JobStatus, item : Item, startup : BOOLEAN]
GrabTask == [pc : {"idle", "checked", "found", "record", "start"}, item : Item,
             job : Job \cup {0}]
PollTask == [pc : {"idle", "next", "ask", "decide", "unit", "raised"},
             todo : SUBSET [id : Job, startup : BOOLEAN], cur : Job \cup {0},
             startup : BOOLEAN, saw : {"none", "done", "error", "pending"}, tries : Nat]
RetryTask == [pc : {"idle", "enqueue", "start"}, job : Job \cup {0}]

HoldJobs ==
    /\ dd_grab \in [Grabber -> GrabTask] /\ dd_poll \in PollTask /\ dd_retry \in RetryTask
    /\ \A g \in Grabber : dd_grab[g].pc = "start" => dd_grab[g].job \in Job
    /\ dd_poll.pc \notin {"idle", "next"} => dd_poll.cur \in Job
    /\ dd_retry.pc # "idle" => dd_retry.job \in Job
RowTypes == dd_row \in [Item -> ItemRow] /\ dd_job \in [Job -> JobRow]
Stands(i, j) == dd_job[j].st \in {"queued", "error"} /\ dd_job[j].item = i
Tracked == \A i \in Item : dd_row[i] = GrabbedHere => \E j \in Job : Stands(i, j)

DirectInv == HoldJobs /\ RowTypes /\ Tracked

LEMMA FreeItem == Direct!Free.item \in Item /\ Direct!Free \in JobRow /\ Direct!IdleGrab \in GrabTask
  BY UnitsAssumption
  DEF Direct!Free, JobRow, JobStatus, Direct!IdleGrab, GrabTask, Direct!NoJob

LEMMA IdleTypes == Direct!IdlePoll \in PollTask /\ Direct!IdleRetry \in RetryTask
  BY DEF Direct!IdlePoll, Direct!IdleRetry, PollTask, RetryTask, Direct!NoJob

LEMMA DirectInit == ASSUME Direct!Init PROVE DirectInv
  <1>1. HoldJobs
    BY FreeItem, IdleTypes
    DEF Direct!Init, HoldJobs, Direct!IdleGrab, Direct!IdlePoll, Direct!IdleRetry
  <1>2. RowTypes /\ \A i \in Item : dd_row[i].st # "grabbed"
    BY FreeItem DEF Direct!Init, RowTypes, ItemRow
  <1>q. QED
    BY <1>1, <1>2 DEF DirectInv, Tracked, GrabbedHere

\* A job changes its status and nothing else.
LEMMA SetJob ==
  ASSUME RowTypes, NEW j \in Job, NEW st \in JobStatus, Direct!Set(j, st)
  PROVE  /\ dd_job' \in [Job -> JobRow] /\ dd_job'[j].st = st
         /\ \A k \in Job : dd_job'[k].item = dd_job[k].item
         /\ \A k \in Job \ {j} : dd_job'[k].st = dd_job[k].st
  <1>1. dd_job' = [dd_job EXCEPT ![j] = [dd_job[j] EXCEPT !.st = st]]
    BY DEF Direct!Set
  <1>2. [dd_job[j] EXCEPT !.st = st] \in JobRow
    BY DEF RowTypes, JobRow
  <1>3. dd_job[j] \in JobRow
    BY DEF RowTypes
  <1>q. QED
    BY <1>1, <1>2, <1>3 DEF RowTypes, JobRow

\* A job that is marked as an error, or that was deleted, still stands for its item.
LEMMA ErrorKeeps ==
  ASSUME RowTypes, Tracked, NEW j \in Job, dd_row' = dd_row,
         \/ Direct!SetById(j, "error")
         \/ Direct!Set(j, "error")
  PROVE  RowTypes' /\ Tracked'
  <1>1. CASE dd_job' = dd_job
    BY <1>1 DEF RowTypes, Tracked, Stands
  <1>2. CASE Direct!Set(j, "error")
    BY <1>2, SetJob DEF RowTypes, Tracked, Stands, JobStatus
  <1>q. QED
    BY <1>1, <1>2 DEF Direct!SetById

\* The start of the downloader changes no status.
LEMMA StartKeeps ==
  ASSUME RowTypes, Tracked, NEW j \in Job, dd_row' = dd_row, Direct!_start_downloader(j)
  PROVE  RowTypes' /\ Tracked'
  <1>1. CASE dd_job' = dd_job
    BY <1>1 DEF RowTypes, Tracked, Stands
  <1>2. CASE dd_job' = [dd_job EXCEPT ![j].startup = @ \/ Direct!Status(j) = "queued"]
    <2> DEFINE b == dd_job[j].startup \/ Direct!Status(j) = "queued"
    <2>1. dd_job' = [dd_job EXCEPT ![j] = [dd_job[j] EXCEPT !.startup = b]]
      BY <1>2
    <2>2. b \in BOOLEAN
      OBVIOUS
    <2> HIDE DEF b
    <2>3. /\ [dd_job[j] EXCEPT !.startup = b] \in JobRow
          /\ [dd_job[j] EXCEPT !.startup = b].st = dd_job[j].st
          /\ [dd_job[j] EXCEPT !.startup = b].item = dd_job[j].item
      BY <2>2 DEF RowTypes, JobRow
    <2>4. /\ dd_job' \in [Job -> JobRow]
          /\ \A k \in Job : dd_job'[k].st = dd_job[k].st /\ dd_job'[k].item = dd_job[k].item
      BY <2>1, <2>3 DEF RowTypes
    <2>q. QED
      BY <2>4 DEF RowTypes, Tracked, Stands
  <1>q. QED
    BY <1>1, <1>2 DEF Direct!_start_downloader

\* The steps of a grab.
LEMMA GrabSteps ==
  ASSUME DirectInv, NEW g \in Grabber, NEW i \in Item,
         \/ Direct!suwayomi_grab(g, i) \/ Direct!suwayomi_chapter_grab(g, i)
         \/ Direct!GrabStep(g)
  PROVE  DirectInv'
  <1> DEFINE Held(t) == t \in GrabTask /\ (t.pc = "start" => t.job \in Job)
  <1>a. \A t : Held(t) /\ dd_grab' = [dd_grab EXCEPT ![g] = t]
               /\ UNCHANGED <<dd_poll, dd_retry>> => HoldJobs'
    BY DEF DirectInv, HoldJobs
  <1>b. dd_grab[g] \in GrabTask /\ Held(Direct!IdleGrab)
    BY FreeItem DEF DirectInv, HoldJobs, Direct!IdleGrab
  <1>c. UNCHANGED <<dd_row, dd_job>> => RowTypes' /\ Tracked'
    BY DEF DirectInv, RowTypes, Tracked, Stands
  <1>1. CASE Direct!Guarded(g, i)
    <2>1. Held([pc |-> "checked", item |-> i, job |-> 0])
      BY DEF GrabTask
    <2>q. QED
      BY <1>1, <2>1, <1>a, <1>c DEF Direct!Guarded, Direct!NoJob, DirectInv
  <1>2. CASE Direct!find_or_add_manga(g)
    <2>1. Held([dd_grab[g] EXCEPT !.pc = "found"])
      BY <1>b DEF GrabTask
    <2>2. \/ dd_grab' = [dd_grab EXCEPT ![g] = Direct!IdleGrab]
          \/ dd_grab' = [dd_grab EXCEPT ![g] = [dd_grab[g] EXCEPT !.pc = "found"]]
      BY <1>2 DEF Direct!find_or_add_manga
    <2>3. UNCHANGED <<dd_row, dd_job, dd_poll, dd_retry>>
      BY <1>2 DEF Direct!find_or_add_manga
    <2>q. QED
      BY <2>1, <2>2, <2>3, <1>a, <1>b, <1>c DEF DirectInv
  <1>3. CASE Direct!_chapters_for_volume(g)
    <2>1. Held([dd_grab[g] EXCEPT !.pc = "record"])
      BY <1>b DEF GrabTask
    <2>2. \/ dd_grab' = [dd_grab EXCEPT ![g] = Direct!IdleGrab]
          \/ dd_grab' = [dd_grab EXCEPT ![g] = [dd_grab[g] EXCEPT !.pc = "record"]]
      BY <1>3 DEF Direct!_chapters_for_volume
    <2>3. UNCHANGED <<dd_row, dd_job, dd_poll, dd_retry>>
      BY <1>3 DEF Direct!_chapters_for_volume
    <2>q. QED
      BY <2>1, <2>2, <2>3, <1>a, <1>b, <1>c DEF DirectInv
  <1>4. CASE Direct!RecordJob(g)
    <2> DEFINE k == dd_grab[g].item
               new == [st |-> "queued", item |-> k, startup |-> FALSE]
    <2>1. PICK j \in Job :
            /\ dd_job[j].st = "free"
            /\ dd_job' = [dd_job EXCEPT ![j] = new]
            /\ dd_grab' = [dd_grab EXCEPT ![g] = [dd_grab[g] EXCEPT !.pc = "start", !.job = j]]
      BY <1>4 DEF Direct!RecordJob, Direct!Status
    <2>2. k \in Item /\ new \in JobRow
      BY <1>b DEF GrabTask, JobRow, JobStatus
    <2>3. Held([dd_grab[g] EXCEPT !.pc = "start", !.job = j])
      BY <1>b DEF GrabTask
    <2>4. /\ dd_row' = [dd_row EXCEPT ![k] = IF @.st = "wanted" THEN GrabbedHere ELSE @]
          /\ UNCHANGED <<dd_poll, dd_retry>>
      BY <1>4 DEF Direct!RecordJob, GrabbedHere
    <2>5. HoldJobs'
      BY <2>1, <2>3, <2>4, <1>a
    <2>6. GrabbedHere \in ItemRow
      BY DEF GrabbedHere, ItemRow
    <2>7. RowTypes'
      BY <2>1, <2>2, <2>4, <2>6 DEF DirectInv, RowTypes
    <2>8. dd_job'[j] = new /\ \A l \in Job \ {j} : dd_job'[l] = dd_job[l]
      BY <2>1 DEF DirectInv, RowTypes
    <2>9. ASSUME NEW n \in Item, dd_row'[n] = GrabbedHere
          PROVE  \E l \in Job : Stands(n, l)'
      <3>1. CASE n = k
        BY <3>1, <2>8 DEF Stands
      <3>2. CASE n # k
        <4>1. dd_row[n] = GrabbedHere
          BY <3>2, <2>9, <2>4 DEF DirectInv, RowTypes
        <4>2. PICK l \in Job : Stands(n, l)
          BY <4>1 DEF DirectInv, Tracked
        <4>3. l # j
          BY <4>2, <2>1 DEF Stands
        <4>q. QED
          BY <4>2, <4>3, <2>8 DEF Stands
      <3>q. QED
        BY <3>1, <3>2
    <2>q. QED
      BY <2>5, <2>7, <2>9 DEF DirectInv, Tracked
  <1>5. CASE Direct!StartGrab(g)
    <2>1. HoldJobs'
      BY <1>5, <1>a, <1>b DEF Direct!StartGrab
    <2>2. dd_grab[g].job \in Job
      BY <1>5 DEF Direct!StartGrab, DirectInv, HoldJobs
    <2>q. QED
      BY <1>5, <2>1, <2>2, StartKeeps DEF Direct!StartGrab, DirectInv
  <1>q. QED
    BY <1>1, <1>2, <1>3, <1>4, <1>5
    DEF Direct!suwayomi_grab, Direct!suwayomi_chapter_grab, Direct!GrabStep

\* What the poll holds between two steps.
LEMMA PollHolds ==
  ASSUME DirectInv, UNCHANGED <<dd_grab, dd_retry>>, dd_poll' \in PollTask,
         dd_poll'.pc \notin {"idle", "next"} => dd_poll'.cur \in Job
  PROVE  HoldJobs'
  BY DEF DirectInv, HoldJobs

\* The job that the poll works on is put aside, or tried again.
LEMMA PollMoves ==
  ASSUME DirectInv
  PROVE  /\ [Direct!IdlePoll EXCEPT !.pc = "next", !.todo = dd_poll.todo] \in PollTask
         /\ \A pc \in {"ask", "unit"} :
              [dd_poll EXCEPT !.pc = pc, !.saw = "none"] \in PollTask
         /\ [dd_poll EXCEPT !.pc = "raised", !.tries = @ + 1] \in PollTask
  <1>1. dd_poll \in PollTask /\ dd_poll.tries + 1 \in Nat
    BY DEF DirectInv, HoldJobs, PollTask
  <1>2. [Direct!IdlePoll EXCEPT !.pc = "next", !.todo = dd_poll.todo] \in PollTask
    BY <1>1, IdleTypes DEF PollTask
  <1>3. \A pc \in {"ask", "unit"} : [dd_poll EXCEPT !.pc = pc, !.saw = "none"] \in PollTask
    BY <1>1 DEF PollTask
  <1>4. \A n \in Nat : [dd_poll EXCEPT !.pc = "raised", !.tries = n] \in PollTask
    BY <1>1 DEF PollTask
  <1>q. QED
    BY <1>1, <1>2, <1>3, <1>4

\* The poll goes on to a state it may be in.
LEMMA PollGoesOn ==
  ASSUME DirectInv, UNCHANGED <<dd_grab, dd_retry>>,
         Direct!Done \/ (dd_poll.cur \in Job /\
                          (Direct!Raise \/ \E pc \in {"ask", "unit"} : Direct!Polling(pc)))
  PROVE  HoldJobs'
  <1>1. CASE Direct!Done
    <2>1. dd_poll'.pc = "next"
      BY <1>1 DEF Direct!Done, Direct!IdlePoll
    <2>q. QED
      BY <1>1, <2>1, PollMoves, PollHolds DEF Direct!Done
  <1>2. CASE dd_poll.cur \in Job /\ Direct!Raise
    <2>1. dd_poll'.cur = dd_poll.cur
      BY <1>2 DEF Direct!Raise, DirectInv, HoldJobs, PollTask
    <2>q. QED
      BY <1>2, <2>1, PollMoves, PollHolds DEF Direct!Raise
  <1>3. ASSUME dd_poll.cur \in Job, NEW pc \in {"ask", "unit"}, Direct!Polling(pc)
        PROVE  HoldJobs'
    <2>1. dd_poll'.cur = dd_poll.cur
      BY <1>3 DEF Direct!Polling, DirectInv, HoldJobs, PollTask
    <2>q. QED
      BY <1>3, <2>1, PollMoves, PollHolds DEF Direct!Polling
  <1>q. QED
    BY <1>1, <1>2, <1>3

\* The job that the poll works on is completed, and its item settled with it.
LEMMA CompleteKeeps ==
  ASSUME DirectInv, NEW j \in Job, Direct!SetById(j, "completed"),
         dd_row' = Direct!Settled(dd_job[j].item)
  PROVE  RowTypes' /\ Tracked'
  <1> DEFINE i == dd_job[j].item
             done == [st |-> "downloaded", client |-> "suwayomi"]
  <1>1. i \in Item /\ RowTypes
    BY DEF DirectInv, RowTypes, JobRow
  <1>2. done \in ItemRow /\ done # GrabbedHere
    BY DEF ItemRow, GrabbedHere
  <1>3. /\ dd_row' \in [Item -> ItemRow] /\ dd_row'[i] # GrabbedHere
        /\ \A k \in Item : dd_row'[k] = GrabbedHere => dd_row[k] = GrabbedHere
    BY <1>1, <1>2 DEF RowTypes, Direct!Settled, GrabbedHere
  <1>4. CASE dd_job' = dd_job
    BY <1>1, <1>3, <1>4 DEF DirectInv, RowTypes, Tracked, Stands
  <1>5. CASE Direct!Set(j, "completed")
    <2>1. /\ dd_job' \in [Job -> JobRow]
          /\ \A k \in Job : dd_job'[k].item = dd_job[k].item
          /\ \A k \in Job \ {j} : dd_job'[k].st = dd_job[k].st
      BY <1>5, <1>1, SetJob DEF JobStatus
    <2>2. ASSUME NEW k \in Item, dd_row'[k] = GrabbedHere
          PROVE  \E l \in Job : Stands(k, l)'
      <3>1. PICK l \in Job : Stands(k, l)
        BY <1>3, <2>2 DEF DirectInv, Tracked
      <3>2. l # j
        BY <1>3, <2>2, <3>1 DEF Stands
      <3>q. QED
        BY <2>1, <3>1, <3>2 DEF Stands
    <2>q. QED
      BY <1>3, <2>1, <2>2 DEF RowTypes, Tracked
  <1>q. QED
    BY <1>4, <1>5 DEF Direct!SetById

\* The steps of the poll.
LEMMA PollSteps == ASSUME DirectInv, Direct!PollStep \/ Direct!UnitEnds PROVE DirectInv'
  <1>a. UNCHANGED <<dd_row, dd_job>> => RowTypes' /\ Tracked'
    BY DEF DirectInv, RowTypes, Tracked, Stands
  <1>b. dd_poll \in PollTask
    BY DEF DirectInv, HoldJobs
  <1>c. dd_poll.pc \in {"ask", "decide", "unit", "raised"} => dd_poll.cur \in Job
    BY DEF DirectInv, HoldJobs
  <1>1. CASE Direct!check_suwayomi_jobs
    <2> DEFINE list == {[id |-> j, startup |-> dd_job[j].startup] :
                         j \in {k \in Job : Direct!Status(k) = "queued"}}
    <2>1. list \in SUBSET [id : Job, startup : BOOLEAN]
      BY DEF DirectInv, RowTypes, JobRow
    <2> HIDE DEF list
    <2>2. /\ [Direct!IdlePoll EXCEPT !.pc = "next", !.todo = list] \in PollTask
          /\ [Direct!IdlePoll EXCEPT !.pc = "next", !.todo = list].pc = "next"
      BY <2>1, IdleTypes DEF PollTask
    <2>3. /\ dd_poll' = [Direct!IdlePoll EXCEPT !.pc = "next", !.todo = list]
          /\ UNCHANGED <<dd_row, dd_job, dd_grab, dd_retry>>
      BY <1>1 DEF Direct!check_suwayomi_jobs, list
    <2>q. QED
      BY <2>2, <2>3, <1>a, PollHolds DEF DirectInv
  <1>2. CASE Direct!NextJob
    <2>1. CASE dd_poll.todo = {}
      <3>1. dd_poll' = Direct!IdlePoll
        BY <1>2, <2>1 DEF Direct!NextJob
      <3>2. dd_poll'.pc = "idle"
        BY <3>1 DEF Direct!IdlePoll
      <3>q. QED
        BY <1>2, <3>1, <3>2, <1>a, PollHolds, IdleTypes DEF Direct!NextJob, DirectInv
    <2>2. CASE dd_poll.todo # {}
      <3>1. PICK t \in dd_poll.todo :
              dd_poll' = [dd_poll EXCEPT !.pc = "ask", !.todo = @ \ {t}, !.cur = t.id,
                                         !.startup = t.startup, !.tries = 0]
        BY <1>2, <2>2 DEF Direct!NextJob
      <3>2. t.id \in Job /\ t.startup \in BOOLEAN
            /\ dd_poll.todo \ {t} \in SUBSET [id : Job, startup : BOOLEAN]
        BY <1>b DEF PollTask
      <3>3. dd_poll' \in PollTask /\ dd_poll'.cur \in Job
        BY <3>1, <3>2, <1>b DEF PollTask
      <3>q. QED
        BY <1>2, <3>3, <1>a, PollHolds DEF Direct!NextJob, DirectInv
    <2>q. QED
      BY <2>1, <2>2
  <1>3. CASE Direct!Attempts
    <2>1. HoldJobs'
      BY <1>3, <1>c, PollGoesOn DEF Direct!Attempts
    <2>2. RowTypes' /\ Tracked'
      BY <1>3, <1>a, <1>c, ErrorKeeps DEF Direct!Attempts, DirectInv
    <2>q. QED
      BY <2>1, <2>2 DEF DirectInv
  <1>4. CASE Direct!_process_suwayomi_job
    <2>1. CASE Direct!Raise
      BY <1>4, <2>1, <1>a, <1>c, PollGoesOn DEF Direct!_process_suwayomi_job, DirectInv
    <2>2. CASE dd_poll' = [dd_poll EXCEPT !.pc = "decide",
                               !.saw = Direct!Seen(dd_up[dd_job[dd_poll.cur].item])]
      <3>1. Direct!Seen(dd_up[dd_job[dd_poll.cur].item]) \in {"done", "error", "pending"}
        BY DEF Direct!Seen
      <3>2. \A u \in {"done", "error", "pending"} :
              LET p == [dd_poll EXCEPT !.pc = "decide", !.saw = u]
              IN  p \in PollTask /\ p.cur = dd_poll.cur
        BY <1>b DEF PollTask
      <3>3. dd_poll' \in PollTask /\ dd_poll'.cur \in Job
        BY <1>4, <2>2, <3>1, <3>2, <1>c DEF Direct!_process_suwayomi_job
      <3>q. QED
        BY <1>4, <3>3, <1>a, PollHolds DEF Direct!_process_suwayomi_job, DirectInv
    <2>q. QED
      BY <1>4, <2>1, <2>2 DEF Direct!_process_suwayomi_job
  <1>5. CASE Direct!Decide
    <2>1. HoldJobs'
      BY <1>5, <1>c, PollGoesOn DEF Direct!Decide
    <2>2. RowTypes' /\ Tracked'
      BY <1>5, <1>a, <1>c, ErrorKeeps DEF Direct!Decide, DirectInv
    <2>q. QED
      BY <2>1, <2>2 DEF DirectInv
  <1>6. CASE Direct!UnitBusy \/ Direct!UnitRaises
    BY <1>6, <1>a, <1>c, PollGoesOn DEF Direct!UnitBusy, Direct!UnitRaises, DirectInv
  <1>7. CASE Direct!NotFound
    <2>1. HoldJobs'
      BY <1>7, PollGoesOn DEF Direct!NotFound
    <2>2. RowTypes' /\ Tracked'
      BY <1>7, <1>c, ErrorKeeps
      DEF Direct!NotFound, Direct!_source_chapter_cbz, Direct!_source_volume_selection,
          DirectInv
    <2>q. QED
      BY <2>1, <2>2 DEF DirectInv
  <1>8. CASE Direct!_complete_suwayomi_job_files
    <2>1. HoldJobs'
      BY <1>8, <1>c, PollGoesOn DEF Direct!_complete_suwayomi_job_files
    <2>2. RowTypes' /\ Tracked'
      BY <1>8, <1>c, CompleteKeeps DEF Direct!_complete_suwayomi_job_files
    <2>q. QED
      BY <2>1, <2>2 DEF DirectInv
  <1>q. QED
    BY <1>1, <1>2, <1>3, <1>4, <1>5, <1>6, <1>7, <1>8
    DEF Direct!PollStep, Direct!UnitEnds

\* A retry, a cancellation, the other clients and Suwayomi.
LEMMA RetrySteps ==
  ASSUME DirectInv,
         (\E j \in Job : Direct!retry_suwayomi_job(j)) \/ Direct!RetryStep
  PROVE  DirectInv'
  <1> DEFINE Held(t) == t \in RetryTask /\ (t.pc # "idle" => t.job \in Job)
  <1>a. Held(dd_retry') /\ UNCHANGED <<dd_grab, dd_poll>> => HoldJobs'
    BY DEF DirectInv, HoldJobs
  <1>b. Held(Direct!IdleRetry) /\ Held(dd_retry)
    BY IdleTypes DEF Direct!IdleRetry, DirectInv, HoldJobs
  <1>1. ASSUME NEW j \in Job, Direct!retry_suwayomi_job(j) PROVE DirectInv'
    <2> DEFINE i == dd_job[j].item
               new == [dd_job[j] EXCEPT !.st = "queued", !.startup = FALSE]
    <2>1. dd_job[j] \in JobRow
      BY DEF DirectInv, RowTypes
    <2>2. i \in Item /\ new \in JobRow /\ new.st = "queued" /\ new.item = i
      BY <2>1 DEF JobRow, JobStatus
    <2>3. dd_job' = [dd_job EXCEPT ![j] = new]
      BY <1>1 DEF Direct!retry_suwayomi_job
    <2>4. dd_row' = [dd_row EXCEPT ![i] = IF @.st \in {"downloaded", "absent"} THEN @
                                          ELSE GrabbedHere]
      BY <1>1 DEF Direct!retry_suwayomi_job, GrabbedHere
    <2> HIDE DEF new
    <2>5. GrabbedHere \in ItemRow
      BY DEF GrabbedHere, ItemRow
    <2>6. RowTypes'
      BY <2>2, <2>3, <2>4, <2>5 DEF DirectInv, RowTypes
    <2>7. dd_job'[j] = new /\ \A k \in Job \ {j} : dd_job'[k] = dd_job[k]
      BY <2>3 DEF DirectInv, RowTypes
    <2>8. ASSUME NEW n \in Item, dd_row'[n] = GrabbedHere
          PROVE  \E l \in Job : Stands(n, l)'
      <3>1. CASE n = i
        BY <3>1, <2>2, <2>7 DEF Stands
      <3>2. CASE n # i
        <4>1. PICK l \in Job : Stands(n, l)
          BY <3>2, <2>4, <2>8 DEF DirectInv, RowTypes, Tracked
        <4>2. l # j
          BY <4>1, <3>2 DEF Stands
        <4>q. QED
          BY <4>1, <4>2, <2>7 DEF Stands
      <3>q. QED
        BY <3>1, <3>2
    <2>9. Held([pc |-> "enqueue", job |-> j])
      BY DEF RetryTask
    <2>10. HoldJobs'
      BY <1>1, <2>9, <1>a DEF Direct!retry_suwayomi_job
    <2>q. QED
      BY <2>6, <2>8, <2>10 DEF DirectInv, Tracked
  <1>2. CASE Direct!RetryEnqueue
    <2>1. dd_retry.job \in Job
      BY <1>2, <1>b DEF Direct!RetryEnqueue
    <2>2. RowTypes' /\ Tracked'
      <3>1. CASE dd_job' = dd_job
        BY <1>2, <3>1 DEF Direct!RetryEnqueue, DirectInv, RowTypes, Tracked, Stands
      <3>2. CASE Direct!SetById(dd_retry.job, "error")
        BY <1>2, <3>2, <2>1, ErrorKeeps DEF Direct!RetryEnqueue, DirectInv
      <3>q. QED
        BY <1>2, <3>1, <3>2 DEF Direct!RetryEnqueue
    <2>3. Held([dd_retry EXCEPT !.pc = "start"])
      BY <2>1, <1>b DEF RetryTask
    <2>4. HoldJobs'
      BY <1>2, <2>3, <1>a, <1>b DEF Direct!RetryEnqueue
    <2>q. QED
      BY <2>2, <2>4 DEF DirectInv
  <1>3. CASE Direct!RetryStart
    <2>1. dd_retry.job \in Job
      BY <1>3, <1>b DEF Direct!RetryStart
    <2>2. HoldJobs'
      BY <1>3, <1>a, <1>b DEF Direct!RetryStart
    <2>q. QED
      BY <1>3, <2>1, <2>2, StartKeeps DEF Direct!RetryStart, DirectInv
  <1>q. QED
    BY <1>1, <1>2, <1>3 DEF Direct!RetryStep

\* A cancelled job gives its item back.
LEMMA CancelKeeps ==
  ASSUME DirectInv, NEW j \in Job, Direct!cancel_suwayomi_job(j)
  PROVE  DirectInv'
  <1> DEFINE i == dd_job[j].item
             back == [st |-> "wanted", client |-> "none"]
  <1>1. i \in Item /\ RowTypes
    BY DEF DirectInv, RowTypes, JobRow
  <1>2. dd_row' = [dd_row EXCEPT ![i] = IF @ = GrabbedHere THEN back ELSE @]
    BY DEF Direct!cancel_suwayomi_job, GrabbedHere
  <1>3. back \in ItemRow /\ back # GrabbedHere
    BY DEF ItemRow, GrabbedHere
  <1>4. /\ dd_row' \in [Item -> ItemRow] /\ dd_row'[i] # GrabbedHere
        /\ \A k \in Item : dd_row'[k] = GrabbedHere => dd_row[k] = GrabbedHere
    BY <1>1, <1>2, <1>3 DEF RowTypes
  <1>5. /\ dd_job' \in [Job -> JobRow]
        /\ \A k \in Job : dd_job'[k].item = dd_job[k].item
        /\ \A k \in Job \ {j} : dd_job'[k].st = dd_job[k].st
    BY <1>1, SetJob DEF Direct!cancel_suwayomi_job, JobStatus
  <1>6. ASSUME NEW k \in Item, dd_row'[k] = GrabbedHere
        PROVE  \E l \in Job : Stands(k, l)'
    <2>1. PICK l \in Job : Stands(k, l)
      BY <1>4, <1>6 DEF DirectInv, Tracked
    <2>2. l # j
      BY <1>4, <1>6, <2>1 DEF Stands
    <2>q. QED
      BY <1>5, <2>1, <2>2 DEF Stands
  <1>7. HoldJobs'
    BY DEF Direct!cancel_suwayomi_job, DirectInv, HoldJobs
  <1>q. QED
    BY <1>4, <1>5, <1>6, <1>7 DEF DirectInv, RowTypes, Tracked

LEMMA OthersKeep ==
  ASSUME DirectInv, NEW i \in Item,
         Direct!_suwayomi_sync_series(i) \/ Direct!Other(i) \/ Direct!Download(i)
  PROVE  DirectInv'
  <1>1. HoldJobs' /\ dd_job' = dd_job
    BY DEF Direct!_suwayomi_sync_series, Direct!Other, Direct!Download, DirectInv, HoldJobs
  <1>2. dd_row[i] \in ItemRow
    BY DEF DirectInv, RowTypes
  <1>3. dd_row' = dd_row \/ \E r \in ItemRow : /\ r # GrabbedHere
                                               /\ dd_row' = [dd_row EXCEPT ![i] = r]
    <2>1. CASE Direct!_suwayomi_sync_series(i)
      <3>1. LET r == [dd_row[i] EXCEPT !.st = "wanted"] IN r \in ItemRow /\ r # GrabbedHere
        BY <1>2 DEF ItemRow, GrabbedHere
      <3>q. QED
        BY <2>1, <3>1 DEF Direct!_suwayomi_sync_series
    <2>2. CASE Direct!Other(i)
      <3>1. LET r == [dd_row[i] EXCEPT !.st = "downloaded"] IN r \in ItemRow /\ r # GrabbedHere
        BY <1>2 DEF ItemRow, GrabbedHere
      <3>2. LET r == [st |-> "grabbed", client |-> "other"] IN r \in ItemRow /\ r # GrabbedHere
        BY DEF ItemRow, GrabbedHere
      <3>3. LET r == [st |-> "wanted", client |-> "none"] IN r \in ItemRow /\ r # GrabbedHere
        BY DEF ItemRow, GrabbedHere
      <3>q. QED
        BY <2>2, <3>1, <3>2, <3>3 DEF Direct!Other
    <2>3. CASE Direct!Download(i)
      BY <2>3 DEF Direct!Download
    <2>q. QED
      BY <2>1, <2>2, <2>3
  <1>q. QED
    BY <1>1, <1>3 DEF DirectInv, RowTypes, Tracked, Stands

\* Whatever is marked as grabbed here has a job that can be polled, retried or
\* cancelled, for every number of items, grabs and jobs (routers/suwayomi_.py).
THEOREM GrabsAreTracked == Spec => []GrabbedIsTracked
  <1>1. Init => DirectInv
    BY DirectInit DEF Init
  <1>2. DirectInv /\ [Next]_vars => DirectInv'
    <2> SUFFICES ASSUME DirectInv, [Next]_vars PROVE DirectInv'
      OBVIOUS
    <2>1. CASE Direct!Next
      <3>1. PICK k \in Item : TRUE
        BY UnitsAssumption
      <3>q. QED
        BY <2>1, <3>1, GrabSteps, PollSteps, RetrySteps, CancelKeeps, OthersKeep
        DEF Direct!Next, Direct!GrabStep, Direct!PollStep, Direct!UnitEnds, Direct!RetryStep
    <2>2. CASE UNCHANGED dd_vars
      BY <2>2 DEF dd_vars, DirectInv, HoldJobs, RowTypes, Tracked, Stands
    <2>3. Direct!Next \/ UNCHANGED dd_vars
      BY DEF Next, RescanStep, DirectStep, QuarantineStep, IdentityStep, WorkersStep,
             ReconcileStep, vars
    <2>q. QED
      BY <2>1, <2>2, <2>3
  <1>3. DirectInv => GrabbedIsTracked
    BY DEF DirectInv, Tracked, Stands, GrabbedIsTracked, Direct!GrabbedIsTracked,
           Direct!ActiveJob, Direct!Status, GrabbedHere
  <1>q. QED
    BY <1>1, <1>2, <1>3, PTL DEF Spec

-----------------------------------------------------------------------------
(* The quarantine of chapters.                                             *)

Run == [at : Quarantine!Step, chapter : Quarantine!Chapter, linked : BOOLEAN]
QRow == [state : Quarantine!State, file : Quarantine!Maybe, carrier : BOOLEAN,
         guard : Quarantine!Chapter]
Disk == [Quarantine!Place -> Quarantine!Maybe]

\* The unit at work and the state of its row.
UnitAtRow ==
    /\ cq_run.at \in {"capture", "take", "taken"} => cq_row.state = "reserved"
    /\ cq_run.at \in {"take", "taken"} => cq_row.carrier
    /\ cq_run.at \in {"commit", "txn"} => cq_row.state = "captured"
    /\ cq_run.at \in {"undo", "undone"} => cq_row.state \in {"reserved", "captured"}
    /\ cq_run.at \in {"forward", "accept"} => cq_row.state = "committed"
    /\ cq_run.at \in {"back", "return", "repoint"} => cq_row.state = "restoring"
    /\ cq_run.at = "reserve" => cq_prov # NoFile /\ cq_rows < MaxRows
\* The provenance row goes with the commit, the chapter points at its volume from
\* there to the end of a restore.
RowFollows ==
    /\ cq_row.state = "none" => cq_prov # NoFile
    /\ cq_row.state \in {"reserved", "captured", "rolled_back"} =>
         cq_prov # NoFile /\ cq_row.file = cq_prov
    /\ cq_row.state \in {"committed", "quarantined", "restoring", "restored"} =>
         cq_prov = NoFile /\ cq_row.file # NoFile
    /\ cq_row.state \in {"committed", "quarantined", "restoring"} =>
         cq_chapter.at # "original"
\* The carrier holds a file only for a row that is on its way and has recorded it.
CarrierHolds ==
    /\ cq_row.state \notin {"reserved", "captured", "committed"} =>
         cq_place["carrier"] = NoFile
    /\ cq_run.at \in {"capture", "take", "undone", "accept"} => cq_place["carrier"] = NoFile
    /\ cq_place["carrier"] # NoFile => cq_row.carrier
\* A file that is being restored is in one of the two places.
ReturnHolds ==
    cq_row.state = "restoring" /\ cq_row.file \notin cq_gone
    /\ cq_harm[cq_row.file] = "intact" =>
      cq_row.file \in {cq_place["quarantine"], cq_place["original"]}

QuarantineInv ==
    /\ Quarantine!TypeOK
    /\ UnitAtRow /\ RowFollows /\ CarrierHolds /\ ReturnHolds
    /\ QuarantineSafe

LEMMA QuarantineTypeOK ==
  Quarantine!TypeOK <=>
    /\ cq_native \in BOOLEAN /\ cq_chapter \in Quarantine!Chapter
    /\ cq_volume \in {"downloaded", "grabbed", "wanted"}
    /\ cq_prov \in Quarantine!Maybe /\ cq_assembly \in Quarantine!Maybe
    /\ cq_row \in QRow /\ cq_place \in Disk
    /\ cq_harm \in [File -> {"intact", "rewritten", "touched"}]
    /\ cq_run \in Run
    /\ cq_rows \in 0..MaxRows /\ cq_foreigns \in 0..cq_MaxForeign
    /\ cq_edits \in 0..MaxEdits /\ cq_interrupts \in 0..MaxInterrupts
    /\ cq_seen \subseteq File /\ cq_gone \subseteq File
  BY DEF Quarantine!TypeOK, QRow, Disk, Run

\* A step of the unit.
LEMMA GotoType ==
  ASSUME cq_run \in Run, NEW s \in Quarantine!Step, Quarantine!Goto(s)
  PROVE  cq_run' \in Run /\ cq_run'.at = s /\ cq_run'.linked = FALSE
  BY DEF Quarantine!Goto, Run

LEMMA IdleRun ==
  /\ Quarantine!Idle \in Run /\ Quarantine!Idle.at = "idle"
  /\ \A s \in Quarantine!Step : LET r == [Quarantine!Idle EXCEPT !.at = s]
                                IN  r \in Run /\ r.at = s
  /\ \A s \in Quarantine!Step, c \in Quarantine!Chapter :
       LET r == [Quarantine!Idle EXCEPT !.at = s, !.chapter = c] IN r \in Run /\ r.at = s
  <1>1. 0 \in 0..MaxEdits
    BY UnitsAssumption
  <1>2. [at |-> "none", rev |-> 0] \in Quarantine!Chapter
    BY <1>1 DEF Quarantine!Chapter
  <1>3. Quarantine!Idle \in Run /\ Quarantine!Idle.at = "idle"
    BY <1>2 DEF Quarantine!Idle, Run, Quarantine!Step
  <1>4. \A s \in Quarantine!Step : LET r == [Quarantine!Idle EXCEPT !.at = s]
                                   IN  r \in Run /\ r.at = s
    BY <1>3 DEF Run
  <1>5. \A s \in Quarantine!Step, c \in Quarantine!Chapter :
          LET r == [Quarantine!Idle EXCEPT !.at = s, !.chapter = c] IN r \in Run /\ r.at = s
    BY <1>3 DEF Run
  <1>q. QED
    BY <1>3, <1>4, <1>5

\* The row changes its state and nothing else.
LEMMA AdvanceType ==
  ASSUME cq_row \in QRow, NEW s \in Quarantine!State, Quarantine!_advance(s)
  PROVE  /\ cq_row' \in QRow /\ cq_row'.state = s /\ cq_row'.file = cq_row.file
         /\ cq_row'.carrier = cq_row.carrier
  BY DEF Quarantine!_advance, QRow

\* A step that changes the unit only.
LEMMA UnitKeeps ==
  ASSUME QuarantineInv, cq_run' \in Run, cq_interrupts' \in 0..MaxInterrupts,
         UNCHANGED <<cq_native, cq_chapter, cq_volume, cq_prov, cq_assembly, cq_row, cq_place,
                     cq_harm, cq_rows, cq_seen, cq_gone, cq_foreigns, cq_edits>>,
         UnitAtRow',
         cq_run'.at \in {"capture", "take", "undone", "accept"} => cq_place["carrier"] = NoFile
  PROVE  QuarantineInv'
  <1>1. Quarantine!TypeOK'
    BY DEF QuarantineInv, Quarantine!TypeOK, Run
  <1>2. RowFollows' /\ CarrierHolds' /\ ReturnHolds'
    BY DEF QuarantineInv, RowFollows, CarrierHolds, ReturnHolds
  <1>3. QuarantineSafe'
    BY DEF QuarantineInv, QuarantineSafe, Quarantine!NothingDeleted, Quarantine!LooseListed,
           Quarantine!QuarantineHolds, Quarantine!Loose, Quarantine!At
  <1>q. QED
    BY <1>1, <1>2, <1>3 DEF QuarantineInv

LEMMA QuarantineInit == ASSUME Quarantine!Init PROVE QuarantineInv
  <1>1. PICK loose \in File, vol \in File :
          /\ cq_place = [l \in Quarantine!Place |->
                           CASE l = "original" -> loose [] l = "volume" -> vol
                             [] OTHER -> NoFile]
          /\ cq_prov = loose /\ cq_assembly = vol /\ cq_seen = {loose, vol}
    BY DEF Quarantine!Init
  <1>2. /\ cq_place["original"] = loose /\ cq_place["volume"] = vol
        /\ cq_place["carrier"] = NoFile /\ cq_place \in Disk
    BY <1>1 DEF Quarantine!Place, Quarantine!Maybe, Disk
  <1>3. /\ 0 \in 0..MaxRows /\ 0 \in 0..cq_MaxForeign /\ 0 \in 0..MaxEdits
        /\ 0 \in 0..MaxInterrupts
    BY UnitsAssumption
  <1>4. cq_chapter \in Quarantine!Chapter /\ [at |-> "none", rev |-> 0] \in Quarantine!Chapter
    BY <1>3 DEF Quarantine!Init, Quarantine!Chapter
  <1>5. cq_row \in QRow /\ cq_row.state = "none"
    BY <1>4 DEF Quarantine!Init, QRow, Quarantine!NoRow, Quarantine!State, Quarantine!Maybe
  <1>6. cq_run \in Run /\ cq_run.at = "idle"
    BY IdleRun DEF Quarantine!Init
  <1>7. Quarantine!TypeOK
    BY <1>1, <1>2, <1>3, <1>4, <1>5, <1>6, QuarantineTypeOK
    DEF Quarantine!Init, Quarantine!Maybe
  <1>8. UnitAtRow /\ RowFollows /\ CarrierHolds /\ ReturnHolds
    BY <1>1, <1>2, <1>5, <1>6, UnitsAssumption
    DEF UnitAtRow, RowFollows, CarrierHolds, ReturnHolds
  <1>9. QuarantineSafe
    BY <1>1, <1>2, <1>5, UnitsAssumption
    DEF QuarantineSafe, Quarantine!NothingDeleted, Quarantine!LooseListed,
        Quarantine!QuarantineHolds, Quarantine!Loose, Quarantine!At, Quarantine!Place
  <1>q. QED
    BY <1>7, <1>8, <1>9 DEF QuarantineInv

\* A move, the link half of one, or the removal of the private name that is left.
Moved(from, to) ==
    /\ cq_place[from] # NoFile
    /\ \/ /\ cq_place[to] = NoFile
          /\ cq_place' = [cq_place EXCEPT ![to] = cq_place[from], ![from] = NoFile]
       \/ /\ cq_place[to] = NoFile
          /\ cq_place' = [cq_place EXCEPT ![to] = cq_place[from]]
       \/ /\ cq_place[to] = cq_place[from]
          /\ cq_place' = [cq_place EXCEPT ![from] = NoFile]

\* What a move does to the disk: the file is at its new name, no other name changes.
LEMMA MovedDoes ==
  ASSUME cq_place \in Disk, NEW from \in Quarantine!Place, NEW to \in Quarantine!Place,
         from # to, Moved(from, to)
  PROVE  /\ cq_place' \in Disk
         /\ cq_place'[to] = cq_place[from] /\ cq_place'[from] \in {cq_place[from], NoFile}
         /\ cq_place[to] \in {NoFile, cq_place[from]}
         /\ \A l \in Quarantine!Place \ {from, to} : cq_place'[l] = cq_place[l]
  BY DEF Moved, Disk, Quarantine!Maybe

\* _move_noreplace and _drop_alias are such moves, and free the old name in the end.
LEMMA MoveNoreplace ==
  ASSUME cq_place \in Disk, cq_run \in Run, NEW from \in Quarantine!Place,
         NEW to \in Quarantine!Place, from # to, NEW done \in Quarantine!Step,
         Quarantine!_move_noreplace(from, to, done)
  PROVE  /\ Moved(from, to) /\ cq_run' \in Run
         /\ \/ cq_run'.at = done /\ cq_place'[from] = NoFile
            \/ cq_run'.at = cq_run.at
         /\ Quarantine!DiskOnly
  <1>1. CASE Quarantine!Rename(from, to) /\ Quarantine!Goto(done) /\ Quarantine!DiskOnly
    <2>1. Moved(from, to) /\ cq_place'[from] = NoFile
      BY <1>1 DEF Quarantine!Rename, Quarantine!Exists, Quarantine!At, Moved, Disk
    <2>q. QED
      BY <1>1, <2>1, GotoType
  <1>2. CASE /\ ~cq_native /\ ~cq_run.linked /\ Quarantine!Exists(from)
             /\ ~Quarantine!Exists(to)
             /\ cq_place' = [cq_place EXCEPT ![to] = Quarantine!At(from)]
             /\ cq_run' = [cq_run EXCEPT !.linked = TRUE]
             /\ Quarantine!DiskOnly
    <2>1. Moved(from, to)
      BY <1>2 DEF Quarantine!Exists, Quarantine!At, Moved
    <2>2. cq_run' \in Run /\ cq_run'.at = cq_run.at
      BY <1>2 DEF Run
    <2>q. QED
      BY <1>2, <2>1, <2>2
  <1>3. CASE /\ cq_run.linked /\ Quarantine!Exists(from)
             /\ Quarantine!At(to) = Quarantine!At(from)
             /\ cq_place' = [cq_place EXCEPT ![from] = NoFile]
             /\ Quarantine!Goto(done)
             /\ Quarantine!DiskOnly
    <2>1. Moved(from, to) /\ cq_place'[from] = NoFile
      BY <1>3 DEF Quarantine!Exists, Quarantine!At, Moved, Disk
    <2>q. QED
      BY <1>3, <2>1, GotoType
  <1>q. QED
    BY <1>1, <1>2, <1>3 DEF Quarantine!_move_noreplace

LEMMA DropAlias ==
  ASSUME cq_place \in Disk, cq_run \in Run, NEW keep \in Quarantine!Place,
         NEW drop \in Quarantine!Place, keep # drop, NEW done \in Quarantine!Step,
         Quarantine!_drop_alias(keep, drop, done)
  PROVE  /\ Moved(drop, keep) /\ cq_run' \in Run
         /\ cq_run'.at = done /\ cq_place'[drop] = NoFile
         /\ Quarantine!DiskOnly
  <1>1. Moved(drop, keep) /\ cq_place'[drop] = NoFile
    BY DEF Quarantine!_drop_alias, Quarantine!Exists, Quarantine!At, Moved, Disk
  <1>q. QED
    BY <1>1, GotoType DEF Quarantine!_drop_alias

\* A move of the row's unit, between the places that the state of the row allows.
LEMMA MoveKeeps ==
  ASSUME QuarantineInv, NEW from \in Quarantine!Place, NEW to \in Quarantine!Place,
         \/ /\ from = "carrier" /\ to = "original"
            /\ cq_row.state \in {"reserved", "captured"}
         \/ from = "carrier" /\ to = "quarantine" /\ cq_row.state = "committed"
         \/ from = "quarantine" /\ to = "original" /\ cq_row.state = "restoring",
         Moved(from, to), Quarantine!DiskOnly, cq_run' \in Run, UnitAtRow',
         cq_run'.at \in {"capture", "take", "undone", "accept"} =>
           cq_place'["carrier"] = NoFile
  PROVE  QuarantineInv'
  <1>1. /\ cq_place' \in Disk
        /\ cq_place'[to] = cq_place[from] /\ cq_place'[from] \in {cq_place[from], NoFile}
        /\ cq_place[to] \in {NoFile, cq_place[from]}
        /\ \A l \in Quarantine!Place \ {from, to} : cq_place'[l] = cq_place[l]
    BY MovedDoes, QuarantineTypeOK DEF QuarantineInv
  <1>2. UNCHANGED <<cq_native, cq_chapter, cq_volume, cq_prov, cq_assembly, cq_row, cq_harm,
                    cq_rows, cq_seen, cq_gone, cq_foreigns, cq_edits, cq_interrupts>>
    BY DEF Quarantine!DiskOnly, Quarantine!library, Quarantine!counts
  <1>3. Quarantine!TypeOK'
    BY <1>1, <1>2 DEF QuarantineInv, Quarantine!TypeOK, Run, Disk
  <1>4. Quarantine!NothingDeleted'
    <2> SUFFICES ASSUME NEW f \in cq_seen \ cq_gone
                 PROVE  \E l \in Quarantine!Place : cq_place'[l] = f
      BY <1>2 DEF Quarantine!NothingDeleted, Quarantine!At
    <2>1. PICK l \in Quarantine!Place : cq_place[l] = f
      BY DEF QuarantineInv, QuarantineSafe, Quarantine!NothingDeleted, Quarantine!At
    <2>2. f # NoFile
      BY UnitsAssumption DEF QuarantineInv, Quarantine!TypeOK
    <2>3. CASE l \in {from, to}
      BY <2>1, <2>2, <2>3, <1>1
    <2>4. CASE l \notin {from, to}
      BY <2>1, <2>4, <1>1
    <2>q. QED
      BY <2>3, <2>4
  <1>5. Quarantine!LooseListed'
    <2>1. CASE from = "carrier" /\ to = "original" /\ cq_row.state \in {"reserved", "captured"}
      <3>1. Quarantine!Loose' = Quarantine!Loose /\ Quarantine!Loose # NoFile
        BY <2>1, <1>2 DEF QuarantineInv, RowFollows, Quarantine!Loose
      <3>2. Quarantine!LooseListed
        BY DEF QuarantineInv, QuarantineSafe
      <3>q. QED
        BY <2>1, <3>1, <3>2, <1>1, <1>2 DEF Quarantine!LooseListed, Quarantine!At
    <2>2. CASE cq_row.state \in {"committed", "restoring"}
      BY <2>2, <1>2 DEF QuarantineInv, RowFollows, Quarantine!LooseListed
    <2>q. QED
      BY <2>1, <2>2
  <1>6. Quarantine!QuarantineHolds'
    BY <1>2 DEF Quarantine!QuarantineHolds
  <1>7. CarrierHolds' /\ RowFollows'
    BY <1>1, <1>2 DEF QuarantineInv, CarrierHolds, RowFollows, Quarantine!Place
  <1>8. ReturnHolds'
    <2>1. CASE from = "quarantine" /\ to = "original"
      BY <2>1, <1>1, <1>2, UnitsAssumption DEF QuarantineInv, ReturnHolds, RowFollows
    <2>2. CASE cq_row.state # "restoring"
      BY <2>2, <1>2 DEF ReturnHolds
    <2>q. QED
      BY <2>1, <2>2
  <1>q. QED
    BY <1>3, <1>4, <1>5, <1>6, <1>7, <1>8 DEF QuarantineInv, QuarantineSafe

\* A unit goes on to a step that fits its row.
LEMMA GoesOn ==
  ASSUME QuarantineInv, Quarantine!UnitOnly, cq_run' \in Run, UnitAtRow',
         cq_run'.at \in {"capture", "take", "undone", "accept"} => cq_place["carrier"] = NoFile
  PROVE  QuarantineInv'
  BY UnitKeeps DEF Quarantine!UnitOnly, Quarantine!library, Quarantine!counts, QuarantineInv,
                   Quarantine!TypeOK

\* cleanup_volume before the row is there, and the replay.
LEMMA StartsKeep ==
  ASSUME QuarantineInv,
         \/ Quarantine!inspect_volume \/ Quarantine!_reserve_refused \/ Quarantine!replay
         \/ Quarantine!_block \/ Quarantine!Interrupt
  PROVE  QuarantineInv'
  <1>1. CASE Quarantine!inspect_volume
    <2>1. cq_run' \in Run /\ cq_run'.at = "reserve" /\ cq_prov' # NoFile
          /\ cq_rows' < MaxRows
      BY <1>1, IdleRun, QuarantineTypeOK
      DEF Quarantine!inspect_volume, Quarantine!UnitOnly, Quarantine!library,
          Quarantine!counts, Quarantine!Step, QuarantineInv
    <2>q. QED
      BY <1>1, <2>1, GoesOn DEF Quarantine!inspect_volume, UnitAtRow
  <1>2. CASE Quarantine!_reserve_refused \/ Quarantine!_block
    <2>1. cq_run' \in Run /\ cq_run'.at = "idle"
      BY <1>2, IdleRun DEF Quarantine!_reserve_refused, Quarantine!_block
    <2>q. QED
      BY <1>2, <2>1, GoesOn DEF Quarantine!_reserve_refused, Quarantine!_block, UnitAtRow
  <1>3. CASE Quarantine!replay
    <2>1. Quarantine!Resume \in Quarantine!Step
          /\ (Quarantine!Resume = "undo" => cq_row.state \in {"reserved", "captured"})
          /\ (Quarantine!Resume = "forward" => cq_row.state = "committed")
          /\ (Quarantine!Resume = "back" => cq_row.state = "restoring")
          /\ Quarantine!Resume \in {"undo", "forward", "back", "idle"}
      BY DEF Quarantine!Resume, Quarantine!Step
    <2>2. cq_run' \in Run /\ cq_run'.at = Quarantine!Resume /\ cq_row' = cq_row
      BY <1>3, <2>1, IdleRun DEF Quarantine!replay, Quarantine!UnitOnly
    <2>q. QED
      BY <1>3, <2>1, <2>2, GoesOn DEF Quarantine!replay, UnitAtRow
  <1>4. CASE Quarantine!Interrupt
    <2>1. cq_run' \in Run /\ cq_run'.at = "idle"
      BY <1>4, IdleRun DEF Quarantine!Interrupt
    <2>2. cq_interrupts' \in 0..MaxInterrupts
      BY <1>4, UnitsAssumption DEF Quarantine!Interrupt, QuarantineInv, Quarantine!TypeOK
    <2>q. QED
      BY <1>4, <2>1, <2>2, UnitKeeps
      DEF Quarantine!Interrupt, Quarantine!library, Quarantine!counts, UnitAtRow
  <1>q. QED
    BY <1>1, <1>2, <1>3, <1>4

\* The row is written; the disk stays as it is.
LEMMA RowKeeps ==
  ASSUME QuarantineInv, cq_run' \in Run, cq_row' \in QRow, cq_chapter' \in Quarantine!Chapter,
         cq_prov' \in Quarantine!Maybe, cq_rows' \in 0..MaxRows,
         UNCHANGED <<cq_native, cq_volume, cq_assembly, cq_place, cq_harm, cq_seen, cq_gone,
                     cq_foreigns, cq_edits, cq_interrupts>>,
         UnitAtRow', RowFollows', CarrierHolds', ReturnHolds',
         Quarantine!LooseListed', Quarantine!QuarantineHolds'
  PROVE  QuarantineInv'
  <1>1. Quarantine!TypeOK'
    BY DEF QuarantineInv, Quarantine!TypeOK, Run, QRow
  <1>2. Quarantine!NothingDeleted'
    BY DEF QuarantineInv, QuarantineSafe, Quarantine!NothingDeleted, Quarantine!At
  <1>q. QED
    BY <1>1, <1>2 DEF QuarantineInv, QuarantineSafe

\* The row is reserved for the file of the provenance row.
LEMMA ReserveKeeps == ASSUME QuarantineInv, Quarantine!_reserve PROVE QuarantineInv'
  <1>1. cq_run' \in Run /\ cq_run'.at = "capture"
    BY GotoType, QuarantineTypeOK DEF Quarantine!_reserve, QuarantineInv, Quarantine!Step
  <1>2. cq_row' = [state |-> "reserved", file |-> cq_prov, carrier |-> FALSE,
                   guard |-> cq_run.chapter]
    BY DEF Quarantine!_reserve
  <1>3. cq_row' \in QRow /\ cq_row'.state = "reserved" /\ cq_row'.file = cq_prov
    BY <1>2 DEF QRow, QuarantineInv, Quarantine!TypeOK, Quarantine!State
  <1>4. UNCHANGED <<cq_native, cq_chapter, cq_volume, cq_prov, cq_assembly, cq_place, cq_harm,
                    cq_seen, cq_gone, cq_foreigns, cq_edits, cq_interrupts>>
    BY DEF Quarantine!_reserve, Quarantine!library
  <1>5. cq_prov # NoFile /\ cq_row.state \notin {"reserved", "captured", "committed"}
    BY DEF Quarantine!_reserve, Quarantine!Reservable, Quarantine!Active
  <1>6. cq_place["carrier"] = NoFile
    BY <1>5 DEF QuarantineInv, CarrierHolds
  <1>7. cq_rows' \in 0..MaxRows
    BY UnitsAssumption
    DEF Quarantine!_reserve, QuarantineInv, UnitAtRow, Quarantine!TypeOK
  <1>8. UnitAtRow' /\ CarrierHolds' /\ ReturnHolds' /\ Quarantine!QuarantineHolds'
    BY <1>1, <1>3, <1>4, <1>6
    DEF UnitAtRow, CarrierHolds, ReturnHolds, Quarantine!QuarantineHolds
  <1>9. RowFollows'
    BY <1>3, <1>4, <1>5 DEF RowFollows
  <1>10. Quarantine!LooseListed'
    BY <1>3, <1>4, <1>5
    DEF QuarantineInv, QuarantineSafe, Quarantine!LooseListed, Quarantine!Loose,
        Quarantine!At
  <1>q. QED
    BY <1>1, <1>3, <1>4, <1>7, <1>8, <1>9, <1>10, RowKeeps DEF QuarantineInv, Quarantine!TypeOK

\* The row advances to another state, and the unit goes on or ends.
LEMMA AdvanceKeeps ==
  ASSUME QuarantineInv, NEW s \in Quarantine!State, Quarantine!_advance(s), cq_run' \in Run,
         UNCHANGED <<cq_native, cq_chapter, cq_volume, cq_prov, cq_assembly, cq_place, cq_harm,
                     cq_rows, cq_seen, cq_gone, cq_foreigns, cq_edits, cq_interrupts>>,
         cq_run'.at = "idle" \/ (s = "captured" /\ cq_run'.at = "commit")
                             \/ (s = "restoring" /\ cq_run'.at = "back"),
         \/ s = "captured" /\ cq_row.state = "reserved"
         \/ s = "rolled_back" /\ cq_row.state \in {"reserved", "captured"}
              /\ cq_place["carrier"] = NoFile
         \/ s = "quarantined" /\ cq_row.state = "committed"
              /\ cq_place["carrier"] = NoFile /\ cq_place["quarantine"] = cq_row.file
         \/ s = "quarantined" /\ cq_row.state = "restoring"
              /\ (cq_place["original"] # cq_row.file \/ cq_harm[cq_row.file] # "intact")
         \/ s = "restoring" /\ cq_row.state = "quarantined"
  PROVE  QuarantineInv'
  <1>1. /\ cq_row' \in QRow /\ cq_row'.state = s /\ cq_row'.file = cq_row.file
        /\ cq_row'.carrier = cq_row.carrier
    BY AdvanceType, QuarantineTypeOK DEF QuarantineInv
  <1>2. UnitAtRow' /\ RowFollows' /\ CarrierHolds'
    BY <1>1 DEF QuarantineInv, UnitAtRow, RowFollows, CarrierHolds
  <1>3. ReturnHolds'
    BY <1>1
    DEF QuarantineInv, QuarantineSafe, ReturnHolds, Quarantine!QuarantineHolds, Quarantine!At
  <1>4. Quarantine!LooseListed'
    <2>1. Quarantine!Loose' = Quarantine!Loose
      BY <1>1 DEF Quarantine!Loose
    <2>2. Quarantine!LooseListed /\ RowFollows
      BY DEF QuarantineInv, QuarantineSafe
    <2>3. CASE s \in {"quarantined", "restoring"}
      BY <2>3, <1>1, <1>2 DEF RowFollows, Quarantine!LooseListed
    <2>4. CASE s = "captured"
      BY <2>1, <2>2, <2>4, <1>1 DEF Quarantine!LooseListed, Quarantine!At
    <2>5. CASE s = "rolled_back"
      <3>1. Quarantine!Loose # NoFile
        BY <2>2, <2>5 DEF RowFollows, Quarantine!Loose
      <3>q. QED
        BY <2>1, <2>2, <2>5, <3>1, <1>1 DEF Quarantine!LooseListed, Quarantine!At
    <2>q. QED
      BY <2>3, <2>4, <2>5
  <1>5. Quarantine!QuarantineHolds'
    BY <1>1 DEF QuarantineInv, CarrierHolds, ReturnHolds, Quarantine!QuarantineHolds,
                Quarantine!At
  <1>q. QED
    BY <1>1, <1>2, <1>3, <1>4, <1>5, RowKeeps DEF QuarantineInv, Quarantine!TypeOK

\* The carrier is recorded, the file is looked at and taken.
LEMMA CaptureKeeps ==
  ASSUME QuarantineInv,
         \/ Quarantine!CarrierRecorded \/ Quarantine!CaptureChecked
         \/ Quarantine!CaptureTaken \/ Quarantine!_capture
  PROVE  QuarantineInv'
  <1>a. cq_run \in Run /\ cq_row \in QRow /\ cq_place \in Disk
    BY QuarantineTypeOK DEF QuarantineInv
  <1>b. {"take", "taken", "undo", "commit"} \subseteq Quarantine!Step
    BY DEF Quarantine!Step
  <1>1. CASE Quarantine!CarrierRecorded
    <2>1. /\ cq_row' \in QRow /\ cq_row'.state = cq_row.state /\ cq_row'.file = cq_row.file
          /\ cq_row'.carrier = TRUE
      BY <1>1, <1>a DEF Quarantine!CarrierRecorded, QRow
    <2>2. UNCHANGED <<cq_native, cq_chapter, cq_volume, cq_prov, cq_assembly, cq_place,
                      cq_harm, cq_run, cq_rows, cq_seen, cq_gone, cq_foreigns, cq_edits,
                      cq_interrupts>>
      BY <1>1 DEF Quarantine!CarrierRecorded, Quarantine!library, Quarantine!counts
    <2>3. UnitAtRow' /\ RowFollows' /\ CarrierHolds' /\ ReturnHolds'
      BY <2>1, <2>2 DEF QuarantineInv, UnitAtRow, RowFollows, CarrierHolds, ReturnHolds
    <2>4. Quarantine!LooseListed' /\ Quarantine!QuarantineHolds'
      BY <2>1, <2>2
      DEF QuarantineInv, QuarantineSafe, Quarantine!LooseListed, Quarantine!Loose,
          Quarantine!QuarantineHolds, Quarantine!At
    <2>q. QED
      BY <1>a, <2>1, <2>2, <2>3, <2>4, RowKeeps DEF QuarantineInv, Quarantine!TypeOK
  <1>2. CASE Quarantine!CaptureChecked
    <2>1. /\ cq_run' \in Run /\ cq_run'.at \in {"take", "undo"}
          /\ cq_row' = cq_row /\ cq_run.at = "capture"
      BY <1>2, <1>a, <1>b, GotoType DEF Quarantine!CaptureChecked, Quarantine!UnitOnly
    <2>2. UnitAtRow' /\ cq_place["carrier"] = NoFile
      BY <1>2, <2>1
      DEF QuarantineInv, UnitAtRow, CarrierHolds, Quarantine!CaptureChecked
    <2>q. QED
      BY <1>2, <2>1, <2>2, GoesOn DEF Quarantine!CaptureChecked
  <1>3. CASE Quarantine!CaptureTaken
    <2>1. cq_run.at = "take" /\ cq_row.state = "reserved" /\ cq_place["carrier"] = NoFile
      BY <1>3 DEF Quarantine!CaptureTaken, QuarantineInv, UnitAtRow, CarrierHolds
    <2>2. UNCHANGED <<cq_native, cq_chapter, cq_volume, cq_prov, cq_assembly, cq_row, cq_harm,
                      cq_rows, cq_seen, cq_gone, cq_foreigns, cq_edits, cq_interrupts>>
      BY <1>3 DEF Quarantine!CaptureTaken, Quarantine!DiskOnly, Quarantine!library,
                  Quarantine!counts
    <2>3. CASE cq_place["original"] = NoFile
      <3>1. cq_place' = cq_place /\ cq_run' \in Run /\ cq_run'.at = "undo"
        BY <1>3, <2>3, <1>a, <1>b, GotoType
        DEF Quarantine!CaptureTaken, Quarantine!Exists, Quarantine!At
      <3>2. UnitAtRow'
        BY <3>1, <2>1, <2>2 DEF UnitAtRow
      <3>q. QED
        BY <3>1, <3>2, <2>2, UnitKeeps DEF QuarantineInv, Quarantine!TypeOK
    <2>4. CASE cq_place["original"] # NoFile
      <3>1. /\ cq_place' = [cq_place EXCEPT !["carrier"] = cq_place["original"],
                                            !["original"] = NoFile]
            /\ cq_run' \in Run /\ cq_run'.at = "taken"
        BY <1>3, <2>4, <1>a, <1>b, GotoType
        DEF Quarantine!CaptureTaken, Quarantine!Exists, Quarantine!At
      <3>2. /\ cq_place' \in Disk /\ cq_place'["carrier"] = cq_place["original"]
            /\ \A l \in Quarantine!Place \ {"carrier", "original"} :
                 cq_place'[l] = cq_place[l]
        BY <3>1, <1>a DEF Disk, Quarantine!Place, Quarantine!Maybe
      <3>3. cq_row.carrier
        BY <2>1 DEF QuarantineInv, UnitAtRow
      <3>4. Quarantine!TypeOK'
        BY <3>1, <3>2, <2>2 DEF QuarantineInv, Quarantine!TypeOK, Run, Disk
      <3>5. UnitAtRow' /\ CarrierHolds' /\ RowFollows'
        BY <3>1, <3>3, <2>1, <2>2 DEF QuarantineInv, UnitAtRow, CarrierHolds, RowFollows
      <3>6. ReturnHolds' /\ Quarantine!QuarantineHolds'
        BY <2>1, <2>2 DEF ReturnHolds, Quarantine!QuarantineHolds
      <3>7. Quarantine!NothingDeleted'
        <4> SUFFICES ASSUME NEW f \in cq_seen \ cq_gone
                     PROVE  \E l \in Quarantine!Place : cq_place'[l] = f
          BY <2>2 DEF Quarantine!NothingDeleted, Quarantine!At
        <4>1. PICK l \in Quarantine!Place : cq_place[l] = f
          BY DEF QuarantineInv, QuarantineSafe, Quarantine!NothingDeleted, Quarantine!At
        <4>2. l # "carrier"
          BY <4>1, <2>1, UnitsAssumption DEF QuarantineInv, Quarantine!TypeOK
        <4>q. QED
          BY <4>1, <4>2, <3>2 DEF Quarantine!Place
      <3>8. Quarantine!LooseListed'
        <4>1. Quarantine!Loose' = Quarantine!Loose /\ Quarantine!Loose # NoFile
          BY <2>1, <2>2 DEF QuarantineInv, RowFollows, Quarantine!Loose
        <4>q. QED
          BY <4>1, <3>2, <2>1, <2>2
          DEF QuarantineInv, QuarantineSafe, Quarantine!LooseListed, Quarantine!At
      <3>q. QED
        BY <3>4, <3>5, <3>6, <3>7, <3>8 DEF QuarantineInv, QuarantineSafe
    <2>q. QED
      BY <2>3, <2>4
  <1>4. CASE Quarantine!_capture
    <2>1. cq_run.at = "taken" /\ cq_row.state = "reserved"
      BY <1>4 DEF Quarantine!_capture, QuarantineInv, UnitAtRow
    <2>2. UNCHANGED <<cq_native, cq_chapter, cq_volume, cq_prov, cq_assembly, cq_place,
                      cq_harm, cq_rows, cq_seen, cq_gone, cq_foreigns, cq_edits,
                      cq_interrupts>>
      BY <1>4 DEF Quarantine!_capture, Quarantine!library, Quarantine!counts
    <2>3. CASE Quarantine!_advance("captured") /\ Quarantine!Goto("commit")
      <3>1. cq_run' \in Run /\ cq_run'.at = "commit" /\ "captured" \in Quarantine!State
        BY <2>3, <1>a, <1>b, GotoType DEF Quarantine!State
      <3>q. QED
        BY <2>1, <2>2, <2>3, <3>1, AdvanceKeeps
    <2>4. CASE Quarantine!Goto("undo") /\ cq_row' = cq_row
      <3>1. cq_run' \in Run /\ cq_run'.at = "undo"
        BY <2>4, <1>a, <1>b, GotoType
      <3>2. UnitAtRow'
        BY <3>1, <2>1, <2>4 DEF UnitAtRow
      <3>q. QED
        BY <2>2, <2>4, <3>1, <3>2, UnitKeeps DEF QuarantineInv, Quarantine!TypeOK
    <2>q. QED
      BY <1>4, <2>3, <2>4 DEF Quarantine!_capture
  <1>q. QED
    BY <1>1, <1>2, <1>3, <1>4

\* The commit: one transaction moves the chapter to its volume and drops the provenance.
LEMMA CommitKeeps ==
  ASSUME QuarantineInv, Quarantine!CommitChecked \/ Quarantine!_commit
  PROVE  QuarantineInv'
  <1>a. cq_run \in Run /\ cq_row \in QRow
    BY QuarantineTypeOK DEF QuarantineInv
  <1>b. {"txn", "undo", "forward"} \subseteq Quarantine!Step
    BY DEF Quarantine!Step
  <1>1. CASE Quarantine!CommitChecked
    <2>1. /\ cq_run' \in Run /\ cq_run'.at \in {"txn", "undo"}
          /\ cq_row' = cq_row /\ cq_run.at = "commit"
      BY <1>1, <1>a, <1>b, GotoType DEF Quarantine!CommitChecked, Quarantine!UnitOnly
    <2>2. UnitAtRow'
      BY <2>1 DEF QuarantineInv, UnitAtRow
    <2>q. QED
      BY <1>1, <2>1, <2>2, GoesOn DEF Quarantine!CommitChecked
  <1>2. CASE Quarantine!_commit
    <2>1. cq_run.at = "txn" /\ cq_row.state = "captured"
      BY <1>2 DEF Quarantine!_commit, QuarantineInv, UnitAtRow
    <2>2. UNCHANGED <<cq_native, cq_volume, cq_assembly, cq_place, cq_harm, cq_rows, cq_seen,
                      cq_gone, cq_foreigns, cq_edits, cq_interrupts>>
      BY <1>2 DEF Quarantine!_commit, Quarantine!counts
    <2>3. CASE Quarantine!Committable
      <3>1. /\ Quarantine!_advance("committed") /\ Quarantine!Goto("forward")
            /\ cq_prov' = NoFile /\ cq_chapter' = [cq_chapter EXCEPT !.at = "volume"]
        BY <1>2, <2>3 DEF Quarantine!_commit
      <3>2. /\ cq_row' \in QRow /\ cq_row'.state = "committed"
            /\ cq_row'.file = cq_row.file /\ cq_row'.carrier = cq_row.carrier
        BY <1>a, <3>1, AdvanceType DEF Quarantine!State
      <3>3. cq_run' \in Run /\ cq_run'.at = "forward"
        BY <1>a, <1>b, <3>1, GotoType
      <3>4. cq_chapter' \in Quarantine!Chapter /\ cq_chapter'.at = "volume"
        BY <3>1 DEF QuarantineInv, Quarantine!TypeOK, Quarantine!Chapter
      <3>5. cq_row.file # NoFile
        BY <2>1 DEF QuarantineInv, RowFollows
      <3>6. cq_prov' \in Quarantine!Maybe
        BY <3>1 DEF Quarantine!Maybe
      <3>7. UnitAtRow' /\ RowFollows' /\ CarrierHolds' /\ ReturnHolds'
        BY <2>1, <2>2, <3>1, <3>2, <3>3, <3>4, <3>5
        DEF QuarantineInv, UnitAtRow, RowFollows, CarrierHolds, ReturnHolds
      <3>8. Quarantine!LooseListed' /\ Quarantine!QuarantineHolds'
        BY <3>2, <3>4 DEF Quarantine!LooseListed, Quarantine!QuarantineHolds
      <3>9. cq_rows' \in 0..MaxRows
        BY <2>2 DEF QuarantineInv, Quarantine!TypeOK
      <3>q. QED
        BY <2>2, <3>2, <3>3, <3>4, <3>6, <3>7, <3>8, <3>9, RowKeeps
    <2>4. CASE ~Quarantine!Committable
      <3>1. Quarantine!Goto("undo") /\ UNCHANGED <<cq_row, cq_chapter, cq_prov>>
        BY <1>2, <2>4 DEF Quarantine!_commit
      <3>2. cq_run' \in Run /\ cq_run'.at = "undo"
        BY <1>a, <1>b, <3>1, GotoType
      <3>3. UnitAtRow'
        BY <3>1, <3>2, <2>1 DEF UnitAtRow
      <3>q. QED
        BY <2>2, <3>1, <3>2, <3>3, UnitKeeps DEF QuarantineInv, Quarantine!TypeOK
    <2>q. QED
      BY <2>3, <2>4
  <1>q. QED
    BY <1>1, <1>2

\* Back to its name, or on into the quarantine.
LEMMA MovesKeep ==
  ASSUME QuarantineInv, Quarantine!_rollback \/ Quarantine!_transfer
  PROVE  QuarantineInv'
  <1>a. cq_run \in Run /\ cq_row \in QRow /\ cq_place \in Disk
    BY QuarantineTypeOK DEF QuarantineInv
  <1>b. {"undone", "accept"} \subseteq Quarantine!Step
    BY DEF Quarantine!Step
  <1>c. {"carrier", "original", "quarantine"} \subseteq Quarantine!Place
    BY DEF Quarantine!Place
  <1>d. Quarantine!DiskOnly => cq_row' = cq_row /\ cq_prov' = cq_prov /\ cq_rows' = cq_rows
    BY DEF Quarantine!DiskOnly, Quarantine!library, Quarantine!counts
  <1>e. ~Quarantine!Held => cq_place["carrier"] = NoFile
    BY DEF QuarantineInv, CarrierHolds, Quarantine!Held, Quarantine!Exists, Quarantine!At
  <1>1. CASE Quarantine!_rollback
    <2>1. cq_run.at = "undo" /\ cq_row.state \in {"reserved", "captured"}
      BY <1>1 DEF Quarantine!_rollback, QuarantineInv, UnitAtRow
    <2>2. CASE Quarantine!_move_noreplace("carrier", "original", "undone")
      <3>1. /\ Moved("carrier", "original") /\ cq_run' \in Run /\ Quarantine!DiskOnly
            /\ \/ cq_run'.at = "undone" /\ cq_place'["carrier"] = NoFile
               \/ cq_run'.at = "undo"
        BY <1>a, <1>b, <1>c, <2>1, <2>2, MoveNoreplace
      <3>2. UnitAtRow'
        BY <1>d, <2>1, <3>1 DEF UnitAtRow
      <3>q. QED
        BY <1>c, <2>1, <3>1, <3>2, MoveKeeps
    <2>3. CASE Quarantine!_drop_alias("original", "carrier", "undone")
      <3>1. /\ Moved("carrier", "original") /\ cq_run' \in Run /\ Quarantine!DiskOnly
            /\ cq_run'.at = "undone" /\ cq_place'["carrier"] = NoFile
        BY <1>a, <1>b, <1>c, <2>3, DropAlias
      <3>2. UnitAtRow'
        BY <1>d, <2>1, <3>1 DEF UnitAtRow
      <3>q. QED
        BY <1>c, <2>1, <3>1, <3>2, MoveKeeps
    <2>4. CASE ~Quarantine!Held /\ Quarantine!Goto("undone") /\ Quarantine!UnitOnly
      <3>1. cq_run' \in Run /\ cq_run'.at = "undone" /\ cq_row' = cq_row
        BY <1>a, <1>b, <2>4, GotoType DEF Quarantine!UnitOnly
      <3>2. UnitAtRow'
        BY <2>1, <3>1 DEF UnitAtRow
      <3>q. QED
        BY <1>e, <2>4, <3>1, <3>2, GoesOn
    <2>q. QED
      BY <1>1, <2>2, <2>3, <2>4 DEF Quarantine!_rollback
  <1>2. CASE Quarantine!_transfer
    <2>1. cq_run.at = "forward" /\ cq_row.state = "committed"
      BY <1>2 DEF Quarantine!_transfer, QuarantineInv, UnitAtRow
    <2>2. CASE Quarantine!_move_noreplace("carrier", "quarantine", "accept")
      <3>1. /\ Moved("carrier", "quarantine") /\ cq_run' \in Run /\ Quarantine!DiskOnly
            /\ \/ cq_run'.at = "accept" /\ cq_place'["carrier"] = NoFile
               \/ cq_run'.at = "forward"
        BY <1>a, <1>b, <1>c, <2>1, <2>2, MoveNoreplace
      <3>2. UnitAtRow'
        BY <1>d, <2>1, <3>1 DEF UnitAtRow
      <3>q. QED
        BY <1>c, <2>1, <3>1, <3>2, MoveKeeps
    <2>3. CASE Quarantine!_drop_alias("quarantine", "carrier", "accept")
      <3>1. /\ Moved("carrier", "quarantine") /\ cq_run' \in Run /\ Quarantine!DiskOnly
            /\ cq_run'.at = "accept" /\ cq_place'["carrier"] = NoFile
        BY <1>a, <1>b, <1>c, <2>3, DropAlias
      <3>2. UnitAtRow'
        BY <1>d, <2>1, <3>1 DEF UnitAtRow
      <3>q. QED
        BY <1>c, <2>1, <3>1, <3>2, MoveKeeps
    <2>4. CASE ~Quarantine!Held /\ Quarantine!Goto("accept") /\ Quarantine!UnitOnly
      <3>1. cq_run' \in Run /\ cq_run'.at = "accept" /\ cq_row' = cq_row
        BY <1>a, <1>b, <2>4, GotoType DEF Quarantine!UnitOnly
      <3>2. UnitAtRow'
        BY <2>1, <3>1 DEF UnitAtRow
      <3>q. QED
        BY <1>e, <2>4, <3>1, <3>2, GoesOn
    <2>q. QED
      BY <1>2, <2>2, <2>3, <2>4 DEF Quarantine!_transfer
  <1>q. QED
    BY <1>1, <1>2

\* A row comes to rest, or leaves the quarantine.
LEMMA RestsKeep ==
  ASSUME QuarantineInv,
         \/ Quarantine!RolledBack \/ Quarantine!Accepted \/ Quarantine!restore
         \/ Quarantine!_refuse_restore
  PROVE  QuarantineInv'
  <1>a. UNCHANGED <<cq_native, cq_chapter, cq_volume, cq_prov, cq_assembly, cq_place, cq_harm,
                    cq_rows, cq_seen, cq_gone, cq_foreigns, cq_edits, cq_interrupts>>
    BY DEF Quarantine!RolledBack, Quarantine!Accepted, Quarantine!restore,
           Quarantine!_refuse_restore, Quarantine!library, Quarantine!counts
  <1>b. {"rolled_back", "quarantined", "restoring"} \subseteq Quarantine!State
        /\ "back" \in Quarantine!Step
    BY DEF Quarantine!State, Quarantine!Step
  <1>1. CASE Quarantine!RolledBack
    <2>1. /\ cq_row.state \in {"reserved", "captured"} /\ cq_place["carrier"] = NoFile
          /\ Quarantine!_advance("rolled_back") /\ cq_run' = Quarantine!Idle
      BY <1>1 DEF Quarantine!RolledBack, QuarantineInv, UnitAtRow, CarrierHolds
    <2>q. QED
      BY <1>a, <1>b, <2>1, IdleRun, AdvanceKeeps
  <1>2. CASE Quarantine!Accepted
    <2>1. /\ cq_row.state = "committed" /\ cq_place["carrier"] = NoFile
          /\ cq_place["quarantine"] = cq_row.file
          /\ Quarantine!_advance("quarantined") /\ cq_run' = Quarantine!Idle
      BY <1>2 DEF Quarantine!Accepted, Quarantine!_pinned_id, Quarantine!At, QuarantineInv,
                  UnitAtRow, CarrierHolds
    <2>q. QED
      BY <1>a, <1>b, <2>1, IdleRun, AdvanceKeeps
  <1>3. CASE Quarantine!restore
    <2>1. /\ cq_row.state = "quarantined" /\ Quarantine!_advance("restoring")
          /\ cq_run' = [Quarantine!Idle EXCEPT !.at = "back"]
      BY <1>3 DEF Quarantine!restore
    <2>2. cq_run' \in Run /\ cq_run'.at = "back"
      BY <1>b, <2>1, IdleRun
    <2>q. QED
      BY <1>a, <1>b, <2>1, <2>2, AdvanceKeeps
  <1>4. CASE Quarantine!_refuse_restore
    <2>1. /\ cq_row.state = "restoring" /\ Quarantine!_advance("quarantined")
          /\ cq_run' = Quarantine!Idle
      BY <1>4 DEF Quarantine!_refuse_restore, QuarantineInv, UnitAtRow
    <2>2. cq_place["original"] # cq_row.file \/ cq_harm[cq_row.file] # "intact"
      BY <1>4, <2>1
      DEF Quarantine!_refuse_restore, Quarantine!_stat_matches, Quarantine!Exists,
          Quarantine!At, QuarantineInv, RowFollows
    <2>q. QED
      BY <1>a, <1>b, <2>1, <2>2, IdleRun, AdvanceKeeps
  <1>q. QED
    BY <1>1, <1>2, <1>3, <1>4

\* A file goes back to its name, and its chapter points at it again.
LEMMA RestoreKeeps ==
  ASSUME QuarantineInv,
         Quarantine!_finish_restore \/ Quarantine!ReturnMoved \/ Quarantine!Repoint
  PROVE  QuarantineInv'
  <1>a. cq_run \in Run /\ cq_row \in QRow /\ cq_place \in Disk
    BY QuarantineTypeOK DEF QuarantineInv
  <1>b. {"repoint", "return"} \subseteq Quarantine!Step /\ "restored" \in Quarantine!State
    BY DEF Quarantine!Step, Quarantine!State
  <1>c. {"original", "quarantine"} \subseteq Quarantine!Place
    BY DEF Quarantine!Place
  <1>d. cq_row.state = "restoring"
    BY DEF Quarantine!_finish_restore, Quarantine!ReturnMoved, Quarantine!Repoint,
           QuarantineInv, UnitAtRow
  <1>e. Quarantine!DiskOnly => cq_row' = cq_row /\ cq_prov' = cq_prov /\ cq_rows' = cq_rows
    BY DEF Quarantine!DiskOnly, Quarantine!library, Quarantine!counts
  <1>1. CASE Quarantine!_finish_restore
    <2>1. CASE Quarantine!_drop_alias("original", "quarantine", "repoint")
      <3>1. /\ Moved("quarantine", "original") /\ cq_run' \in Run /\ Quarantine!DiskOnly
            /\ cq_run'.at = "repoint"
        BY <1>a, <1>b, <1>c, <2>1, DropAlias
      <3>2. UnitAtRow'
        BY <1>d, <1>e, <3>1 DEF UnitAtRow
      <3>q. QED
        BY <1>c, <1>d, <3>1, <3>2, MoveKeeps
    <2>2. CASE /\ Quarantine!Goto("repoint") \/ Quarantine!Goto("return")
               /\ Quarantine!UnitOnly
      <3>1. /\ cq_run' \in Run /\ cq_run'.at \in {"repoint", "return"}
            /\ cq_row' = cq_row
        BY <1>a, <1>b, <2>2, GotoType DEF Quarantine!UnitOnly
      <3>2. UnitAtRow'
        BY <1>d, <3>1 DEF UnitAtRow
      <3>q. QED
        BY <2>2, <3>1, <3>2, GoesOn
    <2>q. QED
      BY <1>1, <2>1, <2>2 DEF Quarantine!_finish_restore
  <1>2. CASE Quarantine!ReturnMoved
    <2>1. /\ cq_run.at = "return"
          /\ Quarantine!_move_noreplace("quarantine", "original", "repoint")
      BY <1>2 DEF Quarantine!ReturnMoved
    <2>2. /\ Moved("quarantine", "original") /\ cq_run' \in Run /\ Quarantine!DiskOnly
          /\ cq_run'.at \in {"repoint", "return"}
      BY <1>a, <1>b, <1>c, <2>1, MoveNoreplace
    <2>3. UnitAtRow'
      BY <1>d, <1>e, <2>2 DEF UnitAtRow
    <2>q. QED
      BY <1>c, <1>d, <2>2, <2>3, MoveKeeps
  <1>3. CASE Quarantine!Repoint
    <2>1. /\ cq_place["original"] = cq_row.file /\ Quarantine!_advance("restored")
          /\ cq_run' = Quarantine!Idle
          /\ cq_chapter' = [cq_chapter EXCEPT !.at =
               IF cq_chapter.at = "volume" /\ cq_volume = "downloaded" THEN "original"
               ELSE @]
      BY <1>3 DEF Quarantine!Repoint, Quarantine!_pinned_id, Quarantine!At
    <2>2. UNCHANGED <<cq_native, cq_volume, cq_prov, cq_assembly, cq_place, cq_harm, cq_rows,
                      cq_seen, cq_gone, cq_foreigns, cq_edits, cq_interrupts>>
      BY <1>3 DEF Quarantine!Repoint, Quarantine!counts
    <2>3. /\ cq_row' \in QRow /\ cq_row'.state = "restored" /\ cq_row'.file = cq_row.file
          /\ cq_row'.carrier = cq_row.carrier
      BY <1>a, <1>b, <2>1, AdvanceType
    <2>4. cq_run' \in Run /\ cq_run'.at = "idle"
      BY <2>1, IdleRun
    <2>5. cq_chapter' \in Quarantine!Chapter
      BY <2>1 DEF QuarantineInv, Quarantine!TypeOK, Quarantine!Chapter
    <2>6. UnitAtRow' /\ RowFollows' /\ CarrierHolds' /\ ReturnHolds'
      BY <1>d, <2>2, <2>3, <2>4
      DEF QuarantineInv, UnitAtRow, RowFollows, CarrierHolds, ReturnHolds
    <2>7. Quarantine!LooseListed' /\ Quarantine!QuarantineHolds'
      BY <1>d, <2>1, <2>2, <2>3
      DEF QuarantineInv, RowFollows, Quarantine!LooseListed, Quarantine!Loose,
          Quarantine!QuarantineHolds, Quarantine!At
    <2>8. cq_rows' \in 0..MaxRows /\ cq_prov' \in Quarantine!Maybe
      BY <2>2 DEF QuarantineInv, Quarantine!TypeOK
    <2>q. QED
      BY <2>2, <2>3, <2>4, <2>5, <2>6, <2>7, <2>8, RowKeeps
  <1>q. QED
    BY <1>1, <1>2, <1>3

\* What others may do: a public file they take away is gone, one they bring is seen, and
\* nothing they do to a file mends it.
LEMMA WorldKeeps ==
  ASSUME QuarantineInv, Quarantine!TypeOK',
         UNCHANGED <<cq_prov, cq_row, cq_run, cq_rows>>,
         cq_chapter'.at = "original" <=> cq_chapter.at = "original",
         cq_gone \subseteq cq_gone',
         \A l \in Quarantine!Place :
           \/ cq_place'[l] = cq_place[l]
           \/ l # "carrier" /\ cq_place[l] \in cq_gone' \cup {NoFile},
         \A f \in cq_seen' \ cq_seen : \E l \in Quarantine!Place : cq_place'[l] = f,
         \A f \in File : cq_harm'[f] = "intact" => cq_harm[f] = "intact"
  PROVE  QuarantineInv'
  <1>a. {"carrier", "original", "quarantine"} \subseteq Quarantine!Place
    BY DEF Quarantine!Place
  <1>b. cq_row.file \in File \cup {NoFile} /\ cq_prov \in File \cup {NoFile}
    BY DEF QuarantineInv, Quarantine!TypeOK, Quarantine!Maybe
  <1>1. cq_place'["carrier"] = cq_place["carrier"]
    BY <1>a
  <1>2. UnitAtRow' /\ RowFollows' /\ CarrierHolds'
    BY <1>1 DEF QuarantineInv, UnitAtRow, RowFollows, CarrierHolds
  <1>3. ReturnHolds'
    BY <1>a, <1>b DEF QuarantineInv, ReturnHolds, RowFollows
  <1>4. Quarantine!NothingDeleted'
    <2> SUFFICES ASSUME NEW f \in cq_seen' \ cq_gone'
                 PROVE  \E l \in Quarantine!Place : cq_place'[l] = f
      BY DEF Quarantine!NothingDeleted, Quarantine!At
    <2>1. CASE f \in cq_seen
      <3>1. PICK l \in Quarantine!Place : cq_place[l] = f
        BY <2>1 DEF QuarantineInv, QuarantineSafe, Quarantine!NothingDeleted, Quarantine!At
      <3>2. f # NoFile
        BY <2>1, UnitsAssumption DEF QuarantineInv, Quarantine!TypeOK
      <3>q. QED
        BY <3>1, <3>2
    <2>q. QED
      BY <2>1
  <1>5. Quarantine!LooseListed'
    <2>1. Quarantine!Loose' = Quarantine!Loose /\ Quarantine!Loose \in File \cup {NoFile}
      BY <1>b DEF Quarantine!Loose
    <2>2. Quarantine!Loose = NoFile => cq_row.state = "none" /\ cq_prov = NoFile
      BY DEF QuarantineInv, RowFollows, Quarantine!Loose, Quarantine!TypeOK,
             Quarantine!State
    <2>3. Quarantine!Loose # NoFile
      BY <2>2 DEF QuarantineInv, RowFollows
    <2>q. QED
      BY <1>a, <1>1, <2>1, <2>3
      DEF QuarantineInv, QuarantineSafe, Quarantine!LooseListed, Quarantine!At
  <1>6. Quarantine!QuarantineHolds'
    BY <1>a, <1>b, <1>1
    DEF QuarantineInv, QuarantineSafe, RowFollows, Quarantine!QuarantineHolds,
        Quarantine!At
  <1>q. QED
    BY <1>2, <1>3, <1>4, <1>5, <1>6 DEF QuarantineInv, QuarantineSafe

\* Somebody removes or replaces a file, or changes one in place.
LEMMA ForeignKeeps ==
  ASSUME QuarantineInv,
         \/ \E l \in Quarantine!Public, c \in Quarantine!Maybe : Quarantine!Foreign(l, c)
         \/ \E f \in File, h \in {"rewritten", "touched"} : Quarantine!Harm(f, h)
  PROVE  QuarantineInv'
  <1>a. Quarantine!TypeOK
    BY DEF QuarantineInv
  <1>b. Quarantine!OnlyFiles
    BY DEF Quarantine!Foreign, Quarantine!Harm
  <1>c. UNCHANGED <<cq_native, cq_chapter, cq_volume, cq_prov, cq_assembly, cq_row, cq_run,
                    cq_rows, cq_edits, cq_interrupts>>
    BY <1>b DEF Quarantine!OnlyFiles, Quarantine!library
  <1>d. cq_foreigns' \in 0..cq_MaxForeign
    <2>1. cq_MaxForeign \in Nat /\ cq_foreigns \in 0..cq_MaxForeign
      BY <1>a, UnitsAssumption DEF Quarantine!TypeOK
    <2>q. QED
      BY <2>1 DEF Quarantine!Foreign, Quarantine!Harm
  <1>1. ASSUME NEW l \in Quarantine!Public, NEW c \in Quarantine!Maybe, Quarantine!Foreign(l, c)
        PROVE  QuarantineInv'
    <2>1. /\ l \in Quarantine!Place /\ l # "carrier"
          /\ cq_place \in Disk
      BY <1>a DEF Quarantine!Public, Quarantine!Place, Quarantine!TypeOK, Disk
    <2>2. cq_place' = [cq_place EXCEPT ![l] = c] /\ cq_place[l] \in Quarantine!Maybe
      BY <1>1, <2>1 DEF Quarantine!Foreign, Disk
    <2>3. /\ cq_place' \in Disk /\ cq_place'[l] = c
          /\ \A k \in Quarantine!Place \ {l} : cq_place'[k] = cq_place[k]
      BY <2>1, <2>2 DEF Disk
    <2>4. /\ cq_seen' = cq_seen \cup ({c} \ {NoFile}) /\ cq_harm' = cq_harm
          /\ cq_gone' = cq_gone \cup ({cq_place[l]} \ {NoFile})
      BY <1>1 DEF Quarantine!Foreign, Quarantine!At
    <2>5. cq_seen' \subseteq File /\ cq_gone' \subseteq File
      BY <1>a, <2>2, <2>4 DEF Quarantine!TypeOK, Quarantine!Maybe
    <2>6. Quarantine!TypeOK'
      BY <1>a, <1>c, <1>d, <2>3, <2>4, <2>5 DEF Quarantine!TypeOK, Disk
    <2>q. QED
      BY <1>c, <2>1, <2>3, <2>4, <2>6, WorldKeeps
  <1>2. ASSUME NEW f \in File, NEW h \in {"rewritten", "touched"}, Quarantine!Harm(f, h)
        PROVE  QuarantineInv'
    <2>1. /\ UNCHANGED <<cq_place, cq_seen, cq_gone>>
          /\ cq_harm' = [cq_harm EXCEPT ![f] = h]
      BY <1>2 DEF Quarantine!Harm
    <2>2. /\ cq_harm' \in [File -> {"intact", "rewritten", "touched"}]
          /\ \A g \in File : cq_harm'[g] = "intact" => cq_harm[g] = "intact"
      BY <1>a, <2>1 DEF Quarantine!TypeOK
    <2>3. Quarantine!TypeOK'
      BY <1>a, <1>c, <1>d, <2>1, <2>2 DEF Quarantine!TypeOK
    <2>q. QED
      BY <1>c, <2>1, <2>2, <2>3, WorldKeeps
  <1>q. QED
    BY <1>1, <1>2

\* An edit of the rows of the library, a deletion or an import of the volume.
LEMMA LibraryKeeps ==
  ASSUME QuarantineInv,
         \/ Quarantine!Edit \/ Quarantine!VolumeDeleted
         \/ \E f \in File : Quarantine!VolumeImported(f)
  PROVE  QuarantineInv'
  <1>a. Quarantine!TypeOK /\ cq_place \in Disk /\ cq_chapter \in Quarantine!Chapter
    BY DEF QuarantineInv, Quarantine!TypeOK, Disk
  <1>b. "volume" \in Quarantine!Place /\ cq_place["volume"] \in Quarantine!Maybe
    BY <1>a DEF Quarantine!Place, Disk
  <1>1. CASE Quarantine!Edit
    <2>1. /\ UNCHANGED <<cq_native, cq_prov, cq_assembly, cq_row, cq_place, cq_harm, cq_run,
                         cq_rows, cq_seen, cq_gone, cq_foreigns, cq_interrupts>>
          /\ cq_edits < MaxEdits /\ cq_edits' = cq_edits + 1
          /\ \/ cq_chapter' = [cq_chapter EXCEPT !.rev = cq_edits + 1] /\ cq_volume' = cq_volume
             \/ cq_volume' = "grabbed" /\ cq_chapter' = cq_chapter
      BY <1>1 DEF Quarantine!Edit
    <2>2. cq_edits + 1 \in 0..MaxEdits
      BY <1>a, <2>1, UnitsAssumption DEF Quarantine!TypeOK
    <2>3. cq_chapter' \in Quarantine!Chapter /\ cq_chapter'.at = cq_chapter.at
      BY <1>a, <2>1, <2>2 DEF Quarantine!Chapter
    <2>4. Quarantine!TypeOK'
      BY <1>a, <2>1, <2>2, <2>3 DEF Quarantine!TypeOK
    <2>q. QED
      BY <2>1, <2>3, <2>4, WorldKeeps
  <1>2. CASE Quarantine!VolumeDeleted
    <2>1. /\ UNCHANGED <<cq_native, cq_prov, cq_assembly, cq_row, cq_harm, cq_run, cq_rows,
                         cq_seen, cq_foreigns, cq_edits, cq_interrupts>>
          /\ cq_volume' = "wanted" /\ cq_place["volume"] # NoFile
          /\ cq_chapter' = [cq_chapter EXCEPT !.at = IF @ = "volume" THEN "none" ELSE @]
          /\ cq_place' = [cq_place EXCEPT !["volume"] = NoFile]
          /\ cq_gone' = cq_gone \cup {cq_place["volume"]}
      BY <1>2 DEF Quarantine!VolumeDeleted, Quarantine!At, Quarantine!Exists
    <2>2. /\ cq_chapter' \in Quarantine!Chapter
          /\ cq_chapter'.at = "original" <=> cq_chapter.at = "original"
      BY <1>a, <2>1 DEF Quarantine!Chapter
    <2>3. /\ cq_place' \in Disk
          /\ \A k \in Quarantine!Place \ {"volume"} : cq_place'[k] = cq_place[k]
      BY <1>a, <1>b, <2>1 DEF Disk, Quarantine!Maybe
    <2>4. cq_gone' \subseteq File
      BY <1>a, <1>b, <2>1 DEF Quarantine!TypeOK, Quarantine!Maybe
    <2>5. Quarantine!TypeOK'
      BY <1>a, <2>1, <2>2, <2>3, <2>4 DEF Quarantine!TypeOK, Disk
    <2>q. QED
      BY <2>1, <2>2, <2>3, <2>5, WorldKeeps
  <1>3. ASSUME NEW f \in File, Quarantine!VolumeImported(f) PROVE QuarantineInv'
    <2>1. /\ UNCHANGED <<cq_native, cq_chapter, cq_prov, cq_row, cq_harm, cq_run, cq_rows,
                         cq_foreigns, cq_edits, cq_interrupts>>
          /\ cq_volume' = "downloaded" /\ cq_assembly' = NoFile
          /\ cq_place' = [cq_place EXCEPT !["volume"] = f]
          /\ cq_seen' = cq_seen \cup {f}
          /\ cq_gone' = cq_gone \cup ({cq_place["volume"]} \ {NoFile})
      BY <1>3 DEF Quarantine!VolumeImported, Quarantine!At
    <2>2. /\ cq_place' \in Disk /\ cq_place'["volume"] = f
          /\ \A k \in Quarantine!Place \ {"volume"} : cq_place'[k] = cq_place[k]
      BY <1>a, <1>b, <2>1 DEF Disk, Quarantine!Maybe
    <2>3. cq_gone' \subseteq File /\ cq_seen' \subseteq File
      BY <1>a, <1>b, <2>1 DEF Quarantine!TypeOK, Quarantine!Maybe
    <2>4. Quarantine!TypeOK'
      BY <1>a, <2>1, <2>2, <2>3 DEF Quarantine!TypeOK, Disk, Quarantine!Maybe
    <2>q. QED
      BY <1>b, <2>1, <2>2, <2>4, WorldKeeps
  <1>q. QED
    BY <1>1, <1>2, <1>3

\* volume_chapter_cleanup deletes no file, keeps the file of a chapter that is listed as
\* loose, and holds what is quarantined there alone: through every interruption of a
\* unit, every replay and every change of files and rows by others.
THEOREM ChaptersAreSafe == Spec => []QuarantineSafe
  <1>1. Init => QuarantineInv
    BY QuarantineInit DEF Init
  <1>2. QuarantineInv /\ [Next]_vars => QuarantineInv'
    <2> SUFFICES ASSUME QuarantineInv, [Next]_vars PROVE QuarantineInv'
      OBVIOUS
    <2>1. CASE Quarantine!Next
      <3>1. CASE Quarantine!Cleanup
        BY <3>1, StartsKeep, ReserveKeeps DEF Quarantine!Cleanup
      <3>2. CASE Quarantine!restore \/ Quarantine!replay \/ Quarantine!Interrupt
        BY <3>2, RestsKeep, StartsKeep
      <3>3. CASE Quarantine!_settle
        BY <3>3, CaptureKeeps, CommitKeeps, MovesKeep, RestsKeep, RestoreKeeps, StartsKeep
        DEF Quarantine!_settle
      <3>4. CASE Quarantine!Others
        BY <3>4, ForeignKeeps, LibraryKeeps DEF Quarantine!Others
      <3>q. QED
        BY <2>1, <3>1, <3>2, <3>3, <3>4 DEF Quarantine!Next
    <2>2. CASE UNCHANGED cq_vars
      <3>1. /\ cq_run \in Run /\ cq_interrupts \in 0..MaxInterrupts
            /\ cq_run.at \in {"capture", "take", "undone", "accept"} =>
                 cq_place["carrier"] = NoFile
        BY QuarantineTypeOK DEF QuarantineInv, CarrierHolds
      <3>2. UnitAtRow'
        BY <2>2 DEF cq_vars, UnitAtRow, QuarantineInv
      <3>q. QED
        BY <2>2, <3>1, <3>2, UnitKeeps DEF cq_vars
    <2>3. Quarantine!Next \/ UNCHANGED cq_vars
      BY DEF Next, RescanStep, DirectStep, QuarantineStep, IdentityStep, WorkersStep,
             ReconcileStep, vars
    <2>q. QED
      BY <2>1, <2>2, <2>3
  <1>3. QuarantineInv => QuarantineSafe
    BY DEF QuarantineInv
  <1>q. QED
    BY <1>1, <1>2, <1>3, PTL DEF Spec

-----------------------------------------------------------------------------
(* Enrolled deletions: an object is only ever recorded in a later set that *)
(* the first set of the deletion named.                                    *)

Object == Identity!Obj \cup {"none"}
\* The records have their fields; a set is only looked at for the objects it names.
IdentityTypes ==
    /\ fi_disk \in [Identity!Place -> Object] /\ fi_row \in Identity!Row /\ fi_dev \in Nat
    /\ fi_led = [kind |-> fi_led.kind, snap |-> fi_led.snap, set |-> fi_led.set]
    /\ fi_led.snap \in Identity!Row
    /\ fi_unit = [at |-> fi_unit.at, new |-> fi_unit.new, set |-> fi_unit.set,
                  seen |-> fi_unit.seen]
    /\ fi_unit.new \in Identity!Row
\* What the active set names, and the set that waits for its transaction.
AreOwned(s) == \A p \in Identity!Place : s.objs[p] = "none" \/ s.objs[p] \in fi_owned
SetsOwned == AreOwned(fi_led.set) /\ (fi_unit.at = "store" => AreOwned(fi_unit.set))

IdentityInv == IdentityTypes /\ SetsOwned

LEMMA IdleUnit ==
  /\ Identity!NoRow \in Identity!Row
  /\ \A p \in Identity!Place : Identity!NoSet.objs[p] = "none"
  /\ Identity!Idle = [at |-> "idle", new |-> Identity!NoRow, set |-> Identity!NoSet,
                      seen |-> "none"]
  BY DEF Identity!NoRow, Identity!Row, Identity!NoSet, Identity!Idle, Identity!none

LEMMA IdentityInit == ASSUME Identity!Init PROVE IdentityInv
  <1>1. fi_row \in Identity!Row /\ fi_disk \in [Identity!Place -> Object]
    <2>1. CASE \E l \in Identity!Legacy : fi_row = l[1] /\ fi_disk = l[2]
      BY <2>1 DEF Identity!Legacy, Identity!Row, Identity!none, Object, Identity!Obj,
                  Identity!Place
    <2>2. CASE /\ fi_row = Identity!NoRow
               /\ \E t \in {"none", "orig"} :
                    fi_disk = [p \in Identity!Place |-> IF p = "target" THEN t ELSE "none"]
      BY <2>2, IdleUnit DEF Object, Identity!Obj
    <2>q. QED
      BY <2>1, <2>2 DEF Identity!Init, Identity!none
  <1>2. /\ fi_dev = 0 /\ fi_unit = Identity!Idle
        /\ fi_led = [kind |-> "none", snap |-> Identity!NoRow, set |-> Identity!NoSet]
    BY DEF Identity!Init
  <1>q. QED
    BY <1>1, <1>2, IdleUnit DEF IdentityInv, IdentityTypes, SetsOwned, AreOwned

\* What is captured under a history names objects of its last set.
LEMMA CapturedAreOwned ==
  ASSUME IdentityInv, NEW r, Identity!capture_set(r, FALSE)
  PROVE  AreOwned(Identity!Taken)
  <1> SUFFICES ASSUME NEW p \in Identity!Place, fi_disk[p] # "none"
               PROVE  fi_disk[p] \in fi_owned
    BY DEF AreOwned, Identity!Taken
  <1>1. Identity!_deletion_transition(fi_led.snap, fi_led.set, r, p)
    BY DEF Identity!capture_set, Identity!none
  <1>2. fi_led.snap.origin \in Identity!Place /\ "artifact" \in Identity!Place
    BY DEF IdentityInv, IdentityTypes, Identity!Row, Identity!Place
  <1>3. PICK q \in Identity!Place : fi_disk[p] = fi_led.set.objs[q]
    BY <1>1, <1>2 DEF Identity!_deletion_transition, Identity!SameObject
  <1>q. QED
    BY <1>3 DEF IdentityInv, SetsOwned, AreOwned

\* The unit is at another step, but at no transaction that it was not at before.
Steady ==
    /\ fi_unit' = [at |-> fi_unit'.at, new |-> fi_unit'.new, set |-> fi_unit'.set,
                   seen |-> fi_unit'.seen]
    /\ fi_unit'.new \in Identity!Row
    /\ fi_unit'.at = "store" => fi_unit.at = "store" /\ fi_unit'.set = fi_unit.set

LEMMA GotoSteady ==
  ASSUME IdentityInv, NEW l, l # "store", Identity!Goto(l)
  PROVE  Steady
  BY DEF IdentityInv, IdentityTypes, Identity!Goto, Steady

LEMMA EndsSteady ==
  ASSUME IdentityInv, Identity!Ends \/ fi_unit' = fi_unit
  PROVE  Steady
  BY IdleUnit DEF IdentityInv, IdentityTypes, Identity!Ends, Steady

LEMMA UnitMoves ==
  ASSUME IdentityInv, UNCHANGED <<fi_led, fi_owned, fi_row>>, fi_dev' \in Nat,
         fi_disk' \in [Identity!Place -> Object], Steady
  PROVE  IdentityInv'
  BY DEF IdentityInv, IdentityTypes, SetsOwned, AreOwned, Steady

\* Evidence of the next phase is captured.
LEMMA PersistKeeps ==
  ASSUME IdentityInv, NEW r \in Identity!Row, Identity!Persist(r)
  PROVE  IdentityInv'
  <1>1. AreOwned(Identity!Taken)
    BY CapturedAreOwned DEF Identity!Persist
  <1>2. /\ UNCHANGED <<fi_disk, fi_row, fi_led, fi_owned, fi_dev>>
        /\ fi_unit' = [fi_unit EXCEPT !.at = "store", !.new = r, !.set = Identity!Taken]
    BY DEF Identity!Persist, Identity!Others
  <1>3. fi_unit' = [at |-> "store", new |-> r, set |-> Identity!Taken, seen |-> fi_unit.seen]
    BY <1>2 DEF IdentityInv, IdentityTypes
  <1>q. QED
    BY <1>1, <1>2, <1>3 DEF IdentityInv, IdentityTypes, SetsOwned, AreOwned

\* What the unit cannot prove it leaves alone.
LEMMA BlockedUnit ==
  Identity!_record_blocked =>
    /\ Identity!Ends /\ Identity!Others
    /\ UNCHANGED <<fi_disk, fi_box, fi_row, fi_enrolled, fi_led, fi_owned>>
  BY PTL DEF Identity!_record_blocked

\* Steps that touch the disk, the carrier or the unit only.
LEMMA ObjectsKeep ==
  ASSUME IdentityInv,
         \/ Identity!replay_volume_file_deletion \/ Identity!Reverify
         \/ Identity!allocate_carrier \/ Identity!ClaimChecked \/ Identity!claim_into_empty
         \/ Identity!link_private_regular \/ Identity!discard_private_regular
         \/ Identity!gc_discarded_carrier
         \/ Identity!_record_blocked \/ Identity!Stop \/ Identity!Remount
         \/ \E p \in Identity!Place, o \in Object : Identity!Foreign(p, o)
  PROVE  IdentityInv'
  <1>a. fi_disk \in [Identity!Place -> Object] /\ fi_dev \in Nat
        /\ fi_row \in Identity!Row
    BY DEF IdentityInv, IdentityTypes
  <1>b. /\ {"target", "artifact"} \subseteq Identity!Place /\ fi_row.origin \in Identity!Place
        /\ "none" \in Object
    BY <1>a DEF Identity!Place, Identity!Row, Object
  <1>c. Identity!Others => UNCHANGED fi_dev
    BY DEF Identity!Others
  <1>1. CASE Identity!replay_volume_file_deletion
    <2>1. Identity!Goto("bind") /\ UNCHANGED <<fi_disk, fi_row, fi_led, fi_owned, fi_dev>>
      BY <1>1, <1>c DEF Identity!replay_volume_file_deletion
    <2>q. QED
      BY <1>a, <2>1, GotoSteady, UnitMoves
  <1>2. CASE Identity!Reverify
    <2>1. /\ Identity!Goto("work") \/ Identity!Goto("idle")
          /\ UNCHANGED <<fi_disk, fi_row, fi_led, fi_owned, fi_dev>>
      BY <1>2, <1>c DEF Identity!Reverify, Identity!Bound
    <2>q. QED
      BY <1>a, <2>1, GotoSteady, UnitMoves
  <1>3. CASE \/ Identity!allocate_carrier \/ Identity!gc_discarded_carrier
             \/ Identity!Remount
    <2>1. /\ fi_unit' = fi_unit /\ fi_dev' \in Nat
          /\ UNCHANGED <<fi_disk, fi_row, fi_led, fi_owned>>
      BY <1>3, <1>a, <1>c
      DEF Identity!allocate_carrier, Identity!gc_discarded_carrier, Identity!Remount
    <2>q. QED
      BY <1>a, <2>1, EndsSteady, UnitMoves
  <1>4. CASE Identity!ClaimChecked
    <2>1. /\ fi_unit' = [fi_unit EXCEPT !.at = "take", !.seen = fi_disk[fi_row.origin]]
          /\ UNCHANGED <<fi_disk, fi_row, fi_led, fi_owned, fi_dev>>
      BY <1>4, <1>c DEF Identity!ClaimChecked
    <2>2. Steady
      BY <2>1 DEF IdentityInv, IdentityTypes, Steady
    <2>q. QED
      BY <1>a, <2>1, <2>2, UnitMoves
  <1>5. CASE \/ Identity!claim_into_empty \/ Identity!link_private_regular
             \/ Identity!discard_private_regular
    <2>1. fi_disk' \in [Identity!Place -> Object]
      BY <1>5, <1>a, <1>b
      DEF Identity!claim_into_empty, Identity!link_private_regular,
          Identity!discard_private_regular, Identity!none
    <2>2. /\ \/ Identity!Goto("work") \/ Identity!Goto("linked") \/ Identity!Ends
             \/ fi_unit' = fi_unit
          /\ UNCHANGED <<fi_row, fi_led, fi_owned, fi_dev>>
      BY <1>5, <1>c
      DEF Identity!claim_into_empty, Identity!link_private_regular,
          Identity!discard_private_regular
    <2>q. QED
      BY <1>a, <2>1, <2>2, GotoSteady, EndsSteady, UnitMoves
  <1>6. CASE Identity!_record_blocked \/ Identity!Stop
    <2>1. Identity!Ends /\ UNCHANGED <<fi_disk, fi_row, fi_led, fi_owned, fi_dev>>
      BY <1>6, <1>c, BlockedUnit DEF Identity!Stop
    <2>q. QED
      BY <1>a, <2>1, EndsSteady, UnitMoves
  <1>7. ASSUME NEW p \in Identity!Place, NEW o \in Object, Identity!Foreign(p, o)
        PROVE  IdentityInv'
    <2>1. fi_disk' = [fi_disk EXCEPT ![p] = o]
          /\ UNCHANGED <<fi_row, fi_led, fi_owned, fi_dev, fi_unit>>
      BY <1>7 DEF Identity!Foreign
    <2>q. QED
      BY <1>a, <2>1, EndsSteady, UnitMoves
  <1>q. QED
    BY <1>1, <1>2, <1>3, <1>4, <1>5, <1>6, <1>7

\* A set is activated: the first one, a later one, or the one of the next phase.
LEMMA ActivationsKeep ==
  ASSUME IdentityInv,
         \/ Identity!enroll_exact_legacy \/ Identity!reserve_volume_file_deletion
         \/ Identity!Birth \/ Identity!_bind_identity \/ Identity!_store_carrier
         \/ Identity!_begin_carrier_creation
  PROVE  IdentityInv'
  <1>a. IdentityTypes /\ SetsOwned
    BY DEF IdentityInv
  <1>b. Identity!Others => UNCHANGED fi_dev
    BY DEF Identity!Others
  <1>1. CASE Identity!enroll_exact_legacy \/ Identity!Birth
    <2>1. UNCHANGED <<fi_disk, fi_row, fi_dev>> /\ (Identity!Ends \/ fi_unit' = fi_unit)
      BY <1>1, <1>b DEF Identity!enroll_exact_legacy, Identity!Birth
    <2>2. fi_unit'.at = "idle"
      <3>1. Identity!Idle.at = "idle"
        BY IdleUnit
      <3>q. QED
        BY <1>1, <3>1 DEF Identity!enroll_exact_legacy, Identity!Birth, Identity!Ends
    <2>3. \/ UNCHANGED <<fi_led, fi_owned>>
          \/ /\ Identity!_activate(fi_row, Identity!Taken)
             /\ fi_owned' = Identity!NamesIn(Identity!Taken)
      BY <1>1 DEF Identity!enroll_exact_legacy, Identity!Birth
    <2>4. CASE UNCHANGED <<fi_led, fi_owned>>
      BY <1>a, <2>1, <2>4, EndsSteady, UnitMoves DEF IdentityTypes
    <2>5. CASE /\ Identity!_activate(fi_row, Identity!Taken)
               /\ fi_owned' = Identity!NamesIn(Identity!Taken)
      <3>1. \A p \in Identity!Place : Identity!Taken.objs[p] = "none"
                                      \/ Identity!Taken.objs[p] \in fi_owned'
        BY <2>5 DEF Identity!NamesIn, Identity!none
      <3>2. fi_led' = [kind |-> "activated", snap |-> fi_row, set |-> Identity!Taken]
        BY <2>5 DEF Identity!_activate
      <3>3. SetsOwned'
        BY <2>2, <3>1, <3>2 DEF SetsOwned, AreOwned
      <3>4. IdentityTypes'
        BY <1>a, <2>1, <3>2, EndsSteady DEF IdentityTypes, Steady
      <3>q. QED
        BY <3>3, <3>4 DEF IdentityInv
    <2>q. QED
      BY <2>3, <2>4, <2>5
  <1>2. CASE Identity!reserve_volume_file_deletion
    <2>1. UNCHANGED <<fi_disk, fi_led, fi_owned, fi_dev>>
          /\ (Identity!Goto("birth") \/ Identity!Ends)
      BY <1>2, <1>b DEF Identity!reserve_volume_file_deletion
    <2>2. fi_row' \in Identity!Row
      <3> DEFINE file == IF fi_disk["target"] = "none" THEN "none"
                         ELSE Identity!Fp(fi_disk["target"])
      <3>1. fi_row' = [Identity!NoRow EXCEPT !.state = "active", !.dev = fi_dev,
                                             !.file = file]
        BY <1>2 DEF Identity!reserve_volume_file_deletion, Identity!none
      <3>2. file \in {"none", "orig", "other"}
        BY <1>a DEF IdentityTypes, Identity!Place, Identity!Fp, Object, Identity!Obj
      <3> HIDE DEF file
      <3>q. QED
        BY <1>a, <3>1, <3>2 DEF IdentityTypes, Identity!NoRow, Identity!Row, Identity!none
    <2>3. Steady
      BY <2>1, GotoSteady, EndsSteady
    <2>q. QED
      BY <1>a, <2>1, <2>2, <2>3
      DEF IdentityInv, IdentityTypes, SetsOwned, AreOwned, Steady
  <1>3. CASE Identity!_bind_identity
    <2>1. UNCHANGED <<fi_disk, fi_row, fi_owned, fi_dev>>
      BY <1>3, <1>b DEF Identity!_bind_identity
    <2>2. /\ \/ Identity!Goto("work") \/ Identity!Goto("idle")
          /\ fi_led' = fi_led
          \/ /\ Identity!Goto("verify") /\ Identity!capture_set(fi_row, FALSE)
             /\ Identity!_activate(fi_row, Identity!Taken)
      BY <1>3 DEF Identity!_bind_identity, Identity!Bound
    <2>3. CASE /\ Identity!Goto("work") \/ Identity!Goto("idle")
               /\ fi_led' = fi_led
      BY <1>a, <2>1, <2>3, GotoSteady, UnitMoves DEF IdentityTypes
    <2>4. CASE /\ Identity!Goto("verify") /\ Identity!capture_set(fi_row, FALSE)
               /\ Identity!_activate(fi_row, Identity!Taken)
      <3>1. AreOwned(Identity!Taken) /\ Steady
        BY <2>4, CapturedAreOwned, GotoSteady
      <3>2. fi_led' = [kind |-> "activated", snap |-> fi_row, set |-> Identity!Taken]
        BY <2>4 DEF Identity!_activate
      <3>q. QED
        BY <1>a, <2>1, <3>1, <3>2 DEF IdentityInv, IdentityTypes, SetsOwned, AreOwned, Steady
    <2>q. QED
      BY <2>2, <2>3, <2>4
  <1>4. CASE Identity!_store_carrier
    <2>1. /\ UNCHANGED <<fi_disk, fi_owned, fi_dev>> /\ fi_unit.at = "store"
          /\ fi_row' = fi_unit.new
          /\ fi_led' = [kind |-> "activated", snap |-> fi_unit.new, set |-> fi_unit.set]
          /\ fi_unit' = [Identity!Idle EXCEPT !.at = "bind"]
      BY <1>4, <1>b DEF Identity!_store_carrier, Identity!_activate
    <2>2. Steady
      BY <2>1, IdleUnit DEF Steady
    <2>3. fi_unit'.at # "store"
      BY <2>1, IdleUnit
    <2>q. QED
      BY <1>a, <2>1, <2>2, <2>3 DEF IdentityInv, IdentityTypes, SetsOwned, AreOwned, Steady
  <1>5. CASE Identity!_begin_carrier_creation
    <2>1. UNCHANGED <<fi_disk, fi_row, fi_owned, fi_dev>>
          /\ fi_led' = [fi_led EXCEPT !.kind = "prepared"] /\ Identity!Goto("create")
      BY <1>5, <1>b DEF Identity!_begin_carrier_creation
    <2>2. Steady
      BY <2>1, GotoSteady
    <2>q. QED
      BY <1>a, <2>1, <2>2 DEF IdentityInv, IdentityTypes, SetsOwned, AreOwned, Steady
  <1>q. QED
    BY <1>1, <1>2, <1>3, <1>4, <1>5

\* The row goes to another phase.
LEMMA PhasesKeep ==
  ASSUME IdentityInv,
         \/ Identity!Allocated \/ Identity!Claiming \/ Identity!Claimed \/ Identity!Restoring
         \/ Identity!Restored \/ Identity!Discarding \/ Identity!Discarded
         \/ Identity!_complete_journal
  PROVE  IdentityInv'
  <1>a. fi_row \in Identity!Row
    BY DEF IdentityInv, IdentityTypes
  <1>1. CASE Identity!Allocated
    <2>1. PICK o \in {"target", "claim"} :
            Identity!Persist([fi_row EXCEPT !.phase = "allocated", !.origin = o,
                                            !.art = fi_row.file])
      BY <1>1 DEF Identity!Allocated
    <2>2. [fi_row EXCEPT !.phase = "allocated", !.origin = o, !.art = fi_row.file]
            \in Identity!Row
      BY <1>a DEF Identity!Row
    <2>q. QED
      BY <2>1, <2>2, PersistKeeps
  <1>2. CASE \/ Identity!Claiming \/ Identity!Claimed \/ Identity!Restoring
             \/ Identity!Discarding \/ Identity!Discarded
    <2>1. PICK s \in {"claiming", "claimed", "restoring", "discarding", "discarded"} :
            Identity!Persist([fi_row EXCEPT !.phase = s])
      BY <1>2 DEF Identity!Claiming, Identity!Claimed, Identity!Restoring,
                  Identity!Discarding, Identity!Discarded
    <2>2. [fi_row EXCEPT !.phase = s] \in Identity!Row
      BY <1>a DEF Identity!Row
    <2>q. QED
      BY <2>1, <2>2, PersistKeeps
  <1>3. CASE Identity!Restored
    <2>1. Identity!Persist([fi_row EXCEPT !.phase = "restored", !.receipt = fi_row.art])
      BY <1>3 DEF Identity!Restored
    <2>2. [fi_row EXCEPT !.phase = "restored", !.receipt = fi_row.art] \in Identity!Row
      BY <1>a DEF Identity!Row
    <2>q. QED
      BY <2>1, <2>2, PersistKeeps
  <1>4. CASE Identity!_complete_journal
    <2>1. Identity!Persist([fi_row EXCEPT !.state = "completed"])
      BY <1>4 DEF Identity!_complete_journal
    <2>2. [fi_row EXCEPT !.state = "completed"] \in Identity!Row
      BY <1>a DEF Identity!Row
    <2>q. QED
      BY <2>1, <2>2, PersistKeeps
  <1>q. QED
    BY <1>1, <1>2, <1>3, <1>4

\* An object leaves the private name only where a discard removes it.
LEMMA OnlyDiscard ==
  ASSUME IdentityInv, Identity!Next, fi_disk["artifact"] # "none",
         fi_disk'["artifact"] = "none"
  PROVE  Identity!discard_private_regular
  <1>1. fi_disk \in [Identity!Place -> Object] /\ "artifact" \in Identity!Place
    BY DEF IdentityInv, IdentityTypes, Identity!Place
  <1>2. fi_disk' # fi_disk
    OBVIOUS
  <1>3. ~Identity!_record_blocked
    BY <1>2, BlockedUnit
  <1>4. ~Identity!claim_into_empty
    BY <1>1 DEF Identity!claim_into_empty, Identity!none
  <1>5. ~Identity!link_private_regular
    BY <1>1 DEF Identity!link_private_regular
  <1>6. \A p \in Identity!Place, o \in Object : ~Identity!Foreign(p, o)
    BY <1>1 DEF Identity!Foreign
  <1>7. ~Identity!_bind_identity /\ ~Identity!_store_carrier /\ ~Identity!Birth
        /\ ~Identity!replay_volume_file_deletion /\ ~Identity!Reverify
        /\ ~Identity!enroll_exact_legacy /\ ~Identity!reserve_volume_file_deletion
        /\ ~Identity!Stop /\ ~Identity!Remount
    BY <1>2
    DEF Identity!_bind_identity, Identity!_store_carrier, Identity!Birth,
        Identity!replay_volume_file_deletion, Identity!Reverify,
        Identity!enroll_exact_legacy, Identity!reserve_volume_file_deletion,
        Identity!Stop, Identity!Remount
  <1>8. \A r : ~Identity!Persist(r)
    BY <1>2 DEF Identity!Persist
  <1>9. ~Identity!_complete_journal
    BY <1>8 DEF Identity!_complete_journal
  <1>10. ~Identity!_begin_carrier_creation /\ ~Identity!allocate_carrier
         /\ ~Identity!ClaimChecked /\ ~Identity!gc_discarded_carrier
    BY <1>2
    DEF Identity!_begin_carrier_creation, Identity!allocate_carrier,
        Identity!ClaimChecked, Identity!gc_discarded_carrier
  <1>11. ~Identity!Allocated /\ ~Identity!Claiming /\ ~Identity!Claimed /\ ~Identity!Restoring
         /\ ~Identity!Restored /\ ~Identity!Discarding /\ ~Identity!Discarded
    BY <1>8
    DEF Identity!Allocated, Identity!Claiming, Identity!Claimed, Identity!Restoring,
        Identity!Restored, Identity!Discarding, Identity!Discarded
  <1>q. QED
    BY <1>3, <1>4, <1>5, <1>6, <1>7, <1>9, <1>10, <1>11
    DEF Identity!Next, Identity!UnitStep, Identity!_replay_private_claim, Object,
        Identity!none

\* An enrolled deletion removes no object but one that its first set named, for any number
\* of remounts, stops and changes by others: a file with the same inode, size, time and
\* content at its name is another object (file_identity_store, volume_file_deletion).
THEOREM DiscardsOnlyOwned == Spec => OnlyOwnedDiscarded
  <1>1. Init => IdentityInv
    BY IdentityInit DEF Init
  <1>2. [Next]_vars => Identity!Next \/ UNCHANGED fi_vars
    BY DEF Next, RescanStep, DirectStep, QuarantineStep, IdentityStep, WorkersStep,
           ReconcileStep, vars
  <1>3. IdentityInv /\ [Next]_vars => IdentityInv'
    <2> SUFFICES ASSUME IdentityInv, [Next]_vars PROVE IdentityInv'
      OBVIOUS
    <2>1. CASE Identity!Next
      BY <2>1, ObjectsKeep, ActivationsKeep, PhasesKeep
      DEF Identity!Next, Identity!UnitStep, Identity!_replay_private_claim, Object,
          Identity!none
    <2>2. CASE UNCHANGED fi_vars
      BY <2>2 DEF fi_vars, IdentityInv, IdentityTypes, SetsOwned, AreOwned
    <2>q. QED
      BY <1>2, <2>1, <2>2
  <1>4. IdentityInv /\ [Next]_vars => [Identity!OnlyOwnedDiscarded]_fi_vars
    <2> SUFFICES ASSUME IdentityInv, Identity!Next,
                        fi_disk["artifact"] # "none", fi_disk'["artifact"] = "none"
                 PROVE  fi_disk["artifact"] \in fi_owned
      BY <1>2 DEF Identity!OnlyOwnedDiscarded, Identity!none
    <2>1. fi_disk["artifact"] = fi_led.set.objs["artifact"]
      BY OnlyDiscard
      DEF Identity!discard_private_regular, Identity!verify_role, Identity!SameObject
    <2>q. QED
      BY <2>1 DEF IdentityInv, SetsOwned, AreOwned, Identity!Place
  <1>q. QED
    BY <1>1, <1>3, <1>4, PTL DEF Spec, OnlyOwnedDiscarded
-----------------------------------------------------------------------------
(* Rescan files: what the journal says of the disk, and that the steps     *)
(* left to the unit find what they were scheduled for.                     *)

FileStep ==
    {"allocate", "save", "copy", "prove", "claiming", "claim", "claimed", "restoring", "restored",
     "discard", "unlink", "discarded", "end"}
      \X (Rescan!Purpose \cup {"completed", "rolled_back"})
SoloStep ==
    {<<"reserve">>, <<"recheck">>, <<"capture">>, <<"publish">>, <<"place">>, <<"published">>,
     <<"commit">>, <<"settle">>, <<"remove">>, <<"uncover">>, <<"restore">>, <<"link">>}
OneStep == FileStep \cup SoloStep
Steps == Seq(OneStep)
Undecided == {"prepared", "published", "rollback"}
Decided == {"db_committed", "completed"}
Src == rf_fs["src"]
Source == rf_op.phase["source"]
\* The publication is being taken back from its name.
Uncovering(op) == op.phase["rollback"] \notin {"none", "discarding", "discarded"}
\* It was under the name of the original.
Uncovered(op, dest) == dest = "src" => ~Uncovering(op)

\* Where the original is, by the phase of its carrier.
Captured ==
    /\ Source \in {"none", "allocated"} => Src = "orig" /\ rf_fs["source"] = "none"
    /\ Source = "claiming" => \/ Src = "orig" /\ rf_fs["source"] = "none"
                              \/ Src = "none" /\ rf_fs["source"] = "orig"
    /\ Source \in {"claimed", "restoring"} => rf_fs["source"] = "orig"
    /\ Source \in {"restored", "discarding", "discarded"} => Src = "orig"
Evidence ==
    /\ rf_op \in Rescan!Operation \cup {Rescan!NoOp}
    /\ rf_fs \in [Rescan!Public \cup Rescan!Purpose -> {"none", "orig", "new", "foreign"}]
    /\ rf_dest \in Rescan!Public
    /\ rf_recorded = IF rf_op.state \in Decided THEN rf_dest ELSE "src"
    /\ rf_op.state = "none" => Src = "orig" /\ rf_fs["source"] = "none"
    /\ rf_op.state = "rolled_back" => Src = "orig"
    /\ rf_op.state \in Decided => rf_fs[rf_dest] = "new"
    /\ rf_op.state \in Undecided =>
         Captured /\ (rf_dest = "src" /\ Uncovering(rf_op) => Src # "orig")

\* What a step finds when the unit comes to it before the decision.
Ready(s, op, fs, dest) ==
    /\ s[1] \in {"allocate", "save", "copy", "prove", "recheck", "capture", "claiming", "claim",
                 "claimed", "publish", "restoring", "place", "published", "commit", "settle",
                 "remove", "uncover", "restore", "link", "restored", "discard", "unlink",
                 "discarded", "end"}
    /\ s[1] \in {"claiming", "claim", "claimed"} => s[2] \in {"source", "rollback"}
    /\ s[1] = "restoring" => s[2] \in {"source", "publication"}
    /\ s[1] = "restored" => s[2] = "source"
    /\ s[1] = "end" => s[2] = "rolled_back" /\ fs["src"] = "orig"
    /\ s[1] \in {"allocate", "save", "copy", "prove"} =>
         /\ s[2] \in {"stage", "source"} => op.phase["source"] = "none"
         /\ s[2] = "publication" => op.phase["source"] = "claimed"
         /\ s[2] = "rollback" => fs["src"] # "orig" \/ dest # "src"
    /\ s[1] \in {"recheck", "capture"} => op.phase["source"] = "none"
    /\ s[1] = "claiming" /\ s[2] = "source" => op.phase["source"] = "allocated"
    /\ s[1] \in {"claim", "claimed"} /\ s[2] = "source" => op.phase["source"] = "claiming"
    /\ s[1] = "claimed" /\ s[2] = "source" => fs["source"] = "orig"
    /\ s[1] \in {"publish", "place"} => op.phase["source"] = "claimed"
    /\ s[1] = "restoring" /\ s[2] = "publication" => op.phase["source"] = "claimed"
    /\ s[1] = "uncover" => Uncovering(op)
    /\ s[1] \in {"claiming", "claim", "claimed"} /\ s[2] = "rollback" => Uncovering(op)
    /\ s[1] \in {"restore", "link"} => Uncovered(op, dest)
    /\ s[1] = "restoring" /\ s[2] = "source" => Uncovered(op, dest) /\ fs["source"] = "orig"
    /\ s[1] \in {"link", "restored"} => op.phase["source"] = "restoring"
    /\ s[1] = "restored" => fs["src"] = "orig"
    /\ s[1] \in {"discard", "unlink", "discarded"} /\ s[2] # "rollback" => fs["src"] = "orig"
    /\ s[1] = "unlink" /\ s[2] = "source" => op.phase["source"] = "discarding"
\* Which step follows which.
Follows(a, b) ==
    /\ a[1] = "allocate" => b = <<"save", a[2]>>
    /\ a[1] = "save" => b = CASE a[2] = "source" -> <<"claiming", "source">>
                              [] a[2] = "rollback" -> <<"uncover">>
                              [] OTHER -> <<"copy", a[2]>>
    /\ a[1] = "copy" => b = <<"prove", a[2]>>
    /\ a[1] = "prove" => b = IF a[2] = "stage" THEN <<"recheck">> ELSE <<"restoring", a[2]>>
    /\ a[1] = "recheck" => b = <<"capture">>
    /\ a[1] = "claiming" => b = <<"claim", a[2]>>
    /\ a[1] = "claim" => b = <<"claimed", a[2]>>
    /\ a[1] = "claimed" => b = IF a[2] = "source" THEN <<"publish">> ELSE <<"discard", a[2]>>
    /\ a[1] = "capture" => b = <<"publish">>
    /\ a[1] \in {"publish", "published"} => b = <<"commit">>
    /\ a[1] = "restoring" => b = IF a[2] = "source" THEN <<"link">> ELSE <<"place">>
    /\ a[1] = "place" => b = <<"published">>
    /\ a[1] = "commit" => b = <<"settle">>
    /\ a[1] \notin {"settle", "end"}
    /\ a[1] \in {"remove", "uncover"} => b = <<"restore">>
    /\ a[1] = "restore" => b = <<"discard", "publication">>
    /\ a[1] = "link" => b = <<"restored", "source">>
    /\ a[1] = "restored" => b = <<"discard", "source">>
    /\ a[1] = "discard" => b = <<"unlink", a[2]>>
    /\ a[1] = "unlink" => b = <<"discarded", a[2]>>
    /\ a[1] = "discarded" => b = CASE a[2] = "rollback" -> <<"restore">>
                                   [] a[2] = "source" -> <<"discard", "publication">>
                                   [] a[2] = "publication" -> <<"discard", "stage">>
                                   [] OTHER -> <<"end", "rolled_back">>
Chain(t) == \A i \in 1..(Len(t) - 1) : Follows(t[i], t[i + 1])
\* What is left to a unit after the decision.
Forward(t) ==
    \A i \in 1..Len(t) :
       /\ t[i][1] \in {"discard", "unlink", "discarded"} \/ t[i] = <<"end", "completed">>
       /\ t[i][1] = "end" => i = Len(t)
Program ==
    <<<<"reserve">>>> \o Rescan!Allocation("stage") \o
    <<<<"copy", "stage">>, <<"prove", "stage">>, <<"recheck">>, <<"capture">>,
      <<"publish">>, <<"commit">>, <<"settle">>>>
\* The steps that are left.
Script ==
    /\ rf_todo \in Steps
    /\ \/ rf_todo = <<>>
       \/ rf_todo = <<<<"settle">>>>
       \/ rf_op.state = "none" /\ rf_todo = Program
       \/ /\ rf_op.state \in Undecided /\ rf_todo # <<>>
          /\ Ready(rf_todo[1], rf_op, rf_fs, rf_dest) /\ Chain(rf_todo)
       \/ rf_op.state = "db_committed" /\ Forward(rf_todo)

RescanInv == rf_foreign \in Nat /\ (rf_foreign = 0 => Evidence /\ Script)

\* What is left of a chain of steps, without its first or its first three steps.
LEMMA TailChain ==
  ASSUME NEW t \in Steps, Chain(t), t # <<>>
  PROVE  /\ Tail(t) \in Steps /\ Chain(Tail(t)) /\ Len(Tail(t)) = Len(t) - 1
         /\ \A i \in 1..Len(Tail(t)) : Tail(t)[i] = t[i + 1]
         /\ Tail(t) # <<>> => Follows(t[1], Tail(t)[1]) /\ Tail(t)[1] \in OneStep
  <1>1. Tail(t) \in Steps /\ Len(Tail(t)) = Len(t) - 1
        /\ \A i \in 1..Len(Tail(t)) : Tail(t)[i] = t[i + 1]
    BY DEF Steps
  <1>2. Chain(Tail(t))
    BY <1>1 DEF Chain, Steps
  <1>3. ASSUME Tail(t) # <<>> PROVE Follows(t[1], Tail(t)[1]) /\ Tail(t)[1] \in OneStep
    <2>1. 1 \in 1..(Len(t) - 1) /\ 1 \in 1..Len(Tail(t))
      BY <1>1, <1>3 DEF Steps
    <2>q. QED
      BY <1>1, <2>1 DEF Chain, Steps
  <1>q. QED
    BY <1>1, <1>2, <1>3

\* Two chains in a row.
LEMMA JoinedChain ==
  ASSUME NEW a \in Steps, NEW t \in Steps, Chain(a), Chain(t), a # <<>>,
         t # <<>> => Follows(a[Len(a)], t[1])
  PROVE  a \o t \in Steps /\ Chain(a \o t) /\ a \o t # <<>> /\ (a \o t)[1] = a[1]
         /\ (t = <<>> => (a \o t)[Len(a \o t)] = a[Len(a)])
         /\ (t # <<>> => (a \o t)[Len(a \o t)] = t[Len(t)])
  <1>1. /\ a \o t \in Steps /\ Len(a \o t) = Len(a) + Len(t) /\ Len(a) \in Nat \ {0}
        /\ Len(t) \in Nat
        /\ \A i \in 1..Len(a) : (a \o t)[i] = a[i]
        /\ \A i \in 1..Len(t) : (a \o t)[Len(a) + i] = t[i]
    BY DEF Steps
  <1>2. Chain(a \o t)
    <2> SUFFICES ASSUME NEW i \in 1..(Len(a \o t) - 1)
                 PROVE  Follows((a \o t)[i], (a \o t)[i + 1])
      BY DEF Chain
    <2>1. CASE i < Len(a)
      BY <1>1, <2>1 DEF Chain
    <2>2. CASE i = Len(a)
      BY <1>1, <2>2
    <2>3. CASE i > Len(a)
      <3> DEFINE k == i - Len(a)
      <3>1. /\ k \in 1..(Len(t) - 1) /\ k \in 1..Len(t) /\ k + 1 \in 1..Len(t)
            /\ i = Len(a) + k /\ i + 1 = Len(a) + (k + 1)
        BY <1>1, <2>3
      <3>2. (a \o t)[i] = t[k] /\ (a \o t)[i + 1] = t[k + 1]
        BY <1>1, <3>1
      <3>3. Follows(t[k], t[k + 1])
        BY <3>1 DEF Chain
      <3>q. QED
        BY <3>2, <3>3
    <2>q. QED
      BY <1>1, <2>1, <2>2, <2>3
  <1>q. QED
    BY <1>1, <1>2

\* The parts the programs are made of.
LEMMA Pieces ==
  ASSUME NEW p \in Rescan!Purpose
  PROVE  /\ Rescan!Allocation(p) \in Steps /\ Chain(Rescan!Allocation(p))
         /\ Rescan!Discarding(p) \in Steps /\ Chain(Rescan!Discarding(p))
         /\ Rescan!Capturing(p) \in Steps /\ Chain(Rescan!Capturing(p))
  <1>1. \A w \in {"allocate", "save", "claiming", "claim", "claimed", "discard", "unlink",
                  "discarded"} : <<w, p>> \in OneStep
    BY DEF OneStep, FileStep
  <1>2. /\ Rescan!Allocation(p) \in Steps /\ Rescan!Discarding(p) \in Steps
        /\ Rescan!Capturing(p) \in Steps
    BY <1>1 DEF Steps, Rescan!Allocation, Rescan!Discarding, Rescan!Capturing
  <1>3. Chain(Rescan!Allocation(p))
    BY DEF Chain, Follows, Rescan!Allocation
  <1>4. Chain(Rescan!Discarding(p))
    <2> SUFFICES ASSUME NEW i \in 1..2
                 PROVE  Follows(Rescan!Discarding(p)[i], Rescan!Discarding(p)[i + 1])
      BY DEF Chain, Rescan!Discarding
    <2>1. Follows(<<"discard", p>>, <<"unlink", p>>) /\ Follows(<<"unlink", p>>, <<"discarded", p>>)
      BY DEF Follows
    <2>q. QED
      BY <2>1 DEF Rescan!Discarding
  <1>5. Chain(Rescan!Capturing(p))
    <2> SUFFICES ASSUME NEW i \in 1..2
                 PROVE  Follows(Rescan!Capturing(p)[i], Rescan!Capturing(p)[i + 1])
      BY DEF Chain, Rescan!Capturing
    <2>1. Follows(<<"claiming", p>>, <<"claim", p>>) /\ Follows(<<"claim", p>>, <<"claimed", p>>)
      BY DEF Follows
    <2>q. QED
      BY <2>1 DEF Rescan!Capturing
  <1>q. QED
    BY <1>2, <1>3, <1>4, <1>5

\* A step that stands alone.
LEMMA Single ==
  ASSUME NEW x \in OneStep
  PROVE  <<x>> \in Steps /\ Chain(<<x>>) /\ Len(<<x>>) = 1 /\ <<x>>[1] = x /\ <<x>> # <<>>
  BY DEF Steps, Chain

\* What is left after three steps.
LEMMA ThreeOn ==
  ASSUME NEW t \in Steps, Chain(t)
  PROVE  /\ Len(t) <= 3 => SubSeq(t, 4, Len(t)) = <<>>
         /\ Len(t) > 3 => LET r == SubSeq(t, 4, Len(t))
                          IN  /\ r \in Steps /\ Chain(r) /\ r # <<>> /\ r[1] = t[4]
                              /\ t[4] \in OneStep
  <1>1. Len(t) \in Nat /\ (Len(t) <= 3 => SubSeq(t, 4, Len(t)) = <<>>)
    BY DEF Steps
  <1>2. ASSUME Len(t) > 3, NEW r, r = SubSeq(t, 4, Len(t))
        PROVE  r \in Steps /\ Chain(r) /\ r # <<>> /\ r[1] = t[4] /\ t[4] \in OneStep
    <2>1. /\ r \in Steps /\ Len(r) = Len(t) - 3
          /\ \A i \in 1..Len(r) : r[i] = t[i + 3]
      BY <1>1, <1>2 DEF Steps
    <2>2. Chain(r)
      <3> SUFFICES ASSUME NEW i \in 1..(Len(r) - 1) PROVE Follows(r[i], r[i + 1])
        BY DEF Chain
      <3>1. /\ i \in 1..Len(r) /\ i + 1 \in 1..Len(r) /\ i + 3 \in 1..(Len(t) - 1)
            /\ (i + 1) + 3 = (i + 3) + 1
        BY <1>1, <2>1
      <3>2. r[i] = t[i + 3] /\ r[i + 1] = t[(i + 3) + 1]
        BY <2>1, <3>1
      <3>3. Follows(t[i + 3], t[(i + 3) + 1])
        BY <3>1 DEF Chain
      <3>q. QED
        BY <3>2, <3>3
    <2>3. 1 \in 1..Len(r) /\ 4 \in 1..Len(t) /\ 1 + 3 = 4
      BY <1>1, <1>2, <2>1
    <2>4. r # <<>>
      BY <2>1, <2>3
    <2>q. QED
      BY <2>1, <2>2, <2>3, <2>4 DEF Steps
  <1>q. QED
    BY <1>1, <1>2

\* A unit that has ended, or is about to settle.
LEMMA EndScript ==
  ASSUME rf_todo' = <<>> \/ rf_todo' = <<<<"settle">>>>
  PROVE  Script'
  <1>1. <<>> \in Steps /\ <<<<"settle">>>> \in Steps
    BY DEF Steps, OneStep, SoloStep
  <1>q. QED
    BY <1>1 DEF Script

\* A unit before the decision.
AtWork ==
    rf_op.state \in Undecided /\ rf_todo \in Steps /\ rf_todo # <<>> /\ Chain(rf_todo)

\* It goes on with the next step ...
LEMMA StepDone ==
  ASSUME AtWork, Rescan!Then(<<>>), rf_op'.state \in Undecided,
         \A b \in OneStep : Follows(rf_todo[1], b) => Ready(b, rf_op', rf_fs', rf_dest')
  PROVE  Script'
  <1>1. rf_todo' = Tail(rf_todo)
    BY TailChain DEF AtWork, Rescan!Then, Steps
  <1>2. rf_todo' # <<>> => Ready(rf_todo'[1], rf_op', rf_fs', rf_dest')
    BY <1>1, TailChain DEF AtWork
  <1>q. QED
    BY <1>1, <1>2, TailChain DEF AtWork, Script

\* ... or with the steps of a call ...
LEMMA StepCalls ==
  ASSUME AtWork, NEW a \in Steps, a # <<>>, Chain(a), Rescan!Then(a),
         rf_op'.state \in Undecided, Ready(a[1], rf_op', rf_fs', rf_dest'),
         \A b \in OneStep : Follows(rf_todo[1], b) => Follows(a[Len(a)], b)
  PROVE  Script'
  <1>1. rf_todo' = a \o Tail(rf_todo)
    BY DEF Rescan!Then
  <1>2. Tail(rf_todo) \in Steps /\ Chain(Tail(rf_todo))
        /\ (Tail(rf_todo) # <<>> => Follows(a[Len(a)], Tail(rf_todo)[1]))
    BY TailChain DEF AtWork
  <1>3. rf_todo' \in Steps /\ Chain(rf_todo') /\ rf_todo' # <<>> /\ rf_todo'[1] = a[1]
    BY <1>1, <1>2, JoinedChain
  <1>q. QED
    BY <1>3 DEF Script

\* ... or it fails.
LEMMA StepRaises ==
  ASSUME Rescan!Raise, UNCHANGED rf_dest, rf_op'.state \in Undecided
  PROVE  Script'
  <1>1. <<"settle">> \in OneStep /\ <<"restore">> \in OneStep
    BY DEF OneStep, SoloStep
  <1>2. CASE rf_todo' = <<<<"settle">>>> \/ rf_todo' = <<>>
    BY <1>2, EndScript
  <1>3. CASE rf_todo' = <<<<"restore">>>> /\ rf_dest # "src"
    <2>1. Ready(<<"restore">>, rf_op', rf_fs', rf_dest')
      BY <1>3 DEF Ready, Uncovered
    <2>q. QED
      BY <1>1, <1>3, <2>1, Single DEF Script
  <1>q. QED
    BY <1>2, <1>3 DEF Rescan!Raise

\* The carrier has nothing to discard.
LEMMA StepSkips ==
  ASSUME AtWork, NEW p \in Rescan!Purpose, rf_todo[1] = <<"discard", p>>,
         rf_todo' = SubSeq(rf_todo, 4, Len(rf_todo)), rf_op'.state \in Undecided,
         \A b \in OneStep : Follows(<<"discarded", p>>, b) => Ready(b, rf_op', rf_fs', rf_dest')
  PROVE  Script'
  <1>1. Len(rf_todo) \in Nat \ {0} /\ rf_todo \in Steps /\ Chain(rf_todo)
    BY DEF AtWork, Steps
  <1>2. CASE Len(rf_todo) <= 3
    BY <1>1, <1>2, ThreeOn, EndScript
  <1>3. CASE Len(rf_todo) > 3
    <2>1. /\ rf_todo' \in Steps /\ Chain(rf_todo') /\ rf_todo' # <<>>
          /\ rf_todo'[1] = rf_todo[4] /\ rf_todo[4] \in OneStep
      BY <1>1, <1>3, ThreeOn
    <2>2. Follows(<<"discarded", p>>, rf_todo[4])
      <3>1. 1 \in 1..(Len(rf_todo) - 1) /\ 2 \in 1..(Len(rf_todo) - 1) /\ 3 \in 1..(Len(rf_todo) - 1)
        BY <1>1, <1>3
      <3>2. Follows(rf_todo[1], rf_todo[1 + 1]) /\ Follows(rf_todo[2], rf_todo[2 + 1])
            /\ Follows(rf_todo[3], rf_todo[3 + 1])
        BY <1>1, <3>1 DEF Chain
      <3>3. rf_todo[2] = <<"unlink", p>>
        BY <3>2 DEF Follows
      <3>4. rf_todo[3] = <<"discarded", p>>
        BY <3>2, <3>3 DEF Follows
      <3>q. QED
        BY <3>2, <3>4
    <2>q. QED
      BY <2>1, <2>2 DEF Script
  <1>q. QED
    BY <1>1, <1>2, <1>3

\* A step before the decision, with what it finds.
Coming == Evidence /\ AtWork /\ Ready(rf_todo[1], rf_op, rf_fs, rf_dest)
LEMMA Comes ==
  ASSUME Evidence, Script, rf_op.state \in Undecided, rf_todo # <<>>
  PROVE  Coming
  <1>1. CASE rf_todo = <<<<"settle">>>>
    <2>1. <<"settle">> \in OneStep
      BY DEF OneStep, SoloStep
    <2>2. Chain(rf_todo) /\ rf_todo[1] = <<"settle">>
      BY <1>1, <2>1, Single
    <2>3. Ready(<<"settle">>, rf_op, rf_fs, rf_dest)
      BY DEF Ready
    <2>q. QED
      BY <2>2, <2>3 DEF Coming, AtWork, Script
  <1>2. CASE /\ rf_todo # <<>> /\ Chain(rf_todo)
             /\ Ready(rf_todo[1], rf_op, rf_fs, rf_dest)
    BY <1>2 DEF Coming, AtWork, Script
  <1>q. QED
    BY <1>1, <1>2 DEF Script, Undecided
LEMMA Heads ==
  ASSUME Coming, NEW s, Rescan!At(s)
  PROVE  rf_todo[1] = s /\ Ready(s, rf_op, rf_fs, rf_dest)
  BY DEF Coming, AtWork, Rescan!At, Steps

\* The last step of a chain.
LEMMA LastOfChain ==
  ASSUME NEW t \in Steps, Chain(t), t # <<>>, t[1][1] \in {"settle", "end"}
  PROVE  t = <<t[1]>> /\ Tail(t) = <<>>
  <1>1. Tail(t) = <<>>
    BY TailChain DEF Follows
  <1>2. Len(t) = 1
    <2>1. Len(t) - 1 = 0
      BY <1>1, TailChain
    <2>2. Len(t) \in Nat
      BY DEF Steps
    <2>q. QED
      BY <2>1, <2>2
  <1>q. QED
    BY <1>1, <1>2 DEF Steps

\* The original stays where its carrier's phase says.
LEMMA EvidenceStays ==
  ASSUME Evidence, rf_op.state \in Undecided,
         rf_op' \in Rescan!Operation, rf_op'.state \in Undecided,
         rf_fs' \in [Rescan!Public \cup Rescan!Purpose -> {"none", "orig", "new", "foreign"}],
         UNCHANGED <<rf_dest, rf_recorded>>,
         rf_op'.phase["source"] = rf_op.phase["source"],
         rf_fs'["src"] = rf_fs["src"], rf_fs'["source"] = rf_fs["source"],
         rf_dest = "src" /\ Uncovering(rf_op') => Uncovering(rf_op) \/ rf_fs["src"] # "orig"
  PROVE  Evidence'
  BY DEF Evidence, Captured, Src, Source, Undecided, Decided

\* One field of the journal.
LEMMA RowOf ==
  ASSUME NEW op \in Rescan!Operation, NEW p \in Rescan!Purpose, NEW x \in Rescan!Phase
  PROVE  LET new == [op EXCEPT !.phase[p] = x]
         IN  /\ new \in Rescan!Operation /\ new.state = op.state /\ new.phase[p] = x
             /\ \A o \in Rescan!Purpose \ {p} : new.phase[o] = op.phase[o]
  BY DEF Rescan!Operation
LEMMA UndecidedRow ==
  ASSUME Evidence, rf_op.state \in Undecided
  PROVE  rf_op \in Rescan!Operation /\ rf_op.phase \in [Rescan!Purpose -> Rescan!Phase]
  BY DEF Evidence, Undecided, Rescan!NoOp, Rescan!Operation

\* _allocate, _save_record.
LEMMA CarrierKeeps ==
  ASSUME Coming, NEW p \in Rescan!Purpose, Rescan!_allocate(p) \/ Rescan!_save_record(p)
  PROVE  Evidence' /\ Script'
  <1>0. /\ Evidence /\ AtWork /\ rf_op.state \in Undecided /\ rf_op \in Rescan!Operation
        /\ rf_op.phase \in [Rescan!Purpose -> Rescan!Phase]
        /\ "source" \in Rescan!Purpose /\ "rollback" \in Rescan!Purpose
        /\ "allocated" \in Rescan!Phase
    BY UndecidedRow DEF Coming, AtWork, Rescan!Purpose, Rescan!Phase
  <1>1. CASE Rescan!_allocate(p)
    <2>1. rf_todo[1] = <<"allocate", p>> /\ Ready(<<"allocate", p>>, rf_op, rf_fs, rf_dest)
      BY <1>1, Heads DEF Rescan!_allocate
    <2>2. /\ rf_op' \in Rescan!Operation /\ rf_op'.state = rf_op.state
          /\ rf_op'.phase = rf_op.phase
          /\ UNCHANGED <<rf_fs, rf_dest, rf_recorded>> /\ Rescan!Then(<<>>)
      BY <1>0, <1>1 DEF Rescan!_allocate, Rescan!Store, Rescan!Operation
    <2>3. Evidence'
      BY <1>0, <2>2, EvidenceStays DEF Evidence, Uncovering
    <2>4. ASSUME NEW b \in OneStep, Follows(rf_todo[1], b)
          PROVE  Ready(b, rf_op', rf_fs', rf_dest')
      <3>1. b = <<"save", p>>
        BY <2>1, <2>4 DEF Follows
      <3>q. QED
        BY <2>1, <2>2, <3>1 DEF Ready
    <2>q. QED
      BY <1>0, <2>2, <2>3, <2>4, StepDone
  <1>2. CASE Rescan!_save_record(p)
    <2>1. rf_todo[1] = <<"save", p>> /\ Ready(<<"save", p>>, rf_op, rf_fs, rf_dest)
      BY <1>2, Heads DEF Rescan!_save_record
    <2>2. /\ rf_op' \in Rescan!Operation /\ rf_op'.state = rf_op.state
          /\ rf_op'.phase = [rf_op.phase EXCEPT ![p] = "allocated"]
          /\ UNCHANGED <<rf_fs, rf_dest, rf_recorded>> /\ Rescan!Then(<<>>)
      BY <1>0, <1>2 DEF Rescan!_save_record, Rescan!Store, Rescan!Operation
    <2>3. /\ rf_op'.phase[p] = "allocated"
          /\ \A o \in Rescan!Purpose \ {p} : rf_op'.phase[o] = rf_op.phase[o]
      BY <1>0, <2>2
    <2>4. Evidence'
      <3>1. CASE p = "source"
        BY <1>0, <2>1, <2>2, <2>3, <3>1
        DEF Evidence, Captured, Src, Source, Uncovering, Ready, Undecided, Decided
      <3>2. CASE p # "source"
        BY <1>0, <2>1, <2>2, <2>3, <3>2, EvidenceStays DEF Evidence, Uncovering, Ready
      <3>q. QED
        BY <3>1, <3>2
    <2>5. ASSUME NEW b \in OneStep, Follows(rf_todo[1], b)
          PROVE  Ready(b, rf_op', rf_fs', rf_dest')
      <3>1. CASE p = "source"
        <4>1. b = <<"claiming", "source">>
          BY <2>1, <2>5, <3>1 DEF Follows
        <4>q. QED
          BY <2>3, <3>1, <4>1 DEF Ready
      <3>2. CASE p = "rollback"
        <4>1. b = <<"uncover">>
          BY <2>1, <2>5, <3>2 DEF Follows
        <4>q. QED
          BY <2>3, <3>2, <4>1 DEF Ready, Uncovering
      <3>3. CASE p \in {"stage", "publication"}
        <4>1. b = <<"copy", p>>
          BY <2>1, <2>5, <3>3 DEF Follows
        <4>q. QED
          BY <1>0, <2>1, <2>3, <3>3, <4>1 DEF Ready
      <3>q. QED
        BY <3>1, <3>2, <3>3 DEF Rescan!Purpose
    <2>q. QED
      BY <1>0, <2>2, <2>4, <2>5, StepDone
  <1>q. QED
    BY <1>1, <1>2

\* _copy_prepared, _store_fingerprint, _enrichment_context_is_current.
LEMMA PreparationKeeps ==
  ASSUME Coming, NEW p \in {"stage", "publication"},
         \/ Rescan!_copy_prepared(p) \/ Rescan!_store_fingerprint(p)
         \/ Rescan!_enrichment_context_is_current
  PROVE  Evidence' /\ Script'
  <1>0. /\ Evidence /\ AtWork /\ rf_op.state \in Undecided /\ rf_op \in Rescan!Operation
        /\ rf_op.phase \in [Rescan!Purpose -> Rescan!Phase]
        /\ rf_fs \in [Rescan!Public \cup Rescan!Purpose -> {"none", "orig", "new", "foreign"}]
    BY UndecidedRow DEF Coming, AtWork, Evidence
  <1>1. CASE Rescan!_copy_prepared(p)
    <2>1. rf_todo[1] = <<"copy", p>> /\ Ready(<<"copy", p>>, rf_op, rf_fs, rf_dest)
      BY <1>1, Heads DEF Rescan!_copy_prepared
    <2>2. CASE rf_fs' = rf_fs /\ UNCHANGED <<rf_op, rf_dest, rf_recorded>> /\ Rescan!Raise
      BY <1>0, <2>2, EvidenceStays, StepRaises DEF Uncovering
    <2>3. CASE /\ rf_fs' = [rf_fs EXCEPT ![p] = "new"]
               /\ UNCHANGED <<rf_op, rf_dest, rf_recorded>> /\ Rescan!Then(<<>>)
      <3>1. Evidence'
        BY <1>0, <2>3, EvidenceStays DEF Uncovering, Rescan!Public, Rescan!Purpose
      <3>2. ASSUME NEW b \in OneStep, Follows(rf_todo[1], b)
            PROVE  Ready(b, rf_op', rf_fs', rf_dest')
        <4>1. b = <<"prove", p>>
          BY <2>1, <3>2 DEF Follows
        <4>q. QED
          BY <2>1, <2>3, <4>1 DEF Ready
      <3>q. QED
        BY <1>0, <2>3, <3>1, <3>2, StepDone
    <2>q. QED
      BY <1>1, <2>2, <2>3 DEF Rescan!_copy_prepared, Rescan!Skip, Rescan!Files
  <1>2. CASE Rescan!_store_fingerprint(p)
    <2>1. rf_todo[1] = <<"prove", p>> /\ Ready(<<"prove", p>>, rf_op, rf_fs, rf_dest)
      BY <1>2, Heads DEF Rescan!_store_fingerprint
    <2>2. /\ rf_op' \in Rescan!Operation /\ rf_op'.state = rf_op.state
          /\ rf_op'.phase = rf_op.phase
          /\ UNCHANGED <<rf_fs, rf_dest, rf_recorded>> /\ Rescan!Then(<<>>)
      BY <1>0, <1>2 DEF Rescan!_store_fingerprint, Rescan!Store, Rescan!Operation
    <2>3. Evidence'
      BY <1>0, <2>2, EvidenceStays DEF Uncovering
    <2>4. ASSUME NEW b \in OneStep, Follows(rf_todo[1], b)
          PROVE  Ready(b, rf_op', rf_fs', rf_dest')
      <3>1. b = IF p = "stage" THEN <<"recheck">> ELSE <<"restoring", p>>
        BY <2>1, <2>4 DEF Follows
      <3>q. QED
        BY <2>1, <2>2, <3>1 DEF Ready
    <2>q. QED
      BY <1>0, <2>2, <2>3, <2>4, StepDone
  <1>3. CASE Rescan!_enrichment_context_is_current
    <2>1. rf_todo[1] = <<"recheck">> /\ Ready(<<"recheck">>, rf_op, rf_fs, rf_dest)
      BY <1>3, Heads DEF Rescan!_enrichment_context_is_current
    <2>2. UNCHANGED <<rf_op, rf_fs, rf_dest, rf_recorded>>
      BY <1>3 DEF Rescan!_enrichment_context_is_current, Rescan!Skip
    <2>3. Evidence'
      BY <1>0, <2>2, EvidenceStays DEF Uncovering
    <2>4. CASE Rescan!Raise
      BY <1>0, <2>2, <2>3, <2>4, StepRaises
    <2>5. CASE Rescan!Then(<<>>)
      <3>1. ASSUME NEW b \in OneStep, Follows(rf_todo[1], b)
            PROVE  Ready(b, rf_op', rf_fs', rf_dest')
        <4>1. b = <<"capture">>
          BY <2>1, <3>1 DEF Follows
        <4>q. QED
          BY <2>1, <2>2, <4>1 DEF Ready
      <3>q. QED
        BY <1>0, <2>2, <2>3, <2>5, <3>1, StepDone
    <2>q. QED
      BY <1>3, <2>4, <2>5 DEF Rescan!_enrichment_context_is_current
  <1>q. QED
    BY <1>1, <1>2, <1>3

\* The phases the journal records.
LEMMA PhaseKeeps ==
  ASSUME Coming, NEW p \in Rescan!Purpose, NEW phase \in Rescan!Phase, Rescan!_phase(p, phase)
  PROVE  Evidence' /\ Script'
  <1>0. /\ Evidence /\ AtWork /\ rf_op.state \in Undecided /\ rf_op \in Rescan!Operation
        /\ rf_op.phase \in [Rescan!Purpose -> Rescan!Phase]
        /\ "source" \in Rescan!Purpose /\ "rollback" \in Rescan!Purpose
    BY UndecidedRow DEF Coming, AtWork, Rescan!Purpose
  <1>1. rf_todo[1] = <<phase, p>> /\ Ready(<<phase, p>>, rf_op, rf_fs, rf_dest)
    BY Heads DEF Rescan!_phase
  <1>2. /\ rf_op' \in Rescan!Operation /\ rf_op'.state = rf_op.state
        /\ rf_op'.phase = [rf_op.phase EXCEPT ![p] = phase]
        /\ UNCHANGED <<rf_fs, rf_dest, rf_recorded>> /\ Rescan!Then(<<>>)
    BY <1>0 DEF Rescan!_phase, Rescan!Store, Rescan!Operation
  <1>3. /\ rf_op'.phase[p] = phase
        /\ \A o \in Rescan!Purpose \ {p} : rf_op'.phase[o] = rf_op.phase[o]
    BY <1>0, <1>2
  <1>4. /\ phase \in {"claiming", "claimed", "restoring", "restored", "discarded"}
        /\ phase \in {"claiming", "claimed"} => p \in {"source", "rollback"}
        /\ phase = "restoring" => p \in {"source", "publication"}
        /\ phase = "restored" => p = "source"
    BY <1>1 DEF Ready, Rescan!Phase
  <1>5. Evidence'
    <2>1. CASE p = "source"
      BY <1>0, <1>1, <1>2, <1>3, <1>4, <2>1
      DEF Evidence, Captured, Src, Source, Uncovering, Uncovered, Ready, Undecided, Decided
    <2>2. CASE p # "source"
      <3>1. Uncovering(rf_op') => Uncovering(rf_op)
        BY <1>0, <1>1, <1>3, <1>4, <2>2 DEF Uncovering, Ready
      <3>q. QED
        BY <1>0, <1>2, <1>3, <2>2, <3>1, EvidenceStays DEF Evidence
    <2>q. QED
      BY <2>1, <2>2
  <1>6. ASSUME NEW b \in OneStep, Follows(rf_todo[1], b)
        PROVE  Ready(b, rf_op', rf_fs', rf_dest')
    <2>1. CASE phase = "claiming"
      <3>1. b = <<"claim", p>>
        BY <1>1, <1>6, <2>1 DEF Follows
      <3>q. QED
        BY <1>1, <1>2, <1>3, <1>4, <2>1, <3>1 DEF Ready, Uncovering
    <2>2. CASE phase = "claimed"
      <3>1. b = IF p = "source" THEN <<"publish">> ELSE <<"discard", p>>
        BY <1>1, <1>6, <2>2 DEF Follows
      <3>q. QED
        BY <1>1, <1>2, <1>3, <1>4, <2>2, <3>1 DEF Ready
    <2>3. CASE phase = "restoring"
      <3>1. b = IF p = "source" THEN <<"link">> ELSE <<"place">>
        BY <1>1, <1>6, <2>3 DEF Follows
      <3>q. QED
        BY <1>0, <1>1, <1>2, <1>3, <1>4, <2>3, <3>1 DEF Ready, Uncovered, Uncovering
    <2>4. CASE phase = "restored"
      <3>1. b = <<"discard", "source">>
        BY <1>1, <1>6, <2>4 DEF Follows
      <3>q. QED
        BY <1>1, <1>2, <2>4, <3>1 DEF Ready
    <2>5. CASE phase = "discarded"
      <3>1. b = CASE p = "rollback" -> <<"restore">>
                  [] p = "source" -> <<"discard", "publication">>
                  [] p = "publication" -> <<"discard", "stage">>
                  [] OTHER -> <<"end", "rolled_back">>
        BY <1>1, <1>6, <2>5 DEF Follows
      <3>q. QED
        BY <1>1, <1>2, <1>3, <2>5, <3>1 DEF Ready, Uncovered, Uncovering
    <2>q. QED
      BY <1>4, <2>1, <2>2, <2>3, <2>4, <2>5
  <1>q. QED
    BY <1>0, <1>2, <1>5, <1>6, StepDone

\* claim_into_empty.
LEMMA ClaimKeeps ==
  ASSUME Coming, NEW p \in {"source", "rollback"}, Rescan!claim_into_empty(p)
  PROVE  Evidence' /\ Script'
  <1>0. /\ Evidence /\ AtWork /\ rf_op.state \in Undecided /\ rf_op \in Rescan!Operation
        /\ rf_fs \in [Rescan!Public \cup Rescan!Purpose -> {"none", "orig", "new", "foreign"}]
        /\ rf_dest \in {"src", "dst"}
    BY UndecidedRow DEF Coming, AtWork, Evidence, Rescan!Public
  <1>1. rf_todo[1] = <<"claim", p>> /\ Ready(<<"claim", p>>, rf_op, rf_fs, rf_dest)
    BY Heads DEF Rescan!claim_into_empty
  <1>2. UNCHANGED <<rf_op, rf_dest, rf_recorded>>
    BY DEF Rescan!claim_into_empty, Rescan!Skip, Rescan!Files
  <1>3. CASE rf_fs' = rf_fs /\ Rescan!Raise
    BY <1>0, <1>2, <1>3, EvidenceStays, StepRaises DEF Uncovering
  <1>4. CASE /\ p = "source" /\ rf_fs["src"] # "none" /\ rf_fs["source"] = "none"
             /\ rf_fs' = [rf_fs EXCEPT !["source"] = rf_fs["src"], !["src"] = "none"]
             /\ Rescan!Raise \/ Rescan!Then(<<>>)
    <2>1. rf_fs'["source"] = "orig" /\ rf_fs'["src"] = "none" /\ Source = "claiming"
          /\ rf_fs' \in [Rescan!Public \cup Rescan!Purpose -> {"none", "orig", "new", "foreign"}]
          /\ rf_fs'["dst"] = rf_fs["dst"]
      BY <1>0, <1>1, <1>4
      DEF Evidence, Captured, Src, Source, Ready, Rescan!Public, Rescan!Purpose
    <2>2. Evidence'
      BY <1>0, <1>2, <2>1 DEF Evidence, Captured, Src, Source, Undecided, Decided
    <2>3. ASSUME NEW b \in OneStep, Follows(rf_todo[1], b)
          PROVE  Ready(b, rf_op', rf_fs', rf_dest')
      <3>1. b = <<"claimed", "source">>
        BY <1>1, <1>4, <2>3 DEF Follows
      <3>q. QED
        BY <1>1, <1>2, <1>4, <2>1, <3>1 DEF Ready
    <2>q. QED
      BY <1>0, <1>2, <1>4, <2>2, <2>3, StepDone, StepRaises
  <1>5. CASE /\ p = "rollback" /\ rf_fs[rf_dest] # "none"
             /\ rf_fs' = [rf_fs EXCEPT !["rollback"] = rf_fs[rf_dest], ![rf_dest] = "none"]
             /\ Rescan!Raise \/ Rescan!Then(<<>>)
    <2>1. /\ rf_fs' \in [Rescan!Public \cup Rescan!Purpose -> {"none", "orig", "new", "foreign"}]
          /\ rf_fs'["source"] = rf_fs["source"]
          /\ rf_fs'["src"] = IF rf_dest = "src" THEN "none" ELSE rf_fs["src"]
      BY <1>0, <1>5 DEF Rescan!Public, Rescan!Purpose
    <2>2. Uncovering(rf_op)
      BY <1>1, <1>5 DEF Ready
    <2>3. Evidence'
      BY <1>0, <1>2, <1>5, <2>1, <2>2
      DEF Evidence, Captured, Src, Source, Undecided, Decided
    <2>4. ASSUME NEW b \in OneStep, Follows(rf_todo[1], b)
          PROVE  Ready(b, rf_op', rf_fs', rf_dest')
      <3>1. b = <<"claimed", "rollback">>
        BY <1>1, <1>5, <2>4 DEF Follows
      <3>q. QED
        BY <1>2, <2>2, <3>1 DEF Ready
    <2>q. QED
      BY <1>0, <1>2, <1>5, <2>3, <2>4, StepDone, StepRaises
  <1>q. QED
    BY <1>3, <1>4, <1>5
    DEF Rescan!claim_into_empty, Rescan!Skip, Rescan!Files, Rescan!Origin, Rescan!Expected

\* A chain of steps from one to another.
Chained(a, first, last) ==
    a \in Steps /\ Chain(a) /\ a # <<>> /\ a[1] = first /\ a[Len(a)] = last
LEMMA Joins ==
  ASSUME NEW a, NEW t, NEW w, NEW x, NEW y, NEW z,
         Chained(a, w, x), Chained(t, y, z), Follows(x, y)
  PROVE  Chained(a \o t, w, z)
  BY JoinedChain DEF Chained
LEMMA Parts ==
  ASSUME NEW p \in Rescan!Purpose
  PROVE  /\ Chained(Rescan!Allocation(p), <<"allocate", p>>, <<"save", p>>)
         /\ Chained(Rescan!Discarding(p), <<"discard", p>>, <<"discarded", p>>)
         /\ Chained(Rescan!Capturing(p), <<"claiming", p>>, <<"claimed", p>>)
  <1>1. /\ Rescan!Allocation(p) # <<>> /\ Len(Rescan!Allocation(p)) = 2
        /\ Rescan!Allocation(p)[1] = <<"allocate", p>> /\ Rescan!Allocation(p)[2] = <<"save", p>>
    BY DEF Rescan!Allocation
  <1>2. /\ Rescan!Discarding(p) # <<>> /\ Len(Rescan!Discarding(p)) = 3
        /\ Rescan!Discarding(p)[1] = <<"discard", p>>
        /\ Rescan!Discarding(p)[3] = <<"discarded", p>>
    BY DEF Rescan!Discarding
  <1>3. /\ Rescan!Capturing(p) # <<>> /\ Len(Rescan!Capturing(p)) = 3
        /\ Rescan!Capturing(p)[1] = <<"claiming", p>>
        /\ Rescan!Capturing(p)[3] = <<"claimed", p>>
    BY DEF Rescan!Capturing
  <1>q. QED
    BY <1>1, <1>2, <1>3, Pieces DEF Chained
LEMMA Alone ==
  ASSUME NEW x \in OneStep
  PROVE  Chained(<<x>>, x, x)
  BY Single DEF Chained

\* A unit that calls such a chain.
LEMMA StepCallsChain ==
  ASSUME AtWork, NEW a, NEW x, NEW y, Chained(a, x, y), Rescan!Then(a),
         UNCHANGED <<rf_fs, rf_dest, rf_recorded>>, rf_op'.state \in Undecided,
         Ready(x, rf_op', rf_fs', rf_dest'),
         \A b \in OneStep : Follows(rf_todo[1], b) => Follows(y, b)
  PROVE  Script'
  BY StepCalls DEF Chained

\* _capture_source and _publish call the steps of a carrier.
LEMMA CallsKeep ==
  ASSUME Coming, Rescan!_capture_source \/ Rescan!_publish
  PROVE  Evidence' /\ Script'
  <1>0. /\ Evidence /\ AtWork /\ rf_op.state \in Undecided /\ rf_op \in Rescan!Operation
        /\ rf_fs \in [Rescan!Public \cup Rescan!Purpose -> {"none", "orig", "new", "foreign"}]
        /\ "source" \in Rescan!Purpose /\ "publication" \in Rescan!Purpose
    BY UndecidedRow DEF Coming, AtWork, Evidence, Rescan!Purpose
  <1>1. UNCHANGED <<rf_op, rf_fs, rf_dest, rf_recorded>>
    BY DEF Rescan!_capture_source, Rescan!_publish, Rescan!Skip
  <1>2. Evidence'
    BY <1>0, <1>1, EvidenceStays DEF Uncovering
  <1>3. CASE Rescan!Raise
    BY <1>0, <1>1, <1>2, <1>3, StepRaises
  <1>4. CASE rf_todo[1] = <<"capture">>
             /\ Rescan!Then(Rescan!Allocation("source") \o Rescan!Capturing("source"))
    <2>1. Follows(<<"save", "source">>, <<"claiming", "source">>)
      BY DEF Follows
    <2>2. Chained(Rescan!Allocation("source") \o Rescan!Capturing("source"),
                  <<"allocate", "source">>, <<"claimed", "source">>)
      BY <1>0, <2>1, Parts, Joins
    <2>3. Ready(<<"allocate", "source">>, rf_op', rf_fs', rf_dest')
      BY <1>1, <1>4 DEF Coming, Ready
    <2>4. \A b \in OneStep : Follows(rf_todo[1], b) => Follows(<<"claimed", "source">>, b)
      BY <1>4 DEF Follows
    <2>q. QED
      BY <1>0, <1>1, <1>2, <1>4, <2>2, <2>3, <2>4, StepCallsChain
  <1>5. CASE rf_todo[1] = <<"publish">> /\ Rescan!_publish
    <2> DEFINE rest == <<<<"copy", "publication">>, <<"prove", "publication">>,
                         <<"restoring", "publication">>, <<"place">>, <<"published">>>>
    <2>1. /\ Follows(<<"save", "publication">>, <<"copy", "publication">>)
          /\ Follows(<<"copy", "publication">>, <<"prove", "publication">>)
          /\ Follows(<<"prove", "publication">>, <<"restoring", "publication">>)
          /\ Follows(<<"restoring", "publication">>, <<"place">>)
          /\ Follows(<<"place">>, <<"published">>)
      BY DEF Follows
    <2>2. Chained(rest, <<"copy", "publication">>, <<"published">>)
      <3>1. /\ <<"copy", "publication">> \in OneStep /\ <<"prove", "publication">> \in OneStep
            /\ <<"restoring", "publication">> \in OneStep
            /\ <<"place">> \in OneStep /\ <<"published">> \in OneStep
        BY <1>0 DEF OneStep, FileStep, SoloStep
      <3>2. rest \in Steps
        BY <3>1 DEF Steps
      <3>3. /\ Len(rest) = 5 /\ rest # <<>> /\ rest[1] = <<"copy", "publication">>
            /\ rest[1 + 1] = <<"prove", "publication">>
            /\ rest[2] = <<"prove", "publication">>
            /\ rest[2 + 1] = <<"restoring", "publication">>
            /\ rest[3] = <<"restoring", "publication">> /\ rest[3 + 1] = <<"place">>
            /\ rest[4] = <<"place">> /\ rest[4 + 1] = <<"published">>
            /\ rest[5] = <<"published">>
        OBVIOUS
      <3> HIDE DEF rest
      <3>4. ASSUME NEW i \in 1..4 PROVE Follows(rest[i], rest[i + 1])
        <4>1. i = 1 \/ i = 2 \/ i = 3 \/ i = 4
          OBVIOUS
        <4>q. QED
          BY <2>1, <3>3, <4>1
      <3>5. Len(rest) - 1 = 4
        BY <3>3
      <3>q. QED
        BY <3>2, <3>3, <3>4, <3>5 DEF Chain, Chained
    <2>3. Rescan!Then(Rescan!Allocation("publication") \o rest)
      BY <1>5 DEF Rescan!_publish
    <2> HIDE DEF rest
    <2>4. Chained(Rescan!Allocation("publication") \o rest,
                  <<"allocate", "publication">>, <<"published">>)
      BY <1>0, <2>1, <2>2, Parts, Joins
    <2>5. Ready(<<"allocate", "publication">>, rf_op', rf_fs', rf_dest')
      BY <1>1, <1>5 DEF Coming, Ready
    <2>6. \A b \in OneStep : Follows(rf_todo[1], b) => Follows(<<"published">>, b)
      BY <1>5 DEF Follows
    <2>q. QED
      BY <1>0, <1>1, <1>2, <2>3, <2>4, <2>5, <2>6, StepCallsChain
  <1>q. QED
    BY <1>3, <1>4, <1>5, Heads DEF Rescan!_capture_source, Rescan!_publish

\* _rename_noreplace, _store_receipt.
LEMMA PlacementKeeps ==
  ASSUME Coming, Rescan!_rename_noreplace \/ Rescan!_store_receipt
  PROVE  Evidence' /\ Script'
  <1>0. /\ Evidence /\ AtWork /\ rf_op.state \in Undecided /\ rf_op \in Rescan!Operation
        /\ rf_fs \in [Rescan!Public \cup Rescan!Purpose -> {"none", "orig", "new", "foreign"}]
        /\ rf_dest \in {"src", "dst"}
    BY UndecidedRow DEF Coming, AtWork, Evidence, Rescan!Public
  <1>1. CASE Rescan!Raise /\ Rescan!Skip
    BY <1>0, <1>1, EvidenceStays, StepRaises DEF Uncovering, Rescan!Skip
  <1>2. CASE /\ Rescan!At(<<"place">>) /\ Rescan!Then(<<>>)
             /\ \E left \in {"none", "new"} :
                  Rescan!Files([rf_fs EXCEPT ![rf_dest] = "new", !["publication"] = left])
    <2>1. rf_todo[1] = <<"place">> /\ Ready(<<"place">>, rf_op, rf_fs, rf_dest)
      BY <1>2, Heads
    <2>2. PICK left \in {"none", "new"} :
             rf_fs' = [rf_fs EXCEPT ![rf_dest] = "new", !["publication"] = left]
      BY <1>2 DEF Rescan!Files
    <2>3. UNCHANGED <<rf_op, rf_dest, rf_recorded>> /\ Rescan!Then(<<>>)
      BY <1>2 DEF Rescan!Files
    <2>4. /\ rf_fs' \in [Rescan!Public \cup Rescan!Purpose -> {"none", "orig", "new", "foreign"}]
          /\ rf_fs'["source"] = rf_fs["source"]
          /\ rf_fs'["src"] = IF rf_dest = "src" THEN "new" ELSE rf_fs["src"]
      BY <1>0, <2>2 DEF Rescan!Public, Rescan!Purpose
    <2>5. Evidence'
      BY <1>0, <2>1, <2>3, <2>4
      DEF Evidence, Captured, Src, Source, Ready, Undecided, Decided
    <2>6. ASSUME NEW b \in OneStep, Follows(rf_todo[1], b)
          PROVE  Ready(b, rf_op', rf_fs', rf_dest')
      <3>1. b = <<"published">>
        BY <2>1, <2>6 DEF Follows
      <3>q. QED
        BY <3>1 DEF Ready
    <2>q. QED
      BY <1>0, <2>3, <2>5, <2>6, StepDone
  <1>3. CASE Rescan!_store_receipt /\ ~(Rescan!Raise /\ Rescan!Skip)
    <2>1. rf_todo[1] = <<"published">>
      BY <1>3, Heads DEF Rescan!_store_receipt
    <2>2. /\ rf_op' \in Rescan!Operation /\ rf_op'.state = "published"
          /\ rf_op'.phase = rf_op.phase
          /\ UNCHANGED <<rf_fs, rf_dest, rf_recorded>> /\ Rescan!Then(<<>>)
      BY <1>0, <1>3 DEF Rescan!_store_receipt, Rescan!Store, Rescan!Operation
    <2>3. rf_op'.state \in Undecided
      BY <2>2 DEF Undecided
    <2>4. Evidence'
      BY <1>0, <2>2, <2>3, EvidenceStays DEF Uncovering
    <2>5. ASSUME NEW b \in OneStep, Follows(rf_todo[1], b)
          PROVE  Ready(b, rf_op', rf_fs', rf_dest')
      <3>1. b = <<"commit">>
        BY <2>1, <2>5 DEF Follows
      <3>q. QED
        BY <3>1 DEF Ready
    <2>q. QED
      BY <1>0, <2>2, <2>3, <2>4, <2>5, StepDone
  <1>q. QED
    BY <1>1, <1>2, <1>3 DEF Rescan!_rename_noreplace

\* _commit.
LEMMA DecisionKeeps ==
  ASSUME Coming, Rescan!_commit
  PROVE  Evidence' /\ Script'
  <1>0. /\ Evidence /\ AtWork /\ rf_op.state \in Undecided /\ rf_op \in Rescan!Operation
    BY UndecidedRow DEF Coming, AtWork
  <1>1. rf_todo[1] = <<"commit">> /\ rf_todo' = Tail(rf_todo)
    <2>1. rf_todo' = <<>> \o Tail(rf_todo) /\ rf_todo[1] = <<"commit">>
      BY Heads DEF Rescan!_commit, Rescan!Then
    <2>2. Tail(rf_todo) \in Steps
      BY <1>0, TailChain DEF AtWork
    <2>q. QED
      BY <2>1, <2>2 DEF Steps
  <1>2. rf_todo' = <<>> \/ rf_todo' = <<<<"settle">>>>
    <2>1. CASE Tail(rf_todo) # <<>>
      <3>1. rf_todo \in Steps /\ Chain(rf_todo) /\ rf_todo # <<>>
        BY <1>0 DEF AtWork
      <3>2. ASSUME NEW b, Follows(<<"commit">>, b)
            PROVE  b = <<"settle">> /\ b[1] = "settle"
        BY <3>2 DEF Follows
      <3>3. /\ Follows(rf_todo[1], Tail(rf_todo)[1])
            /\ Tail(rf_todo) \in Steps /\ Chain(Tail(rf_todo))
        BY <2>1, <3>1, TailChain
      <3>4. Follows(<<"commit">>, Tail(rf_todo)[1])
        BY <1>1, <3>3
      <3>5. Tail(rf_todo)[1] = <<"settle">> /\ Tail(rf_todo)[1][1] = "settle"
        BY <3>2, <3>4
      <3>6. Tail(rf_todo) = <<Tail(rf_todo)[1]>>
        BY <2>1, <3>3, <3>5, LastOfChain
      <3>q. QED
        BY <1>1, <3>5, <3>6
    <2>q. QED
      BY <1>1, <2>1
  <1>3. Evidence'
    <2>1. CASE Rescan!Decidable
      <3>1. /\ rf_op' \in Rescan!Operation /\ rf_op'.state = "db_committed"
            /\ rf_recorded' = rf_dest /\ rf_fs[rf_dest] = "new"
            /\ UNCHANGED <<rf_fs, rf_dest>>
        BY <1>0, <2>1 DEF Rescan!_commit, Rescan!Decidable, Rescan!Operation
      <3>q. QED
        BY <1>0, <3>1 DEF Evidence, Undecided, Decided
    <2>2. CASE ~Rescan!Decidable
      <3>1. UNCHANGED <<rf_op, rf_recorded, rf_fs, rf_dest>>
        BY <2>2 DEF Rescan!_commit
      <3>q. QED
        BY <1>0, <3>1 DEF Evidence, Captured, Src, Source, Uncovering
    <2>q. QED
      BY <2>1, <2>2
  <1>q. QED
    BY <1>2, <1>3, EndScript

\* The parts of the way back.
LEMMA WayBack ==
  /\ Chained(Rescan!Allocation("rollback") \o <<<<"uncover">>>>,
             <<"allocate", "rollback">>, <<"uncover">>)
  /\ Chained(Rescan!Capturing("rollback") \o Rescan!Discarding("rollback"),
             <<"claiming", "rollback">>, <<"discarded", "rollback">>)
  /\ Chained(<<<<"claimed", "rollback">>>> \o Rescan!Discarding("rollback"),
             <<"claimed", "rollback">>, <<"discarded", "rollback">>)
  /\ Chained(<<<<"restoring", "source">>, <<"link">>, <<"restored", "source">>>> \o
               Rescan!Discarding("source"),
             <<"restoring", "source">>, <<"discarded", "source">>)
  /\ Chained(<<<<"remove">>, <<"restore">>>> \o Rescan!Discarding("publication") \o
               Rescan!Discarding("stage") \o <<<<"end", "rolled_back">>>>,
             <<"remove">>, <<"end", "rolled_back">>)
  <1>1. "rollback" \in Rescan!Purpose /\ "source" \in Rescan!Purpose
        /\ "stage" \in Rescan!Purpose /\ "publication" \in Rescan!Purpose
    BY DEF Rescan!Purpose
  <1>2. /\ <<"uncover">> \in OneStep /\ <<"claimed", "rollback">> \in OneStep
        /\ <<"restoring", "source">> \in OneStep /\ <<"link">> \in OneStep
        /\ <<"restored", "source">> \in OneStep /\ <<"remove">> \in OneStep
        /\ <<"restore">> \in OneStep /\ <<"end", "rolled_back">> \in OneStep
    BY <1>1 DEF OneStep, FileStep, SoloStep
  <1>3. /\ Follows(<<"save", "rollback">>, <<"uncover">>)
        /\ Follows(<<"claimed", "rollback">>, <<"discard", "rollback">>)
        /\ Follows(<<"restoring", "source">>, <<"link">>)
        /\ Follows(<<"link">>, <<"restored", "source">>)
        /\ Follows(<<"restored", "source">>, <<"discard", "source">>)
        /\ Follows(<<"remove">>, <<"restore">>)
        /\ Follows(<<"restore">>, <<"discard", "publication">>)
        /\ Follows(<<"discarded", "publication">>, <<"discard", "stage">>)
        /\ Follows(<<"discarded", "stage">>, <<"end", "rolled_back">>)
    BY DEF Follows
  <1>4. Chained(Rescan!Allocation("rollback") \o <<<<"uncover">>>>,
                <<"allocate", "rollback">>, <<"uncover">>)
    BY <1>1, <1>2, <1>3, Parts, Alone, Joins
  <1>5. Chained(Rescan!Capturing("rollback") \o Rescan!Discarding("rollback"),
                <<"claiming", "rollback">>, <<"discarded", "rollback">>)
    BY <1>1, <1>3, Parts, Joins
  <1>6. Chained(<<<<"claimed", "rollback">>>> \o Rescan!Discarding("rollback"),
                <<"claimed", "rollback">>, <<"discarded", "rollback">>)
    BY <1>1, <1>2, <1>3, Parts, Alone, Joins
  <1>7. Chained(<<<<"restoring", "source">>, <<"link">>, <<"restored", "source">>>> \o
                  Rescan!Discarding("source"),
                <<"restoring", "source">>, <<"discarded", "source">>)
    <2> DEFINE link == <<<<"restoring", "source">>, <<"link">>, <<"restored", "source">>>>
    <2>1. link \in Steps
      BY <1>2 DEF Steps
    <2>2. /\ Len(link) = 3 /\ link # <<>> /\ link[1] = <<"restoring", "source">>
          /\ link[1 + 1] = <<"link">> /\ link[2] = <<"link">>
          /\ link[2 + 1] = <<"restored", "source">> /\ link[3] = <<"restored", "source">>
      OBVIOUS
    <2> HIDE DEF link
    <2>3. Chain(link)
      <3>1. ASSUME NEW i \in 1..2 PROVE Follows(link[i], link[i + 1])
        <4>1. i = 1 \/ i = 2
          OBVIOUS
        <4>q. QED
          BY <1>3, <2>2, <4>1
      <3>2. Len(link) - 1 = 2
        BY <2>2
      <3>q. QED
        BY <3>1, <3>2 DEF Chain
    <2>4. Chained(link, <<"restoring", "source">>, <<"restored", "source">>)
      BY <2>1, <2>2, <2>3 DEF Chained
    <2>5. Chained(link \o Rescan!Discarding("source"),
                  <<"restoring", "source">>, <<"discarded", "source">>)
      BY <1>1, <1>3, <2>4, Parts, Joins
    <2>q. QED
      BY <2>5 DEF link
  <1>8. Chained(<<<<"remove">>, <<"restore">>>> \o Rescan!Discarding("publication") \o
                  Rescan!Discarding("stage") \o <<<<"end", "rolled_back">>>>,
                <<"remove">>, <<"end", "rolled_back">>)
    <2>1. Chained(<<<<"remove">>, <<"restore">>>>, <<"remove">>, <<"restore">>)
      <3>1. <<<<"remove">>, <<"restore">>>> = <<<<"remove">>>> \o <<<<"restore">>>>
        OBVIOUS
      <3>2. Chained(<<<<"remove">>>> \o <<<<"restore">>>>, <<"remove">>, <<"restore">>)
        BY <1>2, <1>3, Alone, Joins
      <3>q. QED
        BY <3>1, <3>2
    <2>2. Chained(<<<<"remove">>, <<"restore">>>> \o Rescan!Discarding("publication"),
                  <<"remove">>, <<"discarded", "publication">>)
      BY <1>1, <1>3, <2>1, Parts, Joins
    <2>3. Chained(<<<<"remove">>, <<"restore">>>> \o Rescan!Discarding("publication") \o
                    Rescan!Discarding("stage"),
                  <<"remove">>, <<"discarded", "stage">>)
      BY <1>1, <1>3, <2>2, Parts, Joins
    <2>q. QED
      BY <1>2, <1>3, <2>3, Alone, Joins
  <1>q. QED
    BY <1>4, <1>5, <1>6, <1>7, <1>8

\* _settle before the decision.
LEMMA SettleKeeps ==
  ASSUME Coming, Rescan!_settle
  PROVE  Evidence' /\ Script'
  <1>0. /\ Evidence /\ AtWork /\ rf_op.state \in Undecided /\ rf_op \in Rescan!Operation
        /\ rf_op.state # "db_committed"
        /\ rf_fs \in [Rescan!Public \cup Rescan!Purpose -> {"none", "orig", "new", "foreign"}]
    BY UndecidedRow DEF Coming, AtWork, Evidence, Undecided
  <1>1. CASE rf_todo' = <<>> /\ Rescan!Skip
    BY <1>0, <1>1, EvidenceStays, EndScript DEF Uncovering, Rescan!Skip
  <1>2. CASE /\ Rescan!Store([rf_op EXCEPT !.state = "rollback"])
             /\ rf_todo' = <<<<"remove">>, <<"restore">>>> \o Rescan!Discarding("publication") \o
                           Rescan!Discarding("stage") \o <<<<"end", "rolled_back">>>>
    <2>1. /\ rf_op' \in Rescan!Operation /\ rf_op'.state = "rollback"
          /\ rf_op'.phase = rf_op.phase
          /\ UNCHANGED <<rf_fs, rf_dest, rf_recorded>>
      BY <1>0, <1>2 DEF Rescan!Store, Rescan!Operation
    <2>2. rf_op'.state \in Undecided
      BY <2>1 DEF Undecided
    <2>3. Evidence'
      BY <1>0, <2>1, <2>2, EvidenceStays DEF Uncovering
    <2>4. Chained(rf_todo', <<"remove">>, <<"end", "rolled_back">>)
      BY <1>2, WayBack
    <2>5. Ready(<<"remove">>, rf_op', rf_fs', rf_dest')
      BY DEF Ready
    <2>q. QED
      BY <2>2, <2>3, <2>4, <2>5 DEF Script, Chained
  <1>q. QED
    BY <1>0, <1>1, <1>2 DEF Rescan!_settle, Rescan!Active

\* _remove_publication in its two halves.
LEMMA RemovalKeeps ==
  ASSUME Coming, Rescan!_remove_publication \/ Rescan!_remove_publication_capture
  PROVE  Evidence' /\ Script'
  <1>0. /\ Evidence /\ AtWork /\ rf_op.state \in Undecided /\ rf_op \in Rescan!Operation
        /\ rf_fs \in [Rescan!Public \cup Rescan!Purpose -> {"none", "orig", "new", "foreign"}]
        /\ "rollback" \in Rescan!Purpose
    BY UndecidedRow DEF Coming, AtWork, Evidence, Rescan!Purpose
  <1>1. UNCHANGED <<rf_op, rf_fs, rf_dest, rf_recorded>>
    BY DEF Rescan!_remove_publication, Rescan!_remove_publication_capture, Rescan!Skip
  <1>2. Evidence'
    BY <1>0, <1>1, EvidenceStays DEF Uncovering
  <1>3. CASE Rescan!Raise
    BY <1>0, <1>1, <1>2, <1>3, StepRaises
  <1>4. Ready(<<"discard", "rollback">>, rf_op', rf_fs', rf_dest')
    BY DEF Ready
  <1>5. CASE Rescan!_remove_publication /\ ~Rescan!Raise
    <2>1. rf_todo[1] = <<"remove">>
      BY <1>5, Heads DEF Rescan!_remove_publication
    <2>2. \A b \in OneStep : Follows(rf_todo[1], b) => b = <<"restore">>
      BY <2>1 DEF Follows
    <2>3. CASE Rescan!Then(Rescan!Discarding("rollback"))
      <3>1. \A b \in OneStep : Follows(rf_todo[1], b) => Follows(<<"discarded", "rollback">>, b)
        BY <2>2 DEF Follows
      <3>2. Chained(Rescan!Discarding("rollback"), <<"discard", "rollback">>,
                    <<"discarded", "rollback">>)
        BY <1>0, Parts
      <3>q. QED
        BY <1>0, <1>1, <1>2, <1>4, <2>3, <3>1, <3>2, StepCallsChain
    <2>4. CASE Uncovering(rf_op) /\ Rescan!Then(<<<<"uncover">>>>)
      <3>1. \A b \in OneStep : Follows(rf_todo[1], b) => Follows(<<"uncover">>, b)
        BY <2>2 DEF Follows
      <3>2. Chained(<<<<"uncover">>>>, <<"uncover">>, <<"uncover">>)
        BY Alone DEF OneStep, SoloStep
      <3>3. Ready(<<"uncover">>, rf_op', rf_fs', rf_dest')
        BY <1>1, <2>4 DEF Ready
      <3>q. QED
        BY <1>0, <1>1, <1>2, <2>4, <3>1, <3>2, <3>3, StepCallsChain
    <2>5. CASE /\ rf_fs[rf_dest] = "new"
               /\ Rescan!Then(Rescan!Allocation("rollback") \o <<<<"uncover">>>>)
      <3>1. \A b \in OneStep : Follows(rf_todo[1], b) => Follows(<<"uncover">>, b)
        BY <2>2 DEF Follows
      <3>2. Ready(<<"allocate", "rollback">>, rf_op', rf_fs', rf_dest')
        BY <1>1, <2>5 DEF Ready
      <3>q. QED
        BY <1>0, <1>1, <1>2, <2>5, <3>1, <3>2, WayBack, StepCallsChain
    <2>6. CASE ~Uncovering(rf_op) /\ Rescan!Then(<<>>)
      <3>1. Ready(<<"restore">>, rf_op', rf_fs', rf_dest')
        BY <1>1, <2>6 DEF Ready, Uncovered
      <3>q. QED
        BY <1>0, <1>1, <1>2, <2>2, <2>6, <3>1, StepDone
    <2>q. QED
      BY <1>5, <2>3, <2>4, <2>5, <2>6 DEF Rescan!_remove_publication, Uncovering
  <1>6. CASE Rescan!_remove_publication_capture /\ ~Rescan!Raise
    <2>1. rf_todo[1] = <<"uncover">> /\ Ready(<<"uncover">>, rf_op, rf_fs, rf_dest)
      BY <1>6, Heads DEF Rescan!_remove_publication_capture
    <2>2. \A b \in OneStep : Follows(rf_todo[1], b) => Follows(<<"discarded", "rollback">>, b)
      BY <2>1 DEF Follows
    <2>3. /\ Ready(<<"claiming", "rollback">>, rf_op', rf_fs', rf_dest')
          /\ Ready(<<"claimed", "rollback">>, rf_op', rf_fs', rf_dest')
      BY <1>1, <2>1 DEF Ready
    <2>4. CASE Rescan!Then(Rescan!Capturing("rollback") \o Rescan!Discarding("rollback"))
      BY <1>0, <1>1, <1>2, <2>2, <2>3, <2>4, WayBack, StepCallsChain
    <2>5. CASE Rescan!Then(<<<<"claimed", "rollback">>>> \o Rescan!Discarding("rollback"))
      BY <1>0, <1>1, <1>2, <2>2, <2>3, <2>5, WayBack, StepCallsChain
    <2>q. QED
      BY <1>6, <2>4, <2>5 DEF Rescan!_remove_publication_capture
  <1>q. QED
    BY <1>3, <1>5, <1>6

\* _restore_source.
LEMMA RestorationKeeps ==
  ASSUME Coming, Rescan!_restore_source
  PROVE  Evidence' /\ Script'
  <1>0. /\ Evidence /\ AtWork /\ rf_op.state \in Undecided /\ rf_op \in Rescan!Operation
        /\ rf_op.phase \in [Rescan!Purpose -> Rescan!Phase] /\ "source" \in Rescan!Purpose
        /\ rf_fs \in [Rescan!Public \cup Rescan!Purpose -> {"none", "orig", "new", "foreign"}]
        /\ Captured
    BY UndecidedRow DEF Coming, AtWork, Evidence, Rescan!Purpose
  <1>1. rf_todo[1] = <<"restore">> /\ Ready(<<"restore">>, rf_op, rf_fs, rf_dest)
    BY Heads DEF Rescan!_restore_source
  <1>2. /\ Uncovered(rf_op, rf_dest)
        /\ \A b \in OneStep : Follows(rf_todo[1], b) => b = <<"discard", "publication">>
        /\ \A b \in OneStep : Follows(rf_todo[1], b) => Follows(<<"discarded", "source">>, b)
    BY <1>1 DEF Ready, Follows
  <1>3. CASE rf_todo' = <<>> /\ Rescan!Skip
    BY <1>0, <1>3, EvidenceStays, EndScript DEF Uncovering, Rescan!Skip
  <1>4. CASE Source = "none" /\ Rescan!Then(<<>>) /\ Rescan!Skip
    <2>1. UNCHANGED <<rf_op, rf_fs, rf_dest, rf_recorded>>
      BY <1>4 DEF Rescan!Skip
    <2>2. Ready(<<"discard", "publication">>, rf_op', rf_fs', rf_dest')
      BY <1>0, <1>4, <2>1 DEF Ready, Captured, Src
    <2>3. Evidence'
      BY <1>0, <2>1, EvidenceStays DEF Uncovering
    <2>q. QED
      BY <1>0, <1>2, <1>4, <2>1, <2>2, <2>3, StepDone
  <1>5. CASE Src = "orig" /\ Rescan!Then(Rescan!Discarding("source")) /\ Rescan!Skip
    <2>1. UNCHANGED <<rf_op, rf_fs, rf_dest, rf_recorded>>
      BY <1>5 DEF Rescan!Skip
    <2>2. Ready(<<"discard", "source">>, rf_op', rf_fs', rf_dest')
      BY <1>5, <2>1 DEF Ready, Src
    <2>3. Evidence'
      BY <1>0, <2>1, EvidenceStays DEF Uncovering
    <2>q. QED
      BY <1>0, <1>2, <1>5, <2>1, <2>2, <2>3, Parts, StepCallsChain
  <1>6. CASE /\ rf_fs["source"] = "orig" /\ Rescan!Skip
             /\ Rescan!Then(<<<<"restoring", "source">>, <<"link">>, <<"restored", "source">>>> \o
                              Rescan!Discarding("source"))
    <2>1. UNCHANGED <<rf_op, rf_fs, rf_dest, rf_recorded>>
      BY <1>6 DEF Rescan!Skip
    <2>2. Ready(<<"restoring", "source">>, rf_op', rf_fs', rf_dest')
      BY <1>2, <1>6, <2>1 DEF Ready
    <2>3. Evidence'
      BY <1>0, <2>1, EvidenceStays DEF Uncovering
    <2>q. QED
      BY <1>0, <1>2, <1>6, <2>1, <2>2, <2>3, WayBack, StepCallsChain
  <1>7. /\ Source \in Rescan!Phase
        /\ Source \in {"discarding", "discarded", "restored"} => Src = "orig"
        /\ Source \in {"allocated", "claiming", "claimed", "restoring"} =>
             rf_fs["source"] \in {"none", "orig"}
    BY <1>0 DEF Captured, Source
  <1>q. QED
    BY <1>3, <1>4, <1>5, <1>6, <1>7
    DEF Rescan!_restore_source, Rescan!Phase, Source, Src

\* link_private_regular.
LEMMA LinkKeeps ==
  ASSUME Coming, Rescan!link_private_regular
  PROVE  Evidence' /\ Script'
  <1>0. /\ Evidence /\ AtWork /\ rf_op.state \in Undecided /\ rf_op \in Rescan!Operation
        /\ rf_fs \in [Rescan!Public \cup Rescan!Purpose -> {"none", "orig", "new", "foreign"}]
        /\ rf_dest \in {"src", "dst"}
    BY UndecidedRow DEF Coming, AtWork, Evidence, Rescan!Public
  <1>1. CASE rf_todo' = <<>> /\ Rescan!Skip
    BY <1>0, <1>1, EvidenceStays, EndScript DEF Uncovering, Rescan!Skip
  <1>2. CASE Rescan!Then(<<>>) /\ Rescan!Files([rf_fs EXCEPT !["src"] = rf_fs["source"]])
    <2>1. rf_todo[1] = <<"link">> /\ Ready(<<"link">>, rf_op, rf_fs, rf_dest)
      BY Heads DEF Rescan!link_private_regular
    <2>2. Source = "restoring" /\ Uncovered(rf_op, rf_dest) /\ rf_fs["source"] = "orig"
      BY <1>0, <2>1 DEF Ready, Evidence, Captured, Source
    <2>3. /\ rf_fs' \in [Rescan!Public \cup Rescan!Purpose -> {"none", "orig", "new", "foreign"}]
          /\ rf_fs'["source"] = "orig" /\ rf_fs'["src"] = "orig"
          /\ UNCHANGED <<rf_op, rf_dest, rf_recorded>>
      BY <1>0, <1>2, <2>2 DEF Rescan!Files, Rescan!Public, Rescan!Purpose
    <2>4. Evidence'
      BY <1>0, <2>2, <2>3
      DEF Evidence, Captured, Src, Source, Uncovered, Undecided, Decided
    <2>5. ASSUME NEW b \in OneStep, Follows(rf_todo[1], b)
          PROVE  Ready(b, rf_op', rf_fs', rf_dest')
      <3>1. b = <<"restored", "source">>
        BY <2>1, <2>5 DEF Follows
      <3>2. rf_op'.phase["source"] = "restoring"
        BY <2>2, <2>3 DEF Source
      <3>q. QED
        BY <2>3, <3>1, <3>2 DEF Ready
    <2>q. QED
      BY <1>0, <1>2, <2>3, <2>4, <2>5, StepDone
  <1>q. QED
    BY <1>1, <1>2 DEF Rescan!link_private_regular

\* The original is under its name when the carriers are discarded.
LEMMA AfterDiscarded ==
  ASSUME NEW op, NEW fs, NEW dest, NEW p \in Rescan!Purpose, NEW b,
         Follows(<<"discarded", p>>, b),
         p # "rollback" => fs["src"] = "orig", p = "rollback" => ~Uncovering(op)
  PROVE  Ready(b, op, fs, dest)
  <1>1. b = CASE p = "rollback" -> <<"restore">>
              [] p = "source" -> <<"discard", "publication">>
              [] p = "publication" -> <<"discard", "stage">>
              [] OTHER -> <<"end", "rolled_back">>
    BY DEF Follows
  <1>q. QED
    BY <1>1 DEF Ready, Uncovered

\* _discard, before and after the file is unlinked.
LEMMA DiscardKeeps ==
  ASSUME Coming, NEW p \in Rescan!Purpose, Rescan!_discard(p) \/ Rescan!discard_private_regular(p)
  PROVE  Evidence' /\ Script'
  <1>0. /\ Evidence /\ AtWork /\ rf_op.state \in Undecided /\ rf_op \in Rescan!Operation
        /\ rf_op.phase \in [Rescan!Purpose -> Rescan!Phase]
        /\ rf_fs \in [Rescan!Public \cup Rescan!Purpose -> {"none", "orig", "new", "foreign"}]
        /\ rf_dest \in {"src", "dst"}
        /\ "source" \in Rescan!Purpose /\ "rollback" \in Rescan!Purpose
    BY UndecidedRow DEF Coming, AtWork, Evidence, Rescan!Public, Rescan!Purpose
  <1>1. CASE Rescan!_discard(p)
    <2>1. rf_todo[1] = <<"discard", p>> /\ (p # "rollback" => Src = "orig")
      BY <1>1, Heads DEF Rescan!_discard, Ready, Src
    <2>2. CASE /\ rf_op.phase[p] \in {"none", "discarded"} /\ Rescan!Skip
               /\ rf_todo' = SubSeq(rf_todo, 4, Len(rf_todo))
      <3>1. UNCHANGED <<rf_op, rf_fs, rf_dest, rf_recorded>>
        BY <2>2 DEF Rescan!Skip
      <3>2. Evidence'
        BY <1>0, <3>1, EvidenceStays DEF Uncovering
      <3>3. p = "rollback" => ~Uncovering(rf_op')
        BY <2>2, <3>1 DEF Uncovering
      <3>4. \A b \in OneStep : Follows(<<"discarded", p>>, b) => Ready(b, rf_op', rf_fs', rf_dest')
        BY <2>1, <3>1, <3>3, AfterDiscarded DEF Src
      <3>q. QED
        BY <1>0, <2>1, <2>2, <3>1, <3>2, <3>4, StepSkips
    <2>3. CASE /\ Rescan!Then(<<>>)
               /\ Rescan!Store([rf_op EXCEPT !.phase[p] = "discarding"])
      <3>1. /\ rf_op' \in Rescan!Operation /\ rf_op'.state = rf_op.state
            /\ rf_op'.phase = [rf_op.phase EXCEPT ![p] = "discarding"]
            /\ UNCHANGED <<rf_fs, rf_dest, rf_recorded>>
        BY <1>0, <2>3 DEF Rescan!Store, Rescan!Operation, Rescan!Phase
      <3>2. /\ rf_op'.phase[p] = "discarding"
            /\ \A o \in Rescan!Purpose \ {p} : rf_op'.phase[o] = rf_op.phase[o]
        BY <1>0, <3>1
      <3>3. Uncovering(rf_op') => Uncovering(rf_op)
        BY <1>0, <3>2 DEF Uncovering
      <3>4. Evidence'
        <4>1. CASE p = "source"
          BY <1>0, <2>1, <3>1, <3>2, <3>3, <4>1
          DEF Evidence, Captured, Src, Source, Undecided, Decided
        <4>2. CASE p # "source"
          BY <1>0, <3>1, <3>2, <3>3, <4>2, EvidenceStays
        <4>q. QED
          BY <4>1, <4>2
      <3>5. ASSUME NEW b \in OneStep, Follows(rf_todo[1], b)
            PROVE  Ready(b, rf_op', rf_fs', rf_dest')
        <4>1. b = <<"unlink", p>>
          BY <2>1, <3>5 DEF Follows
        <4>q. QED
          BY <2>1, <3>1, <3>2, <4>1 DEF Ready, Src
      <3>q. QED
        BY <1>0, <2>3, <3>1, <3>4, <3>5, StepDone
    <2>q. QED
      BY <1>1, <2>2, <2>3 DEF Rescan!_discard
  <1>2. CASE Rescan!discard_private_regular(p)
    <2>1. /\ rf_todo[1] = <<"unlink", p>> /\ (p # "rollback" => Src = "orig")
          /\ p = "source" => Source = "discarding"
      BY <1>2, Heads DEF Rescan!discard_private_regular, Ready, Src, Source
    <2>2. CASE Rescan!Raise /\ Rescan!Skip
      BY <1>0, <2>2, EvidenceStays, StepRaises DEF Uncovering, Rescan!Skip
    <2>3. CASE Rescan!Then(<<>>) /\ Rescan!Files([rf_fs EXCEPT ![p] = "none"])
      <3>1. /\ rf_fs' \in [Rescan!Public \cup Rescan!Purpose -> {"none", "orig", "new", "foreign"}]
            /\ rf_fs'["src"] = rf_fs["src"]
            /\ p # "source" => rf_fs'["source"] = rf_fs["source"]
            /\ UNCHANGED <<rf_op, rf_dest, rf_recorded>>
        BY <1>0, <2>3 DEF Rescan!Files, Rescan!Public, Rescan!Purpose
      <3>2. Evidence'
        <4>1. CASE p = "source"
          BY <1>0, <2>1, <3>1, <4>1 DEF Evidence, Captured, Src, Source, Undecided, Decided
        <4>2. CASE p # "source"
          BY <1>0, <3>1, <4>2, EvidenceStays
        <4>q. QED
          BY <4>1, <4>2
      <3>3. ASSUME NEW b \in OneStep, Follows(rf_todo[1], b)
            PROVE  Ready(b, rf_op', rf_fs', rf_dest')
        <4>1. b = <<"discarded", p>>
          BY <2>1, <3>3 DEF Follows
        <4>q. QED
          BY <2>1, <3>1, <4>1 DEF Ready, Src
      <3>q. QED
        BY <1>0, <2>3, <3>1, <3>2, <3>3, StepDone
    <2>q. QED
      BY <1>2, <2>2, <2>3 DEF Rescan!discard_private_regular
  <1>q. QED
    BY <1>1, <1>2

\* The end of a roll back, and a unit that is stopped before the decision.
LEMMA EndKeeps ==
  ASSUME Coming, NEW state \in {"completed", "rolled_back"}, Rescan!_end(state)
  PROVE  Evidence' /\ Script'
  <1>0. Evidence /\ AtWork /\ rf_op.state \in Undecided /\ rf_op \in Rescan!Operation
    BY UndecidedRow DEF Coming, AtWork
  <1>1. /\ rf_todo[1] = <<"end", state>> /\ state = "rolled_back" /\ Src = "orig"
    BY Heads DEF Rescan!_end, Ready, Src
  <1>2. rf_todo' = <<>>
    <2>1. rf_todo \in Steps /\ Chain(rf_todo) /\ rf_todo # <<>> /\ rf_todo[1][1] = "end"
      BY <1>0, <1>1 DEF AtWork
    <2>2. Tail(rf_todo) = <<>>
      BY <2>1, LastOfChain
    <2>q. QED
      BY <2>2 DEF Rescan!_end, Rescan!Then
  <1>3. /\ rf_op' \in Rescan!Operation /\ rf_op'.state = "rolled_back"
        /\ UNCHANGED <<rf_fs, rf_dest, rf_recorded>>
    BY <1>0, <1>1 DEF Rescan!_end, Rescan!Store, Rescan!Operation
  <1>4. Evidence'
    BY <1>0, <1>1, <1>3 DEF Evidence, Src, Undecided, Decided
  <1>q. QED
    BY <1>2, <1>4, EndScript
LEMMA StopKeeps ==
  ASSUME Coming, Rescan!Stop
  PROVE  Evidence' /\ Script'
  <1>1. /\ Evidence /\ rf_op.state \in Undecided /\ rf_op \in Rescan!Operation
        /\ rf_fs \in [Rescan!Public \cup Rescan!Purpose -> {"none", "orig", "new", "foreign"}]
        /\ UNCHANGED <<rf_op, rf_fs, rf_dest, rf_recorded>>
    BY UndecidedRow DEF Coming, AtWork, Evidence, Rescan!Stop
  <1>2. Evidence'
    BY <1>1, EvidenceStays DEF Uncovering
  <1>q. QED
    BY <1>1, <1>2, StepRaises, EndScript DEF Rescan!Stop

\* After the decision: carriers are discarded, and the operation ends.
LEMMA ForwardOn ==
  ASSUME NEW t \in Steps, Forward(t), t # <<>>
  PROVE  /\ Tail(t) \in Steps /\ Forward(Tail(t))
         /\ SubSeq(t, 4, Len(t)) \in Steps /\ Forward(SubSeq(t, 4, Len(t)))
         /\ t[1][1] \in {"discard", "unlink", "discarded"} \/ t[1] = <<"end", "completed">>
         /\ t[1][1] = "end" => Tail(t) = <<>>
  <1>1. Len(t) \in Nat /\ Len(t) > 0 /\ 1 \in 1..Len(t)
    BY DEF Steps
  <1>2. /\ Tail(t) \in Steps /\ Len(Tail(t)) = Len(t) - 1
        /\ \A i \in 1..Len(Tail(t)) : Tail(t)[i] = t[i + 1]
    BY DEF Steps
  <1>a. ASSUME NEW r \in Steps, Len(r) = Len(t) - 1, \A i \in 1..Len(r) : r[i] = t[i + 1]
        PROVE  Forward(r)
    <2> SUFFICES ASSUME NEW i \in 1..Len(r)
                 PROVE  /\ \/ r[i][1] \in {"discard", "unlink", "discarded"}
                           \/ r[i] = <<"end", "completed">>
                        /\ r[i][1] = "end" => i = Len(r)
      BY DEF Forward
    <2>1. i + 1 \in 1..Len(t) /\ r[i] = t[i + 1] /\ (i + 1 = Len(t) => i = Len(r))
      BY <1>1, <1>a
    <2>q. QED
      BY <2>1 DEF Forward
  <1>3. Forward(Tail(t))
    BY <1>2, <1>a
  <1>4. SubSeq(t, 4, Len(t)) \in Steps /\ Forward(SubSeq(t, 4, Len(t)))
    <2> DEFINE r == SubSeq(t, 4, Len(t))
    <2>1. CASE Len(t) <= 3
      <3>1. r = <<>>
        BY <1>1, <2>1 DEF Steps
      <3>q. QED
        BY <3>1 DEF Steps, Forward
    <2>2. CASE Len(t) > 3
      <3>1. /\ r \in Steps /\ Len(r) = Len(t) - 3
            /\ \A i \in 1..Len(r) : r[i] = t[i + 3]
        BY <1>1, <2>2 DEF Steps
      <3>2. ASSUME NEW i \in 1..Len(r)
            PROVE  /\ \/ r[i][1] \in {"discard", "unlink", "discarded"}
                      \/ r[i] = <<"end", "completed">>
                   /\ r[i][1] = "end" => i = Len(r)
        <4>1. i + 3 \in 1..Len(t) /\ r[i] = t[i + 3] /\ (i + 3 = Len(t) => i = Len(r))
          BY <1>1, <3>1
        <4> HIDE DEF r
        <4>q. QED
          BY <4>1 DEF Forward
      <3> HIDE DEF r
      <3>3. r \in Steps /\ Forward(r)
        BY <3>1, <3>2 DEF Forward
      <3>q. QED
        BY <3>3 DEF r
    <2>q. QED
      BY <1>1, <2>1, <2>2
  <1>5. t[1][1] \in {"discard", "unlink", "discarded"} \/ t[1] = <<"end", "completed">>
    BY <1>1 DEF Forward
  <1>6. ASSUME t[1][1] = "end" PROVE Tail(t) = <<>>
    <2>1. Len(t) = 1
      BY <1>1, <1>6 DEF Forward
    <2>2. ASSUME NEW r \in Steps, Len(r) = Len(t) - 1 PROVE r = <<>>
      BY <2>1, <2>2 DEF Steps
    <2>q. QED
      BY <1>2, <2>2
  <1>q. QED
    BY <1>2, <1>3, <1>4, <1>5, <1>6

\* Steps that only discard.
Discards(t) ==
    t \in Steps /\ \A i \in 1..Len(t) : t[i][1] \in {"discard", "unlink", "discarded"}
LEMMA DiscardsOf ==
  ASSUME NEW p \in Rescan!Purpose
  PROVE  Discards(Rescan!Discarding(p))
  <1>1. /\ Len(Rescan!Discarding(p)) = 3
        /\ Rescan!Discarding(p)[1][1] = "discard" /\ Rescan!Discarding(p)[2][1] = "unlink"
        /\ Rescan!Discarding(p)[3][1] = "discarded"
    BY DEF Rescan!Discarding
  <1>2. \A i \in 1..3 : i = 1 \/ i = 2 \/ i = 3
    OBVIOUS
  <1>q. QED
    BY <1>1, <1>2, Pieces DEF Discards
LEMMA DiscardsJoin ==
  ASSUME NEW a, NEW b, Discards(a), Discards(b)
  PROVE  Discards(a \o b)
  <1>1. /\ a \o b \in Steps /\ Len(a \o b) = Len(a) + Len(b) /\ Len(a) \in Nat /\ Len(b) \in Nat
        /\ \A i \in 1..Len(a) : (a \o b)[i] = a[i]
        /\ \A i \in 1..Len(b) : (a \o b)[Len(a) + i] = b[i]
    BY DEF Discards, Steps
  <1>2. ASSUME NEW i \in 1..Len(a \o b)
        PROVE  (a \o b)[i][1] \in {"discard", "unlink", "discarded"}
    <2>1. CASE i <= Len(a)
      BY <1>1, <2>1 DEF Discards
    <2>2. CASE i > Len(a)
      <3>1. i - Len(a) \in 1..Len(b) /\ i = Len(a) + (i - Len(a))
        BY <1>1, <2>2
      <3>q. QED
        BY <1>1, <3>1 DEF Discards
    <2>q. QED
      BY <1>1, <2>1, <2>2
  <1>q. QED
    BY <1>1, <1>2 DEF Discards
LEMMA DiscardsEnd ==
  ASSUME NEW a, Discards(a)
  PROVE  a \o <<<<"end", "completed">>>> \in Steps /\ Forward(a \o <<<<"end", "completed">>>>)
  <1> DEFINE t == a \o <<<<"end", "completed">>>>
  <1>1. <<"end", "completed">> \in OneStep
    BY DEF OneStep, FileStep
  <1>2. /\ t \in Steps /\ Len(t) = Len(a) + 1 /\ Len(a) \in Nat
        /\ \A i \in 1..Len(a) : t[i] = a[i]
        /\ t[Len(a) + 1] = <<"end", "completed">>
    BY <1>1 DEF Discards, Steps
  <1> HIDE DEF t
  <1>3. ASSUME NEW i \in 1..Len(t)
        PROVE  /\ \/ t[i][1] \in {"discard", "unlink", "discarded"}
                  \/ t[i] = <<"end", "completed">>
               /\ t[i][1] = "end" => i = Len(t)
    <2>1. CASE i <= Len(a)
      BY <1>2, <2>1 DEF Discards
    <2>2. CASE i = Len(a) + 1
      BY <1>2, <2>2
    <2>q. QED
      BY <1>2, <2>1, <2>2
  <1>4. t \in Steps /\ Forward(t)
    BY <1>2, <1>3 DEF Forward
  <1>q. QED
    BY <1>4 DEF t

\* A unit that has nothing of the way back left fails for good.
LEMMA DecidedRaises ==
  ASSUME Rescan!Raise, ~Rescan!Later(<<"restore">>)
  PROVE  Script'
  BY EndScript DEF Rescan!Raise
LEMMA NoWayBack ==
  ASSUME rf_todo \in Steps, Forward(rf_todo) \/ rf_todo = <<<<"settle">>>>
  PROVE  ~Rescan!Later(<<"restore">>)
  <1>1. ASSUME NEW i \in 2..Len(rf_todo) PROVE rf_todo[i] # <<"restore">>
    <2>1. CASE Forward(rf_todo)
      <3>1. Len(rf_todo) \in Nat
        BY DEF Steps
      <3>2. i \in 1..Len(rf_todo)
        BY <3>1
      <3>q. QED
        BY <2>1, <3>2 DEF Forward
    <2>2. CASE rf_todo = <<<<"settle">>>>
      <3>1. Len(rf_todo) = 1
        BY <2>2
      <3>q. QED
        BY <3>1
    <2>q. QED
      BY <2>1, <2>2
  <1>q. QED
    BY <1>1 DEF Rescan!Later

\* The result stays under its name.
LEMMA DecidedStays ==
  ASSUME Evidence, rf_op.state = "db_committed",
         rf_op' \in Rescan!Operation, rf_op'.state \in Decided,
         rf_fs' \in [Rescan!Public \cup Rescan!Purpose -> {"none", "orig", "new", "foreign"}],
         rf_fs'[rf_dest] = rf_fs[rf_dest], UNCHANGED <<rf_dest, rf_recorded>>
  PROVE  Evidence'
  BY DEF Evidence, Undecided, Decided

\* The unit after the decision.
LEMMA DecidedKeeps ==
  ASSUME Evidence, Script, rf_op.state = "db_committed", Rescan!UnitStep
  PROVE  Evidence' /\ Script'
  <1>0. /\ rf_op \in Rescan!Operation /\ rf_op.state \in Decided
        /\ rf_op.phase \in [Rescan!Purpose -> Rescan!Phase]
        /\ rf_fs \in [Rescan!Public \cup Rescan!Purpose -> {"none", "orig", "new", "foreign"}]
        /\ rf_dest \in {"src", "dst"} /\ rf_todo \in Steps
    BY DEF Evidence, Script, Decided, Rescan!Operation, Rescan!NoOp, Rescan!Public
  <1>1. Forward(rf_todo) \/ rf_todo = <<<<"settle">>>>
    BY DEF Script, Undecided, Forward
  <1>2. ASSUME NEW s, Rescan!At(s)
        PROVE  /\ \/ s = <<"settle">>
                  \/ Forward(rf_todo) /\ s[1] \in {"discard", "unlink", "discarded"}
                  \/ Forward(rf_todo) /\ s = <<"end", "completed">> /\ Tail(rf_todo) = <<>>
               /\ rf_todo # <<>>
    <2>1. rf_todo # <<>> /\ s = rf_todo[1]
      BY <1>0, <1>2 DEF Rescan!At, Steps
    <2>q. QED
      BY <1>0, <1>1, <2>1, ForwardOn
  <1>3. ASSUME Rescan!Then(<<>>), Forward(rf_todo), rf_todo # <<>>,
               rf_op'.state = "db_committed"
        PROVE  Script'
    <2>1. Tail(rf_todo) \in Steps /\ Forward(Tail(rf_todo))
      BY <1>0, <1>3, ForwardOn
    <2>2. rf_todo' = Tail(rf_todo)
      BY <1>3, <2>1 DEF Rescan!Then, Steps
    <2>q. QED
      BY <1>3, <2>1, <2>2 DEF Script
  <1>4. CASE Rescan!_settle
    <2>1. CASE rf_todo' = <<>> /\ Rescan!Skip
      BY <1>0, <2>1, EndScript, DecidedStays DEF Rescan!Skip
    <2>2. CASE /\ Rescan!Skip
               /\ rf_todo' = Rescan!Discarding("source") \o Rescan!Discarding("stage") \o
                             Rescan!Discarding("publication") \o Rescan!Discarding("rollback") \o
                             <<<<"end", "completed">>>>
      <3>1. /\ "source" \in Rescan!Purpose /\ "stage" \in Rescan!Purpose
            /\ "publication" \in Rescan!Purpose /\ "rollback" \in Rescan!Purpose
        BY DEF Rescan!Purpose
      <3>2. Discards(Rescan!Discarding("source") \o Rescan!Discarding("stage"))
        BY <3>1, DiscardsOf, DiscardsJoin
      <3>3. Discards(Rescan!Discarding("source") \o Rescan!Discarding("stage") \o
                     Rescan!Discarding("publication"))
        BY <3>1, <3>2, DiscardsOf, DiscardsJoin
      <3>4. Discards(Rescan!Discarding("source") \o Rescan!Discarding("stage") \o
                     Rescan!Discarding("publication") \o Rescan!Discarding("rollback"))
        BY <3>1, <3>3, DiscardsOf, DiscardsJoin
      <3>5. rf_todo' \in Steps /\ Forward(rf_todo')
        BY <2>2, <3>4, DiscardsEnd
      <3>6. Script'
        BY <2>2, <3>5 DEF Script, Rescan!Skip
      <3>q. QED
        BY <1>0, <2>2, <3>6, DecidedStays DEF Rescan!Skip
    <2>q. QED
      BY <1>4, <2>1, <2>2 DEF Rescan!_settle, Rescan!Active
  <1>5. CASE \E p \in Rescan!Purpose : Rescan!_discard(p)
    <2> PICK p \in Rescan!Purpose : Rescan!_discard(p)
      BY <1>5
    <2>1. Forward(rf_todo) /\ rf_todo # <<>>
      BY <1>2 DEF Rescan!_discard
    <2>2. CASE Rescan!Skip /\ rf_todo' = SubSeq(rf_todo, 4, Len(rf_todo))
      <3>1. rf_todo' \in Steps /\ Forward(rf_todo')
        BY <1>0, <2>1, <2>2, ForwardOn
      <3>2. Script'
        BY <2>2, <3>1 DEF Script, Rescan!Skip
      <3>q. QED
        BY <1>0, <2>2, <3>2, DecidedStays DEF Rescan!Skip
    <2>3. CASE /\ Rescan!Then(<<>>)
               /\ Rescan!Store([rf_op EXCEPT !.phase[p] = "discarding"])
      <3>1. /\ rf_op' \in Rescan!Operation /\ rf_op'.state = "db_committed"
            /\ UNCHANGED <<rf_fs, rf_dest, rf_recorded>>
        BY <1>0, <2>3 DEF Rescan!Store, Rescan!Operation, Rescan!Phase
      <3>q. QED
        BY <1>0, <1>3, <2>1, <2>3, <3>1, DecidedStays
    <2>q. QED
      BY <2>2, <2>3 DEF Rescan!_discard
  <1>6. CASE \E p \in Rescan!Purpose : Rescan!discard_private_regular(p)
    <2> PICK p \in Rescan!Purpose : Rescan!discard_private_regular(p)
      BY <1>6
    <2>1. Forward(rf_todo) /\ rf_todo # <<>>
      BY <1>2 DEF Rescan!discard_private_regular
    <2>2. CASE Rescan!Raise /\ Rescan!Skip
      BY <1>0, <2>1, <2>2, NoWayBack, DecidedRaises, DecidedStays DEF Rescan!Skip
    <2>3. CASE Rescan!Then(<<>>) /\ Rescan!Files([rf_fs EXCEPT ![p] = "none"])
      <3>1. /\ rf_fs' \in [Rescan!Public \cup Rescan!Purpose -> {"none", "orig", "new", "foreign"}]
            /\ rf_fs'[rf_dest] = rf_fs[rf_dest]
            /\ UNCHANGED <<rf_op, rf_dest, rf_recorded>>
        BY <1>0, <2>3 DEF Rescan!Files, Rescan!Public, Rescan!Purpose
      <3>q. QED
        BY <1>0, <1>3, <2>1, <2>3, <3>1, DecidedStays
    <2>q. QED
      BY <2>2, <2>3 DEF Rescan!discard_private_regular
  <1>7. CASE \E p \in Rescan!Purpose, phase \in Rescan!Phase : Rescan!_phase(p, phase)
    <2> PICK p \in Rescan!Purpose, phase \in Rescan!Phase : Rescan!_phase(p, phase)
      BY <1>7
    <2>1. Forward(rf_todo) /\ rf_todo # <<>>
      BY <1>2 DEF Rescan!_phase
    <2>2. /\ rf_op' \in Rescan!Operation /\ rf_op'.state = "db_committed"
          /\ UNCHANGED <<rf_fs, rf_dest, rf_recorded>> /\ Rescan!Then(<<>>)
      BY <1>0 DEF Rescan!_phase, Rescan!Store, Rescan!Operation
    <2>q. QED
      BY <1>0, <1>3, <2>1, <2>2, DecidedStays
  <1>8. CASE \E state \in {"completed", "rolled_back"} : Rescan!_end(state)
    <2> PICK state \in {"completed", "rolled_back"} : Rescan!_end(state)
      BY <1>8
    <2>1. state = "completed" /\ rf_todo' = <<>>
      BY <1>2 DEF Rescan!_end, Rescan!Then
    <2>2. /\ rf_op' \in Rescan!Operation /\ rf_op'.state \in Decided
          /\ UNCHANGED <<rf_fs, rf_dest, rf_recorded>>
      BY <1>0, <2>1 DEF Rescan!_end, Rescan!Store, Rescan!Operation, Decided
    <2>q. QED
      BY <1>0, <2>1, <2>2, DecidedStays, EndScript
  <1>9. CASE \/ Rescan!_reserve \/ Rescan!_enrichment_context_is_current
             \/ Rescan!_capture_source \/ Rescan!_publish \/ Rescan!_rename_noreplace
             \/ Rescan!_store_receipt \/ Rescan!_commit
             \/ Rescan!_remove_publication \/ Rescan!_remove_publication_capture
             \/ Rescan!_restore_source \/ Rescan!link_private_regular
    <2>1. \E w \in {"reserve", "recheck", "capture", "publish", "place", "published", "commit",
                    "remove", "uncover", "restore", "link"} : Rescan!At(<<w>>)
      BY <1>9
      DEF Rescan!_reserve, Rescan!_enrichment_context_is_current, Rescan!_capture_source,
          Rescan!_publish, Rescan!_rename_noreplace, Rescan!_store_receipt, Rescan!_commit,
          Rescan!_remove_publication, Rescan!_remove_publication_capture,
          Rescan!_restore_source, Rescan!link_private_regular
    <2>q. QED
      BY <1>2, <2>1
  <1>a. CASE \/ \E p \in Rescan!Purpose : Rescan!_allocate(p) \/ Rescan!_save_record(p)
             \/ \E p \in {"stage", "publication"} :
                  Rescan!_copy_prepared(p) \/ Rescan!_store_fingerprint(p)
             \/ \E p \in {"source", "rollback"} : Rescan!claim_into_empty(p)
    <2>1. \E w \in {"allocate", "save", "copy", "prove", "claim"}, p \in Rescan!Purpose :
             Rescan!At(<<w, p>>)
      BY <1>a
      DEF Rescan!_allocate, Rescan!_save_record, Rescan!_copy_prepared,
          Rescan!_store_fingerprint, Rescan!claim_into_empty, Rescan!Purpose
    <2>q. QED
      BY <1>2, <2>1
  <1>q. QED
    BY <1>4, <1>5, <1>6, <1>7, <1>8, <1>9, <1>a DEF Rescan!UnitStep

\* A step before the others.
LEMMA StepBefore ==
  ASSUME NEW x \in OneStep, NEW t \in Steps
  PROVE  /\ <<x>> \o t \in Steps /\ <<x>> \o t # <<>> /\ (<<x>> \o t)[1] = x
         /\ Len(<<x>> \o t) = Len(t) + 1 /\ Tail(<<x>> \o t) = t
         /\ \A i \in 1..Len(t) : (<<x>> \o t)[i + 1] = t[i]
  <1>1. /\ <<x>> \in Steps /\ Len(<<x>>) = 1 /\ <<x>>[1] = x /\ Len(t) \in Nat
    BY DEF Steps
  <1>2. /\ <<x>> \o t \in Steps /\ Len(<<x>> \o t) = 1 + Len(t)
        /\ \A i \in 1..1 : (<<x>> \o t)[i] = <<x>>[i]
        /\ \A i \in 1..Len(t) : (<<x>> \o t)[1 + i] = t[i]
    BY <1>1 DEF Steps
  <1>3. <<x>> \o t # <<>>
    BY <1>1, <1>2
  <1>4. Tail(<<x>> \o t) = t
    BY <1>1, <1>2, <1>3 DEF Steps
  <1>q. QED
    BY <1>1, <1>2, <1>3, <1>4

\* A unit that finds nothing to settle, or that has just been scheduled.
LEMMA ProgramScript ==
  /\ Program \in Steps /\ Program # <<>> /\ Program[1] = <<"reserve">> /\ Len(Program) = 10
  /\ \A i \in 2..Len(Program) : Program[i] # <<"restore">>
  /\ Tail(Program) \in Steps /\ Chain(Tail(Program)) /\ Tail(Program) # <<>>
  /\ Tail(Program)[1] = <<"allocate", "stage">>
  <1> DEFINE rest == <<<<"copy", "stage">>, <<"prove", "stage">>, <<"recheck">>,
                       <<"capture">>, <<"publish">>, <<"commit">>, <<"settle">>>>
             all == Rescan!Allocation("stage") \o rest
  <1>1. "stage" \in Rescan!Purpose
    BY DEF Rescan!Purpose
  <1>2. /\ <<"reserve">> \in OneStep /\ <<"copy", "stage">> \in OneStep
        /\ <<"prove", "stage">> \in OneStep /\ <<"recheck">> \in OneStep
        /\ <<"capture">> \in OneStep /\ <<"publish">> \in OneStep
        /\ <<"commit">> \in OneStep /\ <<"settle">> \in OneStep
    BY <1>1 DEF OneStep, FileStep, SoloStep
  <1>3. rest \in Steps
    BY <1>2 DEF Steps
  <1>4. /\ Len(rest) = 7 /\ rest # <<>> /\ rest[1] = <<"copy", "stage">>
        /\ rest[1 + 1] = <<"prove", "stage">> /\ rest[2] = <<"prove", "stage">>
        /\ rest[2 + 1] = <<"recheck">> /\ rest[3] = <<"recheck">>
        /\ rest[3 + 1] = <<"capture">> /\ rest[4] = <<"capture">>
        /\ rest[4 + 1] = <<"publish">> /\ rest[5] = <<"publish">>
        /\ rest[5 + 1] = <<"commit">> /\ rest[6] = <<"commit">>
        /\ rest[6 + 1] = <<"settle">> /\ rest[7] = <<"settle">>
    OBVIOUS
  <1> HIDE DEF rest
  <1>5. Chain(rest)
    <2>1. /\ Follows(<<"copy", "stage">>, <<"prove", "stage">>)
          /\ Follows(<<"prove", "stage">>, <<"recheck">>)
          /\ Follows(<<"recheck">>, <<"capture">>)
          /\ Follows(<<"capture">>, <<"publish">>)
          /\ Follows(<<"publish">>, <<"commit">>)
          /\ Follows(<<"commit">>, <<"settle">>)
      BY DEF Follows
    <2>2. ASSUME NEW i \in 1..6 PROVE Follows(rest[i], rest[i + 1])
      <3>1. i = 1 \/ i = 2 \/ i = 3 \/ i = 4 \/ i = 5 \/ i = 6
        OBVIOUS
      <3>q. QED
        BY <1>4, <2>1, <3>1
    <2>3. Len(rest) - 1 = 6
      BY <1>4
    <2>q. QED
      BY <2>2, <2>3 DEF Chain
  <1>6. Chained(rest, <<"copy", "stage">>, <<"settle">>)
    BY <1>3, <1>4, <1>5 DEF Chained
  <1>7. Chained(all, <<"allocate", "stage">>, <<"settle">>)
    <2>1. Follows(<<"save", "stage">>, <<"copy", "stage">>)
      BY DEF Follows
    <2>q. QED
      BY <1>1, <1>6, <2>1, Parts, Joins
  <1>8. /\ Program = <<<<"reserve">>>> \o all /\ Len(all) = 9
        /\ \A i \in 1..Len(all) : all[i] # <<"restore">>
    BY <1>4 DEF Program, rest, Rescan!Allocation
  <1> HIDE DEF all
  <1>9. all \in Steps
    BY <1>7 DEF Chained
  <1>a. Program \in Steps /\ Program # <<>> /\ Program[1] = <<"reserve">> /\ Len(Program) = 10
        /\ Tail(Program) = all
        /\ \A i \in 1..Len(all) : Program[i + 1] = all[i]
    <2> DEFINE x == <<"reserve">>
    <2>1. x \in OneStep /\ Program = <<x>> \o all /\ Len(all) + 1 = 10
      BY <1>2, <1>8
    <2> HIDE DEF x
    <2>2. /\ <<x>> \o all \in Steps /\ <<x>> \o all # <<>> /\ (<<x>> \o all)[1] = x
          /\ Len(<<x>> \o all) = Len(all) + 1 /\ Tail(<<x>> \o all) = all
          /\ \A i \in 1..Len(all) : (<<x>> \o all)[i + 1] = all[i]
      BY <1>9, <2>1, StepBefore
    <2>3. /\ Program \in Steps /\ Program # <<>> /\ Program[1] = x /\ Len(Program) = 10
          /\ Tail(Program) = all
          /\ \A i \in 1..Len(all) : Program[i + 1] = all[i]
      BY <2>1, <2>2
    <2>q. QED
      BY <2>3 DEF x
  <1>b. ASSUME NEW i \in 2..Len(Program) PROVE Program[i] # <<"restore">>
    <2>1. i - 1 \in 1..Len(all) /\ i = (i - 1) + 1
      BY <1>8, <1>a
    <2>2. Program[i] = all[i - 1]
      BY <1>a, <2>1
    <2>q. QED
      BY <1>8, <2>1, <2>2
  <1>q. QED
    BY <1>7, <1>a, <1>b DEF Chained

\* Before an operation is reserved, and after it ended.
LEMMA IdleKeeps ==
  ASSUME Evidence, Script, rf_op.state \notin Undecided \cup {"db_committed"}, Rescan!UnitStep
  PROVE  Evidence' /\ Script'
  <1>1. \/ rf_todo = <<>> \/ rf_todo = <<<<"settle">>>>
        \/ rf_todo = Program /\ rf_op = Rescan!NoOp
    BY DEF Script, Evidence, Rescan!Operation, Rescan!NoOp
  <1>2. ASSUME NEW s, Rescan!At(s)
        PROVE  s = <<"settle">> \/ (s = <<"reserve">> /\ rf_todo = Program)
    <2>1. rf_todo # <<>> /\ Head(rf_todo) = s
      BY <1>2 DEF Rescan!At
    <2>2. CASE rf_todo = <<<<"settle">>>>
      BY <2>1, <2>2
    <2>3. CASE rf_todo = Program
      <3>1. Head(rf_todo) = rf_todo[1]
        BY <2>3, ProgramScript DEF Steps
      <3>q. QED
        BY <2>1, <2>3, <3>1, ProgramScript
    <2>q. QED
      BY <1>1, <2>1, <2>2, <2>3
  <1>3. CASE Rescan!_settle
    <2>1. rf_todo' = <<>> /\ UNCHANGED <<rf_op, rf_fs, rf_dest, rf_recorded>>
      BY <1>3 DEF Rescan!_settle, Rescan!Active, Rescan!Skip, Undecided
    <2>q. QED
      BY <2>1, EndScript DEF Evidence, Captured, Src, Source, Uncovering
  <1>4. CASE Rescan!_reserve
    <2>1. rf_todo = Program /\ rf_op = Rescan!NoOp
      BY <1>1, <1>2, <1>4, ProgramScript DEF Rescan!_reserve
    <2>2. CASE rf_todo' = <<>> /\ Rescan!Skip
      BY <2>2, EndScript DEF Rescan!Skip, Evidence, Captured, Src, Source, Uncovering
    <2>3. CASE /\ rf_fs["src"] = "orig" /\ Rescan!Then(<<>>)
               /\ rf_op' = [state |-> "prepared", phase |-> [p \in Rescan!Purpose |-> "none"],
                            allocating |-> "none", ready |-> {}, receipt |-> FALSE,
                            winner |-> FALSE]
               /\ UNCHANGED <<rf_fs, rf_dest, rf_recorded>>
      <3>1. /\ rf_op' \in Rescan!Operation /\ rf_op'.state = "prepared"
            /\ rf_op'.phase["source"] = "none" /\ rf_op'.phase["rollback"] = "none"
        BY <2>3 DEF Rescan!Operation, Rescan!Purpose, Rescan!Phase
      <3>2. Evidence'
        BY <2>1, <2>3, <3>1
        DEF Evidence, Captured, Src, Source, Uncovering, Undecided, Decided, Rescan!NoOp
      <3>3. rf_todo' = Tail(Program)
        BY <2>1, <2>3, ProgramScript DEF Rescan!Then, Steps
      <3>4. Ready(<<"allocate", "stage">>, rf_op', rf_fs', rf_dest')
        BY <3>1 DEF Ready
      <3>q. QED
        BY <3>1, <3>2, <3>3, <3>4, ProgramScript DEF Script, Undecided
    <2>q. QED
      BY <1>4, <2>2, <2>3 DEF Rescan!_reserve, Rescan!Store
  <1>5. CASE \/ Rescan!_enrichment_context_is_current
             \/ Rescan!_capture_source \/ Rescan!_publish \/ Rescan!_rename_noreplace
             \/ Rescan!_store_receipt \/ Rescan!_commit
             \/ Rescan!_remove_publication \/ Rescan!_remove_publication_capture
             \/ Rescan!_restore_source \/ Rescan!link_private_regular
    <2>1. \E w \in {"recheck", "capture", "publish", "place", "published", "commit",
                    "remove", "uncover", "restore", "link"} : Rescan!At(<<w>>)
      BY <1>5
      DEF Rescan!_enrichment_context_is_current, Rescan!_capture_source,
          Rescan!_publish, Rescan!_rename_noreplace, Rescan!_store_receipt, Rescan!_commit,
          Rescan!_remove_publication, Rescan!_remove_publication_capture,
          Rescan!_restore_source, Rescan!link_private_regular
    <2>q. QED
      BY <1>2, <2>1
  <1>6. CASE \/ \E p \in Rescan!Purpose :
                  \/ Rescan!_allocate(p) \/ Rescan!_save_record(p) \/ Rescan!_discard(p)
                  \/ Rescan!discard_private_regular(p)
                  \/ \E phase \in Rescan!Phase : Rescan!_phase(p, phase)
             \/ \E p \in {"stage", "publication"} :
                  Rescan!_copy_prepared(p) \/ Rescan!_store_fingerprint(p)
             \/ \E p \in {"source", "rollback"} : Rescan!claim_into_empty(p)
             \/ \E state \in {"completed", "rolled_back"} : Rescan!_end(state)
    <2>1. \E w, p : Rescan!At(<<w, p>>)
      BY <1>6
      DEF Rescan!_allocate, Rescan!_save_record, Rescan!_copy_prepared, Rescan!_discard,
          Rescan!discard_private_regular, Rescan!_phase, Rescan!_end,
          Rescan!_store_fingerprint, Rescan!claim_into_empty
    <2>q. QED
      BY <1>2, <2>1
  <1>q. QED
    BY <1>3, <1>4, <1>5, <1>6 DEF Rescan!UnitStep

\* A stop before the reservation, or after the decision.
LEMMA OtherStopKeeps ==
  ASSUME Evidence, Script, rf_op.state \notin Undecided, Rescan!Stop
  PROVE  Evidence' /\ Script'
  <1>1. UNCHANGED <<rf_op, rf_fs, rf_dest, rf_recorded>> /\ rf_todo # <<>>
    BY DEF Rescan!Stop
  <1>2. Evidence'
    BY <1>1 DEF Evidence, Captured, Src, Source, Uncovering
  <1>3. ~Rescan!Later(<<"restore">>)
    <2>1. CASE rf_todo = Program
      BY <2>1, ProgramScript DEF Rescan!Later
    <2>2. CASE Forward(rf_todo) \/ rf_todo = <<<<"settle">>>>
      BY <2>2, NoWayBack DEF Script
    <2>q. QED
      BY <1>1, <2>1, <2>2 DEF Script
  <1>q. QED
    BY <1>2, <1>3, DecidedRaises, EndScript DEF Rescan!Stop

\* The whole unit.
LEMMA RescanUnitKeeps ==
  ASSUME Evidence, Script, Rescan!UnitStep
  PROVE  Evidence' /\ Script'
  <1>1. CASE rf_op.state = "db_committed"
    BY <1>1, DecidedKeeps
  <1>2. CASE rf_op.state \notin Undecided \cup {"db_committed"}
    BY <1>2, IdleKeeps
  <1>3. CASE rf_op.state \in Undecided
    <2>1. CASE rf_todo # <<>>
      <3>1. Coming
        BY <1>3, <2>1, Comes
      <3>2. ~Rescan!_reserve
        <4>1. ~Ready(<<"reserve">>, rf_op, rf_fs, rf_dest)
          BY DEF Ready
        <4>q. QED
          BY <3>1, <4>1, Heads DEF Rescan!_reserve
      <3>3. "stage" \in {"stage", "publication"}
        OBVIOUS
      <3>q. QED
        BY <3>1, <3>2, <3>3, CarrierKeeps, PreparationKeeps, PhaseKeeps, ClaimKeeps, CallsKeep,
           PlacementKeeps, DecisionKeeps, SettleKeeps, RemovalKeeps, RestorationKeeps,
           LinkKeeps, DiscardKeeps, EndKeeps
        DEF Rescan!UnitStep
    <2>2. CASE rf_todo = <<>>
      BY <2>2
      DEF Rescan!UnitStep, Rescan!At, Rescan!_reserve, Rescan!_enrichment_context_is_current,
          Rescan!_capture_source, Rescan!_publish, Rescan!_rename_noreplace,
          Rescan!_store_receipt, Rescan!_commit, Rescan!_settle, Rescan!_remove_publication,
          Rescan!_remove_publication_capture, Rescan!_restore_source,
          Rescan!link_private_regular, Rescan!_end, Rescan!_allocate, Rescan!_save_record,
          Rescan!_discard, Rescan!discard_private_regular, Rescan!_phase,
          Rescan!_copy_prepared, Rescan!_store_fingerprint, Rescan!claim_into_empty
    <2>q. QED
      BY <2>1, <2>2
  <1>q. QED
    BY <1>1, <1>2, <1>3

\* The unit changes nothing as another program.
LEMMA UnitForeign ==
  ASSUME Rescan!UnitStep
  PROVE  UNCHANGED rf_foreign
  <1>1. CASE \/ Rescan!_reserve \/ Rescan!_enrichment_context_is_current
             \/ Rescan!_capture_source \/ Rescan!_publish \/ Rescan!_rename_noreplace
             \/ Rescan!_store_receipt \/ Rescan!_commit \/ Rescan!_settle
             \/ Rescan!_remove_publication \/ Rescan!_remove_publication_capture
             \/ Rescan!_restore_source \/ Rescan!link_private_regular
    BY <1>1
    DEF Rescan!_reserve, Rescan!_enrichment_context_is_current, Rescan!_capture_source,
        Rescan!_publish, Rescan!_rename_noreplace, Rescan!_store_receipt, Rescan!_commit,
        Rescan!_settle, Rescan!_remove_publication, Rescan!_remove_publication_capture,
        Rescan!_restore_source, Rescan!link_private_regular, Rescan!Skip, Rescan!Store,
        Rescan!Files
  <1>2. ASSUME NEW state, Rescan!_end(state) PROVE UNCHANGED rf_foreign
    BY <1>2 DEF Rescan!_end, Rescan!Store
  <1>3. ASSUME NEW p,
               \/ Rescan!_allocate(p) \/ Rescan!_save_record(p) \/ Rescan!_discard(p)
               \/ Rescan!discard_private_regular(p) \/ Rescan!_copy_prepared(p)
               \/ Rescan!_store_fingerprint(p) \/ Rescan!claim_into_empty(p)
        PROVE  UNCHANGED rf_foreign
    BY <1>3
    DEF Rescan!_allocate, Rescan!_save_record, Rescan!_discard,
        Rescan!discard_private_regular, Rescan!_copy_prepared, Rescan!_store_fingerprint,
        Rescan!claim_into_empty, Rescan!Skip, Rescan!Store, Rescan!Files
  <1>4. ASSUME NEW p, NEW phase, Rescan!_phase(p, phase) PROVE UNCHANGED rf_foreign
    BY <1>4 DEF Rescan!_phase, Rescan!Store
  <1>q. QED
    BY <1>1, <1>2, <1>3, <1>4 DEF Rescan!UnitStep

\* Every rescan operation, wherever it stops and whoever settles it (enrich_target,
\* _settle and replay of rescan_file_recovery.py): while only this program touches
\* the public names, the file the volume row points at is there, or the original
\* is in a carrier the journal names.
THEOREM VolumeStaysReadable == Spec => []VolumeReadable
  <1>1. Init => RescanInv
    <2> SUFFICES ASSUME Rescan!Init PROVE RescanInv
      BY DEF Init
    <2>1. /\ rf_op = Rescan!NoOp /\ rf_dest \in Rescan!Public /\ rf_recorded = "src"
          /\ rf_fs \in [Rescan!Public \cup Rescan!Purpose -> {"none", "orig", "new", "foreign"}]
          /\ rf_fs["src"] = "orig" /\ rf_fs["source"] = "none"
          /\ rf_todo = <<>> /\ rf_foreign = 0
      BY DEF Rescan!Init, Rescan!Public, Rescan!Purpose
    <2>2. Evidence
      BY <2>1 DEF Evidence, Src, Undecided, Decided, Rescan!NoOp
    <2>3. Script
      BY <2>1 DEF Script, Steps
    <2>q. QED
      BY <2>1, <2>2, <2>3 DEF RescanInv
  <1>2. RescanInv /\ [Next]_vars => RescanInv'
    <2> SUFFICES ASSUME RescanInv, [Next]_vars PROVE RescanInv'
      OBVIOUS
    <2>1. Rescan!Next \/ UNCHANGED rf_vars
      BY DEF Next, RescanStep, DirectStep, QuarantineStep, IdentityStep, WorkersStep,
             ReconcileStep, vars
    <2>2. CASE Rescan!Foreign
      BY <2>2 DEF Rescan!Foreign, RescanInv
    <2>3. ASSUME UNCHANGED rf_foreign, rf_foreign = 0 => Evidence' /\ Script'
          PROVE  RescanInv'
      BY <2>3 DEF RescanInv
    <2>4. rf_foreign = 0 => Evidence /\ Script
      BY DEF RescanInv
    <2>5. ASSUME UNCHANGED <<rf_op, rf_fs, rf_dest, rf_recorded>>, Evidence
          PROVE  Evidence'
      BY <2>5 DEF Evidence, Captured, Src, Source, Uncovering
    <2>6. CASE Rescan!enrich_target
      <3>1. /\ UNCHANGED <<rf_op, rf_fs, rf_dest, rf_recorded, rf_foreign>>
            /\ rf_op.state = "none" /\ rf_todo' = Program
        BY <2>6 DEF Rescan!enrich_target, Rescan!Skip, Rescan!NoOp, Program
      <3>2. Script'
        BY <3>1, ProgramScript DEF Script
      <3>q. QED
        BY <2>3, <2>4, <2>5, <3>1, <3>2
    <2>7. CASE Rescan!UnitStep
      <3>1. UNCHANGED rf_foreign
        BY <2>7, UnitForeign
      <3>q. QED
        BY <2>3, <2>4, <2>7, <3>1, RescanUnitKeeps
    <2>8. CASE Rescan!replay_rescan_file_operation
      <3>1. /\ UNCHANGED <<rf_op, rf_fs, rf_dest, rf_recorded, rf_foreign>>
            /\ rf_todo' = <<<<"settle">>>>
        BY <2>8 DEF Rescan!replay_rescan_file_operation, Rescan!Skip
      <3>q. QED
        BY <2>3, <2>4, <2>5, <3>1, EndScript
    <2>9. CASE Rescan!Stop
      <3>1. UNCHANGED rf_foreign /\ rf_todo # <<>>
        BY <2>9 DEF Rescan!Stop
      <3>2. rf_foreign = 0 => Evidence' /\ Script'
        BY <2>4, <2>9, <3>1, Comes, StopKeeps, OtherStopKeeps
      <3>q. QED
        BY <2>3, <3>1, <3>2
    <2>a. CASE Rescan!Writer \/ UNCHANGED rf_vars
      <3>1. UNCHANGED <<rf_op, rf_fs, rf_dest, rf_recorded, rf_todo, rf_foreign>>
        BY <2>a DEF Rescan!Writer, rf_vars
      <3>2. Script => Script'
        BY <3>1 DEF Script
      <3>q. QED
        BY <2>3, <2>4, <2>5, <3>1, <3>2
    <2>q. QED
      BY <2>1, <2>2, <2>6, <2>7, <2>8, <2>9, <2>a DEF Rescan!Next
  <1>3. RescanInv => VolumeReadable
    <2> SUFFICES ASSUME RescanInv, rf_foreign = 0
                 PROVE  \/ rf_fs[rf_recorded] # "none"
                        \/ /\ Rescan!Active /\ rf_fs["source"] = "orig"
                           /\ rf_op.phase["source"] # "none"
      BY DEF VolumeReadable, Rescan!VolumeReadable
    <2>1. Evidence
      BY DEF RescanInv
    <2>2. CASE rf_op.state \in Undecided
      <3>1. rf_op \in Rescan!Operation /\ Source \in Rescan!Phase
        BY <2>1, <2>2, UndecidedRow DEF Source, Rescan!Purpose
      <3>q. QED
        BY <2>1, <2>2, <3>1
        DEF Evidence, Captured, Src, Source, Undecided, Decided, Rescan!Active, Rescan!Phase
    <2>3. CASE rf_op.state \notin Undecided
      <3>1. rf_op.state \in {"none", "rolled_back"} \cup Decided
        BY <2>1, <2>3 DEF Evidence, Undecided, Decided, Rescan!Operation, Rescan!NoOp
      <3>q. QED
        BY <2>1, <3>1 DEF Evidence, Src, Decided
    <2>q. QED
      BY <2>2, <2>3
  <1>q. QED
    BY <1>1, <1>2, <1>3, PTL DEF Spec
=============================================================================
