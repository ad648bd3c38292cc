------------------------------ MODULE MCUnits -------------------------------
(***************************************************************************)
(* The components that work in units: the passes of a rescan over rows and *)
(* its file operations, direct downloads, the quarantine of chapters,      *)
(* enrolled deletions and import workers.  Units stop, are retried and     *)
(* must end.  They share no variable, so each behaviour is one of a single *)
(* component.                                                              *)
(***************************************************************************)
EXTENDS Naturals

CONSTANTS
    rf_MaxStops, rf_MaxForeign,
    Item, Job, Grabber, MaxTries,
    File, NoFile, MaxRows, cq_MaxForeign, MaxEdits, MaxInterrupts,
    fi_MaxForeign, MaxMounts, fi_MaxStops,
    Queue, Task, Producer, NoTask, MaxLifespans,
    MaxChanges

\* NoTask and NoFile are no values of the others, ids are positive and bounds numbers.
ASSUME UnitsAssumption ==
    /\ NoTask \notin Task /\ NoFile \notin File
    /\ Job \subseteq Nat \ {0} /\ Item # {}
    /\ {rf_MaxStops, rf_MaxForeign, MaxTries, MaxRows, cq_MaxForeign, MaxEdits, MaxInterrupts,
        fi_MaxForeign, MaxMounts, fi_MaxStops, MaxLifespans, MaxChanges} \subseteq Nat

VARIABLES
    comp,    \* the component of this behaviour
    rf_op, rf_fs, rf_dest, rf_recorded, rf_current, rf_todo, rf_stops, rf_foreign,
    dd_kind, dd_row, dd_job, dd_up, dd_grab, dd_poll, dd_retry,
    cq_native, cq_chapter, cq_volume, cq_prov, cq_assembly, cq_row, cq_place,
    cq_harm, cq_run, cq_rows, cq_seen, cq_gone, cq_foreigns, cq_edits, cq_interrupts,
    fi_disk, fi_box, fi_dev, fi_row, fi_enrolled, fi_led, fi_unit, fi_owned,
    fi_foreigns, fi_stops,
    iw_phase, iw_accepting, iw_workers, iw_task, iw_producers, iw_awaited,
    iw_lifespans,
    rr_vol, rr_chap, rr_pack, rr_context, rr_deleted, rr_owned, rr_fs, rr_fence,
    rr_pc, rr_snap, rr_inv, rr_quiet, rr_changes

Rescan == INSTANCE RescanFiles WITH
    op <- rf_op, fs <- rf_fs, dest <- rf_dest, recorded <- rf_recorded,
    current <- rf_current, todo <- rf_todo, stops <- rf_stops,
    foreign <- rf_foreign, MaxStops <- rf_MaxStops, MaxForeign <- rf_MaxForeign
Direct == INSTANCE DirectDownload WITH
    kind <- dd_kind, row <- dd_row, job <- dd_job, up <- dd_up, grab <- dd_grab,
    poll <- dd_poll, retry <- dd_retry
Quarantine == INSTANCE ChapterQuarantine WITH
    native <- cq_native, chapter <- cq_chapter, volume <- cq_volume,
    prov <- cq_prov, assembly <- cq_assembly, row <- cq_row, place <- cq_place,
    harm <- cq_harm, run <- cq_run, rows <- cq_rows, seen <- cq_seen,
    gone <- cq_gone, foreigns <- cq_foreigns, edits <- cq_edits,
    interrupts <- cq_interrupts, MaxForeign <- cq_MaxForeign
Identity == INSTANCE FileIdentity WITH
    disk <- fi_disk, box <- fi_box, dev <- fi_dev, row <- fi_row,
    enrolled <- fi_enrolled, led <- fi_led, unit <- fi_unit, owned <- fi_owned,
    foreigns <- fi_foreigns, stops <- fi_stops, MaxForeign <- fi_MaxForeign,
    MaxStops <- fi_MaxStops
Workers == INSTANCE ImportWorkers WITH
    phase <- iw_phase, accepting <- iw_accepting, workers <- iw_workers,
    task <- iw_task, producers <- iw_producers, awaited <- iw_awaited,
    lifespans <- iw_lifespans
Reconcile == INSTANCE RescanReconcile WITH
    vol <- rr_vol, chap <- rr_chap, pack <- rr_pack, context <- rr_context,
    deleted <- rr_deleted, owned <- rr_owned, fs <- rr_fs, fence <- rr_fence,
    pc <- rr_pc, snap <- rr_snap, inv <- rr_inv, quiet <- rr_quiet,
    changes <- rr_changes

rf_vars ==
    <<rf_op, rf_fs, rf_dest, rf_recorded, rf_current, rf_todo, rf_stops, rf_foreign>>
dd_vars ==
    <<dd_kind, dd_row, dd_job, dd_up, dd_grab, dd_poll, dd_retry>>
cq_vars ==
    <<cq_native, cq_chapter, cq_volume, cq_prov, cq_assembly, cq_row, cq_place,
      cq_harm, cq_run, cq_rows, cq_seen, cq_gone, cq_foreigns, cq_edits,
      cq_interrupts>>
fi_vars ==
    <<fi_disk, fi_box, fi_dev, fi_row, fi_enrolled, fi_led, fi_unit, fi_owned,
      fi_foreigns, fi_stops>>
iw_vars ==
    <<iw_phase, iw_accepting, iw_workers, iw_task, iw_producers, iw_awaited,
      iw_lifespans>>
rr_vars ==
    <<rr_vol, rr_chap, rr_pack, rr_context, rr_deleted, rr_owned, rr_fs, rr_fence,
      rr_pc, rr_snap, rr_inv, rr_quiet, rr_changes>>
vars == <<comp, rf_vars, dd_vars, cq_vars, fi_vars, iw_vars, rr_vars>>

\* The files of the quarantine where nothing depends on which they are.
First == CHOOSE f \in File : TRUE
Second == CHOOSE f \in File \ {First} : TRUE

\* A behaviour is one of a single component; the others stay where they begin.
Init ==
    /\ comp \in {"rescan", "direct", "quarantine", "identity", "workers", "reconcile"}
    /\ Rescan!Init
    /\ comp # "rescan" =>
         rf_dest = "src"
    /\ Direct!Init
    /\ comp # "direct" =>
         \A i \in Item : dd_kind[i] = "volume"
    /\ Quarantine!Init
    /\ comp # "quarantine" =>
         cq_native /\ cq_place["original"] = First /\ cq_place["volume"] = Second
    /\ Identity!Init
    /\ comp # "identity" =>
         fi_row = Identity!NoRow /\ fi_disk["target"] = "orig"
    /\ Workers!Init
    /\ Reconcile!Init
    /\ comp # "reconcile" =>
         rr_vol.st = "absent" /\ rr_chap.st = "wanted" /\ rr_chap.mon /\ rr_pack = "none"
         /\ rr_owned /\ rr_fs.vol = "none" /\ rr_fs.loose = "none"

RescanStep ==
    /\ comp = "rescan" /\ Rescan!Next
    /\ UNCHANGED <<comp, dd_vars, cq_vars, fi_vars, iw_vars, rr_vars>>
DirectStep ==
    /\ comp = "direct" /\ Direct!Next
    /\ UNCHANGED <<comp, rf_vars, cq_vars, fi_vars, iw_vars, rr_vars>>
QuarantineStep ==
    /\ comp = "quarantine" /\ Quarantine!Next
    /\ UNCHANGED <<comp, rf_vars, dd_vars, fi_vars, iw_vars, rr_vars>>
IdentityStep ==
    /\ comp = "identity" /\ Identity!Next
    /\ UNCHANGED <<comp, rf_vars, dd_vars, cq_vars, iw_vars, rr_vars>>
WorkersStep ==
    /\ comp = "workers" /\ Workers!Next
    /\ UNCHANGED <<comp, rf_vars, dd_vars, cq_vars, fi_vars, rr_vars>>
ReconcileStep ==
    /\ comp = "reconcile" /\ Reconcile!Next
    /\ UNCHANGED <<comp, rf_vars, dd_vars, cq_vars, fi_vars, iw_vars>>

Next == RescanStep \/ DirectStep \/ QuarantineStep \/ IdentityStep \/ WorkersStep \/ ReconcileStep

Spec == Init /\ [][Next]_vars

\* The fairness of each component, as its module states and justifies it, in the
\* behaviours of that component.
Fairness ==
    /\ WF_rf_vars(comp = "rescan" /\ Rescan!UnitStep)
    /\ WF_rf_vars(comp = "rescan" /\ Rescan!replay_rescan_file_operation)
    /\ WF_dd_vars(comp = "direct" /\ Direct!PollStep)
    /\ SF_dd_vars(comp = "direct" /\ Direct!UnitEnds)
    /\ \A g \in Grabber : WF_dd_vars(comp = "direct" /\ Direct!GrabStep(g))
    /\ WF_dd_vars(comp = "direct" /\ Direct!RetryStep)
    /\ \A i \in Item : WF_dd_vars(comp = "direct" /\ Direct!Download(i))
    /\ WF_cq_vars(comp = "quarantine" /\ Quarantine!ReplayStep)
    /\ WF_fi_vars(comp = "identity" /\ Identity!ReplayStep)
    /\ WF_iw_vars(comp = "workers" /\ Workers!Shutdown)
    /\ \A t \in Task : /\ WF_iw_vars(comp = "workers" /\ Workers!CancelledFinishes(t))
                       /\ WF_iw_vars(comp = "workers" /\ Workers!_on_import_worker_done(t))
FairSpec == Spec /\ Fairness

-----------------------------------------------------------------------------
\* rescan.reconcile_series_inventory: a rescan nobody interfered with ends with
\* rows that agree with the folder.
RowsAgree == Reconcile!RowsAgree

\* rescan._recover_volume and its siblings: what a grab, an import or a deletion
\* made of a volume after the snapshot of a rescan stands.
LaterChangeStands == [][Reconcile!LaterChangeStands]_rr_vars

\* rescan_file_recovery: the file of a volume is readable or in a carrier its
\* journal names, wherever a rename of a rescan stops.
VolumeReadable == Rescan!VolumeReadable

\* suwayomi_: whatever is marked as grabbed has a job that can be polled,
\* retried or cancelled.
GrabbedIsTracked == Direct!GrabbedIsTracked

\* volume_chapter_cleanup: no file is deleted, a listed loose chapter has its
\* file, and a row at rest in quarantine holds it there alone.
QuarantineSafe ==
    Quarantine!NothingDeleted /\ Quarantine!LooseListed /\ Quarantine!QuarantineHolds

\* import_workers: a row has one worker at work, registered where the shutdown
\* finds it, and none is left when the lifespan has ended.
WorkersOwned ==
    Workers!OneWorkerPerRow /\ Workers!LiveWorkerRegistered /\ Workers!QuietWhenDown

\* file_identity_store and volume_file_deletion: an enrolled deletion removes no
\* object but the one it proved to be its own.
OnlyOwnedDiscarded == [][Identity!OnlyOwnedDiscarded]_fi_vars

\* Everything that was begun ends, but for what the code keeps for an operator: a
\* rename of a rescan, a queued direct download, a row of the quarantine, an enrolled
\* deletion, a shutdown.  (The conjunction of the modules' OperationSettles,
\* JobSettles, RowSettles, EnrolledSettles and ShutdownEnds, as one leads-to per job.)
Begun(j) ==
    \/ comp = "rescan" /\ Rescan!Active
    \/ comp = "direct" /\ Direct!Waiting(j)
    \/ comp = "quarantine" /\ Quarantine!Undisturbed
    \/ comp = "identity" /\ Identity!Enrolled
    \/ comp = "workers" /\ iw_phase = "stopping"
Ended(j) ==
    \/ comp = "rescan" /\ Rescan!Over
    \/ comp = "direct" /\ ~Direct!Waiting(j)
    \/ comp = "quarantine" /\ ~Quarantine!Undisturbed
    \/ comp = "identity" /\ (fi_row.state = "completed" \/ Identity!Disturbed \/ Identity!Interrupted)
    \/ comp = "workers" /\ iw_phase = "down"
WorkEnds == \A j \in Job : Begun(j) ~> Ended(j)

=============================================================================
