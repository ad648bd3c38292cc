----------------------------- MODULE PackCleanup -----------------------------
(***************************************************************************)
(* The generated pack of one download: import_pack_cleanup.py, the guarded  *)
(* part of import_queue._queue_import and private_pack_source.py.           *)
(*                                                                         *)
(* A download that holds loose images or split archives is repacked into a  *)
(* directory of the cache.  The directory is built inside a private carrier *)
(* (place "placement"), renamed to its canonical name (place "canonical")   *)
(* and, once the queue row that reads it is terminal, captured into a       *)
(* cleanup carrier (place "claim") and removed.  A reservation row, and     *)
(* after the capture a tombstone row, journal every one of these steps.     *)
(*                                                                         *)
(* All units hold the file-mutation lock, so one unit runs at a time; the   *)
(* queue row is changed without that lock by workers and by the operator,   *)
(* the canonical name is reachable by other programs, and a unit may stop   *)
(* (an error, a killed process) between any two steps.                      *)
(***************************************************************************)
EXTENDS Naturals

CONSTANTS
    MaxStops,      \* bound: units that stop, or whose lease lapses, on the way
    MaxForeign     \* bound: changes other programs make at the canonical name

VARIABLES
    res,        \* the row of import_pack_cleanup_reservations, or NoRes
    claim,      \* phase of the directory claim of a cleanup carrier, or "none"
    holder,     \* the row that journals the claim: "none", "res" or "tomb"
    fs,         \* what is at each place: "none", "ours" or "foreign"
    row,        \* status of the import_queue row, "none" when there is no row
    gen,        \* the sources of the queue row are files of the generated pack
    pub,        \* the publication of the row: "none", "active", "final", "complete"
    admitted,   \* an attempt has frozen the pack files as its sources
    pc,         \* the next step of the unit that holds the file-mutation lock
    job,        \* what follows the recovery pass of that unit: "queue", "cleanup",
                \* nothing ("recover"), or "build" once the pass is over
    stops, foreign,
    exposed     \* a case in which the code keeps its evidence for an operator
vars == <<res, claim, holder, fs, row, gen, pub, admitted, pc, job, stops,
          foreign, exposed>>
disk == <<fs, claim, holder>>
consumer == <<row, gen, pub, admitted>>
env == <<stops, foreign, exposed>>

Place == {"placement", "canonical", "claim"}
Carrier == {"none", "allocated", "claiming", "claimed", "discarding", "discarded"}
Phase == {"null", "building", "attaching", "ready", "queued", "attached",
          "cleaning", "retained"}
Reservation ==
    [purpose : {"none", "queueing", "cleanup"}, live : BOOLEAN, linked : BOOLEAN,
     phase : Phase, gap : BOOLEAN, carrier : Carrier, private : BOOLEAN,
     canon : {"none", "canonical", "placement"}, spent : BOOLEAN]
NoRes == [purpose |-> "none", live |-> FALSE, linked |-> FALSE, phase |-> "null",
          gap |-> FALSE, carrier |-> "none", private |-> FALSE, canon |-> "none",
          spent |-> FALSE]

TypeOK ==
    /\ res \in Reservation
    /\ claim \in Carrier /\ holder \in {"none", "res", "tomb"}
    /\ fs \in [Place -> {"none", "ours", "foreign"}]
    /\ row \in {"none", "pending", "importing", "failed", "kept", "skipped"}
    /\ pub \in {"none", "active", "final", "complete"}
    /\ gen \in BOOLEAN /\ admitted \in BOOLEAN /\ exposed \in BOOLEAN
    /\ job \in {"none", "queue", "cleanup", "recover", "build"}
    /\ stops \in Nat /\ foreign \in Nat

Init ==
    /\ res = NoRes /\ claim = "none" /\ holder = "none"
    /\ fs = [p \in Place |-> "none"]
    /\ row = "none" /\ gen = FALSE /\ pub = "none" /\ admitted = FALSE
    /\ pc = "idle" /\ job = "none" /\ stops = 0 /\ foreign = 0 /\ exposed = FALSE

Reserved == res.purpose # "none"
\* renameat2 with RENAME_NOREPLACE, within the cache.
RenameNoreplace(source, destination) ==
    /\ fs[destination] = "none"
    /\ fs' = [fs EXCEPT ![destination] = fs[source], ![source] = "none"]
Idle == pc' = "idle" /\ job' = "none"
Go(step) == pc' = step /\ UNCHANGED job
\* A refusal or the end of one reservation: a recovery pass goes on to the
\* tombstones, the unit that builds a pack returns.
End == IF job = "build" THEN Idle ELSE Go("tombstones")
Save(proof) == res' = proof

(***************************************************************************)
(* What the SQL-only checks decide.                                         *)
(***************************************************************************)
\* A row is cleaned up only when it is terminal, is not leased, has no active
\* publication and does not keep the pack files of skipped children.
\* A failed row all of whose children are skipped still names the pack files.
RetainedSkippedPackUsesSource == row = "kept"
\* Mutation of TerminalCleanupEligible: by the status alone, importing rows included.
TerminalCleanupEligible_status == row \notin {"pending", "kept"}
TerminalCleanupEligible ==
    /\ row \notin {"pending", "importing"}
    /\ pub # "active"
    /\ ~RetainedSkippedPackUsesSource

\* The provisional row is exactly the one the reservation was linked to.
SqlQueueAuthority == Reserved /\ res.linked /\ res.phase = "queued"
                     /\ res.purpose = "cleanup" /\ row = "pending" /\ gen

\* The directory and inventory proof of the place the pack was attached to.
DirectoryVerified ==
    /\ res.canon # "none"
    /\ fs[res.canon] = "ours"
    /\ res.canon = "placement" => fs["canonical"] = "none"

\* Mutation of Recoverable: the fence of a linked pending row is left alone.
Recoverable_unlinked ==
    Reserved /\ ~res.live /\ (~res.linked \/ row \notin {"pending", "importing"})
    /\ ~(res.purpose = "queueing" /\ res.linked /\ row # "none" /\ res.spent)
\* Expired reservations a recovery pass takes over.
Recoverable ==
    /\ Reserved /\ ~res.live
    /\ res.purpose = "cleanup" \/ ~res.linked \/ row \notin {"pending", "importing"}
    /\ ~(res.purpose = "queueing" /\ res.linked /\ row # "none" /\ res.spent)

(***************************************************************************)
(* _queue_import.                                                           *)
(***************************************************************************)
\* No matching queue row and no terminal receipt; a recovery pass runs first.
StartQueue ==
    /\ pc = "idle" /\ row = "none" /\ pub = "none"
    /\ pc' = "recover" /\ job' = "queue"
    /\ UNCHANGED <<res, disk, consumer, env>>

FreshReservation(purpose, linked) ==
    [purpose |-> purpose, live |-> TRUE, linked |-> linked, phase |-> "null",
     gap |-> FALSE, carrier |-> "none", private |-> FALSE, canon |-> "none",
     spent |-> FALSE]

\* The insert of a reservation, unless a row overlaps the identity.  Bound: a
\* second pack is not built while a tombstone of the first is kept.
ReservePackQueueCreation ==
    /\ pc = "reserve"
    /\ IF Reserved \/ holder = "tomb" THEN Idle /\ UNCHANGED res
                   ELSE /\ res' = FreshReservation("queueing", FALSE)
                        /\ pc' = "scan" /\ job' = "build"
    /\ UNCHANGED <<disk, consumer, env>>

\* The heartbeat renews a live lease at every checkpoint and gives up a lapsed
\* one: nothing of what was built is touched any more.
Heartbeat(step, next) ==
    /\ pc = step
    /\ IF res.live THEN Go(next) ELSE Idle
    /\ UNCHANGED <<res, disk, consumer, env>>

\* The scan of the download finds directories of images or split archives to
\* repack, plain archives, or nothing to queue.
PackImageDirectories == Heartbeat("scan", "create")
ExtractSplitRars == Heartbeat("scan", "create") \/ Heartbeat("scan", "remove")
ScanPlain == Heartbeat("scan", "begin_plain") \/ Heartbeat("scan", "remove")

\* _prepare_pack_private_directory, one step per durable save or change.
SaveCreating ==
    /\ pc = "create" /\ Go("allocate")
    /\ Save([res EXCEPT !.phase = "building", !.gap = TRUE])
    /\ UNCHANGED <<disk, consumer, env>>
\* Mutation of SavePlacementCarrier: the carrier is not recorded.
SavePlacementCarrier_unsaved ==
    pc = "allocate" /\ Go("mkdir") /\ UNCHANGED <<res, disk, consumer, env>>
SavePlacementCarrier ==
    /\ pc = "allocate" /\ Save([res EXCEPT !.carrier = "allocated"]) /\ Go("mkdir")
    /\ UNCHANGED <<disk, consumer, env>>
CreatePackDirectory ==
    /\ pc = "mkdir" /\ fs' = [fs EXCEPT !["placement"] = "ours"] /\ Go("prove")
    /\ UNCHANGED <<res, claim, holder, consumer, env>>
SavePrivateDirectory ==
    /\ pc = "prove"
    /\ Save([res EXCEPT !.gap = FALSE, !.carrier = "claimed", !.private = TRUE])
    /\ Go("pack")
    /\ UNCHANGED <<disk, consumer, env>>
\* Each file is mapped to a volume or a chapter; a pack may map to nothing.
MapPackFiles == Heartbeat("pack", "begin") \/ Heartbeat("pack", "remove")

\* The live reservation becomes the fence of the attachment.
BeginPackQueueAttachment ==
    /\ pc \in {"begin", "begin_plain"}
    /\ IF res.live
       THEN /\ Save([res EXCEPT !.purpose = "cleanup"])
            /\ Go(IF pc = "begin" THEN "attach" ELSE "insert")
       ELSE Go("remove") /\ UNCHANGED res
    /\ UNCHANGED <<disk, consumer, env>>

\* Plain sources: the row is inserted and the reservation released in one
\* transaction.
InsertPlainQueue ==
    /\ pc = "insert" /\ Idle
    /\ IF res.live THEN row' = "pending" /\ gen' = FALSE /\ res' = NoRes
                   ELSE UNCHANGED <<row, gen, res>>
    /\ UNCHANGED <<disk, pub, admitted, env>>

\* durably_attach_pack_queue_directory
SaveAttaching ==
    /\ pc = "attach"
    /\ IF fs["canonical"] = "none"
       THEN /\ Save([res EXCEPT !.phase = "attaching", !.canon = "canonical"])
            /\ Go("rename")
       ELSE Idle /\ UNCHANGED res
    /\ UNCHANGED <<disk, consumer, env>>
RenameToCanonical ==
    /\ pc = "rename"
    /\ \/ RenameNoreplace("placement", "canonical") /\ Go("ready")
       \/ fs["canonical"] = "none" /\ Go("remove") /\ UNCHANGED fs
       \/ fs["canonical"] # "none" /\ Idle /\ UNCHANGED fs
    /\ UNCHANGED <<res, claim, holder, consumer, env>>
\* Without renameat2 the pack stays in its proven private carrier.
KeepInPlacement ==
    /\ pc = "rename" /\ fs["canonical"] = "none" /\ Go("commit")
    /\ Save([res EXCEPT !.phase = "ready", !.private = FALSE, !.canon = "placement"])
    /\ UNCHANGED <<disk, consumer, env>>
SaveReady ==
    /\ pc = "ready"
    /\ IF fs["canonical"] = "ours"
       THEN Save([res EXCEPT !.phase = "ready", !.private = FALSE]) /\ Go("commit")
       ELSE Idle /\ UNCHANGED res
    /\ UNCHANGED <<disk, consumer, env>>

\* _commit_generated_pack_queue: the row and its link are one transaction, and
\* the directory is verified before it and again after it.
CommitGeneratedQueue ==
    /\ pc = "commit"
    /\ IF DirectoryVerified
       THEN /\ row' = "pending" /\ gen' = TRUE
            /\ Save([res EXCEPT !.linked = TRUE, !.phase = "queued"]) /\ Go("recheck")
       ELSE Idle /\ UNCHANGED <<row, gen, res>>
    /\ UNCHANGED <<disk, pub, admitted, env>>

\* _cancel_generated_pack_queue deletes the provisional row, if it is still
\* exactly that row, and keeps the artifacts.
CancelGeneratedQueue ==
    IF SqlQueueAuthority
    THEN /\ row' = "none" /\ gen' = FALSE
         /\ Save([res EXCEPT !.linked = FALSE, !.phase = "retained"])
    ELSE UNCHANGED <<row, gen, res>>
RecheckGeneratedQueue ==
    /\ pc = "recheck"
    /\ IF DirectoryVerified
       THEN /\ IF SqlQueueAuthority THEN Go("finish") ELSE Idle
            /\ UNCHANGED <<row, gen, res>>
       ELSE CancelGeneratedQueue /\ Idle
    /\ UNCHANGED <<disk, pub, admitted, env>>

\* _finish_generated_pack_queue: the emptied placement carrier is dropped, then
\* the reservation is promoted and the row is open to consumers.
DropEmptyPlacement ==
    /\ pc = "finish"
    /\ IF SqlQueueAuthority /\ (res.canon = "canonical" => fs["placement"] = "none")
       THEN /\ IF res.canon = "canonical" THEN Save([res EXCEPT !.carrier = "none"])
                                         ELSE UNCHANGED res
            /\ Go("promote")
       ELSE End /\ UNCHANGED res
    /\ UNCHANGED <<disk, consumer, env>>
PromoteGeneratedQueue ==
    /\ pc = "promote" /\ End
    /\ IF SqlQueueAuthority
       THEN Save([res EXCEPT !.purpose = "queueing", !.phase = "attached"])
       ELSE UNCHANGED res
    /\ UNCHANGED <<disk, consumer, env>>

(***************************************************************************)
(* _discard_pack_placement: used by the unit that built the pack, by the    *)
(* recovery of an abandoned build and by the terminal cleanup.              *)
(***************************************************************************)
\* The rename was done and its receipt was not.
Native == res.canon = "canonical" /\ fs["canonical"] # "none" /\ fs["placement"] = "none"
PlacementProven == res.private \/ res.canon = "placement"
\* remove_pack_queue_private_artifacts swallows a refusal and goes on.
Refuse == IF pc = "remove" THEN Go("release") ELSE End

\* What a unit does next: remove the tree, then record that the carrier is empty.
Rmtree(unit) == IF unit = "remove" THEN "rmtree_remove"
                ELSE IF unit = "abandoned" THEN "rmtree_abandoned" ELSE "rmtree_terminal"
Emptied(unit) == IF unit = "remove" THEN "emptied_remove"
                 ELSE IF unit = "abandoned" THEN "emptied_abandoned" ELSE "emptied_terminal"

DiscardPlacement ==
    /\ pc \in {"remove", "abandoned", "terminal"}
    /\ res.carrier \notin {"none", "discarded"}
    /\ pc = "abandoned" => ~Native
    /\ pc = "terminal" => res.canon = "placement"
    /\ IF fs["placement"] = "none"
       THEN /\ UNCHANGED res
            /\ IF res.carrier \in {"allocated", "discarding"} THEN Go(Emptied(pc))
                                                              ELSE Refuse
       ELSE IF PlacementProven
       THEN Save([res EXCEPT !.carrier = "discarding"]) /\ Go(Rmtree(pc))
       ELSE Refuse /\ UNCHANGED res
    /\ UNCHANGED <<disk, consumer, env>>
RemovePlacement(unit) ==
    /\ pc = Rmtree(unit) /\ Go(Emptied(unit))
    /\ fs' = [fs EXCEPT !["placement"] = "none"]
    /\ UNCHANGED <<res, claim, holder, consumer, env>>
SavePlacementDiscarded(unit, next) ==
    /\ pc = Emptied(unit) /\ Go(next)
    /\ Save(IF unit = "remove"
            THEN [res EXCEPT !.carrier = "none", !.private = FALSE, !.canon = "none"]
            ELSE [res EXCEPT !.carrier = "discarded"])
    /\ UNCHANGED <<disk, consumer, env>>
NothingToRemove ==
    /\ pc = "remove" /\ res.carrier = "none" /\ Go("release")
    /\ UNCHANGED <<res, disk, consumer, env>>

\* release_pack_queue_creation refuses while any proof names an artifact.
ReleasePackQueueCreation ==
    /\ pc = "release" /\ Idle
    /\ res' = IF res.private \/ res.canon # "none" \/ res.gap \/ holder = "res"
              THEN res ELSE NoRes
    /\ UNCHANGED <<disk, consumer, env>>

(***************************************************************************)
(* cleanup_terminal_pack_staging and the recovery pass.                     *)
(***************************************************************************)
\* After an import that ended, or by the replay of a finalized publication.
StartCleanup ==
    /\ pc = "idle" /\ (pub = "final" \/ row \in {"failed", "kept"})
    /\ pc' = "recover" /\ job' = "cleanup"
    /\ UNCHANGED <<res, disk, consumer, env>>
StartRecovery ==
    /\ pc = "idle" /\ (Recoverable \/ holder = "tomb")
    /\ pc' = "recover" /\ job' = "recover"
    /\ UNCHANGED <<res, disk, consumer, env>>

\* _claim_expired_reservation, and which replay the row needs.
Resume ==
    IF ~res.linked THEN "abandoned"
    ELSE IF res.phase = "queued" THEN "requeue"
    ELSE IF TerminalCleanupEligible THEN "terminal"
    ELSE "stale"
ClaimExpiredReservation ==
    /\ pc = "recover"
    /\ IF Recoverable THEN Save([res EXCEPT !.live = TRUE]) /\ Go(Resume)
                      ELSE Go("tombstones") /\ UNCHANGED res
    /\ UNCHANGED <<disk, consumer, env>>

\* A provisional row is verified again, and finished or cancelled.
RecoverQueued ==
    /\ pc = "requeue"
    /\ IF ~SqlQueueAuthority THEN End /\ UNCHANGED <<row, gen, res>>
       ELSE IF DirectoryVerified THEN Go("finish") /\ UNCHANGED <<row, gen, res>>
       ELSE CancelGeneratedQueue /\ End
    /\ UNCHANGED <<disk, pub, admitted, env>>

\* A fence without artifacts must not strand a pending consumer.
ReleaseStaleFence ==
    /\ pc = "stale" /\ End
    /\ res' = IF res.phase = "null" /\ fs["canonical"] = "none" THEN NoRes ELSE res
    /\ UNCHANGED <<disk, consumer, env>>

\* _complete_owned_missing_reservation
CompleteMissing ==
    /\ IF res.live /\ (res.linked => TerminalCleanupEligible)
       THEN /\ res' = NoRes
            /\ pub' = IF res.linked /\ pub = "final" THEN "complete" ELSE pub
       ELSE UNCHANGED <<res, pub>>
    /\ End

\* _recover_abandoned_queue_creation, when no placement is left to discard: what
\* is at the canonical name is captured if it proves, and kept otherwise.
RecoverAbandoned ==
    /\ pc = "abandoned" /\ (res.carrier \in {"none", "discarded"} \/ Native)
    /\ IF res.carrier = "discarded" /\ ~Native THEN CompleteMissing
       ELSE IF holder = "res" THEN Go("discard") /\ UNCHANGED <<res, pub>>
       ELSE IF fs["canonical"] = "none" THEN CompleteMissing
       ELSE /\ Save([res EXCEPT !.carrier = "none", !.private = FALSE]) /\ UNCHANGED pub
            /\ IF res.canon = "canonical" /\ fs["canonical"] = "ours"
               THEN Go("capture") ELSE End
    /\ UNCHANGED <<disk, row, gen, admitted, env>>
CompleteAbandoned ==
    /\ pc = "complete" /\ CompleteMissing
    /\ UNCHANGED <<disk, row, gen, admitted, env>>

\* _acquire_cleanup_reservation
AcquireCleanupReservation ==
    /\ pc = "acquire"
    /\ IF ~TerminalCleanupEligible \/ (Reserved /\ (~res.linked \/ res.purpose # "queueing"
                                                    \/ res.phase = "null"))
       THEN Idle /\ UNCHANGED res
       ELSE /\ pc' = "terminal" /\ job' = "recover"
            /\ IF Reserved THEN Save([res EXCEPT !.purpose = "cleanup", !.live = TRUE])
                           ELSE res' = FreshReservation("cleanup", TRUE)
    /\ UNCHANGED <<disk, consumer, env>>

\* _detach_terminal_cleanup for a pack at its canonical name.
DetachTerminal ==
    /\ pc = "terminal" /\ (res.carrier = "none" \/ res.canon # "placement")
    /\ IF res.carrier # "none" THEN End /\ UNCHANGED <<res, pub>>
       ELSE IF holder = "res" THEN Go("record") /\ UNCHANGED <<res, pub>>
       ELSE IF fs["canonical"] = "none" THEN CompleteMissing
       ELSE /\ UNCHANGED <<res, pub>>
            /\ IF res.canon = "canonical" /\ fs["canonical"] = "ours" THEN Go("capture") ELSE End
    /\ UNCHANGED <<disk, row, gen, admitted, env>>

\* The placement of a terminal pack is gone: the receipt keeps its provenance.
SaveTerminalPlacement ==
    /\ pc = "spend" \/ (pc = "terminal" /\ res.canon = "placement"
                        /\ res.carrier = "discarded")
    /\ End /\ Save([res EXCEPT !.purpose = "queueing", !.phase = "attached", !.spent = TRUE])
    /\ pub' = IF pub = "final" THEN "complete" ELSE pub
    /\ UNCHANGED <<disk, row, gen, admitted, env>>

\* _capture_pack_directory: carrier, intent, rename, proof.
SaveClaim ==
    /\ pc = "capture" /\ claim' = "allocated" /\ holder' = "res"
    /\ Save([res EXCEPT !.phase = "cleaning"]) /\ Go("intend")
    /\ UNCHANGED <<fs, consumer, env>>
SaveClaiming ==
    /\ pc = "intend" /\ claim' = "claiming" /\ Go("detach")
    /\ UNCHANGED <<res, fs, holder, consumer, env>>
DetachDirectory ==
    /\ pc = "detach"
    /\ IF fs["canonical"] = "none" THEN End /\ UNCHANGED fs
       ELSE RenameNoreplace("canonical", "claim") /\ Go("captured")
    /\ UNCHANGED <<res, claim, holder, consumer, env>>
SaveClaimed ==
    /\ pc = "captured"
    /\ IF fs["claim"] = "ours"
       THEN claim' = "claimed" /\ Go(IF res.linked THEN "record" ELSE "discard")
       ELSE End /\ UNCHANGED claim
    /\ UNCHANGED <<res, fs, holder, consumer, env>>

\* _record_owned_tombstone: the claim moves to the tombstone and the
\* reservation goes, in one transaction.
RecordOwnedTombstone ==
    /\ pc = "record"
    /\ IF res.live /\ TerminalCleanupEligible
       THEN holder' = "tomb" /\ res' = NoRes /\ Go("tombstones")
       ELSE End /\ UNCHANGED <<holder, res>>
    /\ UNCHANGED <<fs, claim, consumer, env>>

(***************************************************************************)
(* _remove_tracked_tombstone and _discard_pack_claim.                       *)
(***************************************************************************)
AfterTombstones == IF job = "queue" THEN Go("reserve")
                   ELSE IF job = "cleanup" THEN Go("acquire") ELSE Idle
\* A tombstone that is kept ends a cleanup, and not the queueing of a download.
Kept == IF holder = "res" THEN End ELSE IF job = "queue" THEN Go("reserve") ELSE Idle
RemoveTombstones ==
    /\ pc = "tombstones"
    /\ IF holder # "tomb" THEN AfterTombstones
       ELSE IF TerminalCleanupEligible THEN Go("discard")
       ELSE Kept
    /\ UNCHANGED <<res, disk, consumer, env>>

\* A capture that was only intended is made now, if the source still proves.
CaptureIntended ==
    /\ pc = "discard" /\ claim \in {"allocated", "claiming"} /\ fs["claim"] = "none"
    /\ claim' = "claiming"
    /\ IF fs["canonical"] = "ours"
       THEN RenameNoreplace("canonical", "claim") /\ UNCHANGED <<pc, job>>
       ELSE Kept /\ UNCHANGED fs
    /\ UNCHANGED <<res, holder, consumer, env>>
\* Mutation of ArtifactVerified: whatever was captured is removed.
ArtifactVerified_any == TRUE
ArtifactVerified == fs["claim"] = "ours"
SaveDiscarding ==
    /\ pc = "discard" /\ claim # "discarded"
    /\ fs["claim"] # "none" \/ claim \notin {"allocated", "claiming"}
    /\ IF fs["claim"] = "none"
       THEN UNCHANGED claim /\ IF claim = "discarding" THEN Go("emptied") ELSE Kept
       ELSE IF ArtifactVerified /\ claim # "allocated"
       THEN claim' = "discarding" /\ Go("rmtree")
       ELSE Kept /\ UNCHANGED claim
    /\ UNCHANGED <<res, fs, holder, consumer, env>>
RemoveTree ==
    /\ pc = "rmtree" /\ fs' = [fs EXCEPT !["claim"] = "none"] /\ Go("emptied")
    /\ UNCHANGED <<res, claim, holder, consumer, env>>
SaveDiscarded ==
    /\ pc = "emptied" /\ claim' = "discarded" /\ UNCHANGED <<pc, job, res, fs, holder>>
    /\ UNCHANGED <<consumer, env>>
\* The claim of an abandoned build is dropped with its reservation.
DropReservationClaim ==
    /\ pc \in {"discard", "emptied"} /\ claim = "discarded" /\ holder = "res"
    /\ claim' = "none" /\ holder' = "none" /\ Go("complete")
    /\ Save([res EXCEPT !.private = FALSE])
    /\ UNCHANGED <<fs, consumer, env>>
\* The terminal receipt, then the tombstone and the publication.
SaveTerminalReceipt ==
    /\ pc \in {"discard", "emptied"} /\ claim = "discarded" /\ holder = "tomb"
    /\ Go("forget")
    /\ res' = IF Reserved THEN res
              ELSE [FreshReservation("queueing", TRUE) EXCEPT
                        !.phase = "attached", !.canon = "canonical", !.spent = TRUE]
    /\ UNCHANGED <<disk, consumer, env>>
ForgetTombstone ==
    /\ pc = "forget" /\ claim' = "none" /\ holder' = "none"
    /\ pub' = IF pub = "final" THEN "complete" ELSE pub
    /\ AfterTombstones
    /\ UNCHANGED <<res, fs, row, gen, admitted, env>>

(***************************************************************************)
(* The queue row, its import and its operator; time; other programs.        *)
(***************************************************************************)
\* claim_import_queue_row is fenced by every cleanup reservation.
ClaimImport ==
    /\ row = "pending" /\ ~(Reserved /\ res.purpose = "cleanup")
    /\ row' = "importing"
    /\ UNCHANGED <<res, disk, gen, pub, admitted, pc, job, env>>
\* The reservation, the directory and the file still are the admitted ones.
SourceCurrent(phases) ==
    /\ Reserved /\ res.linked /\ res.phase \in phases
    /\ res.canon # "none" /\ fs[res.canon] = "ours"
\* _freeze_pack_file_origin, under the file-mutation lock.
FreezePackOrigin ==
    /\ pc = "idle" /\ row = "importing" /\ gen /\ ~admitted
    /\ SourceCurrent({"attached"}) /\ res.purpose = "queueing"
    /\ admitted' = TRUE
    /\ UNCHANGED <<res, disk, row, gen, pub, pc, job, env>>
\* The admitted file is opened again, and verified, to be staged.
OpenPackSource == admitted /\ SourceCurrent({"attached"}) /\ res.purpose = "queueing"
\* The commit of a whole import deletes the row; its publication is active.
ImportCommits ==
    /\ pc = "idle" /\ row = "importing" /\ (gen => OpenPackSource)
    /\ row' = "none" /\ pub' = "active"
    /\ UNCHANGED <<res, disk, gen, admitted, pc, job, env>>
\* The removal of a pack file is left to the cleanup of its pack, which the
\* publication verifies before it is finalized.
PackCleanupDelegated ==
    /\ pc = "idle" /\ pub = "active"
    /\ gen => SourceCurrent({"attached", "cleaning"})
    /\ pub' = "final" /\ admitted' = FALSE
    /\ UNCHANGED <<res, disk, row, gen, pc, job, env>>
\* An attempt fails, keeps skipped children, or gives its lease back.
ImportFails ==
    /\ row = "importing" /\ row' \in {"failed", "kept", "pending"} /\ admitted' = FALSE
    /\ UNCHANGED <<res, disk, gen, pub, pc, job, env>>
\* retry_import_queue_entry, skip_import_queue_entry and dismissal.
Operator ==
    /\ \/ row \in {"failed", "kept"} /\ row' = "pending"
       \/ row = "pending" /\ row' = "skipped"
       \/ row \in {"pending", "failed", "kept", "skipped"} /\ row' = "none"
    /\ exposed' = (exposed \/ (Reserved /\ res.purpose = "cleanup"))
    /\ UNCHANGED <<res, disk, gen, pub, admitted, pc, job, stops, foreign>>

\* A lease of fifteen minutes lapses: always in the end, and seldom under a unit.
Expire ==
    /\ Reserved /\ res.live /\ Save([res EXCEPT !.live = FALSE])
    /\ IF pc = "idle" THEN UNCHANGED stops ELSE stops < MaxStops /\ stops' = stops + 1
    /\ UNCHANGED <<disk, consumer, pc, job, foreign, exposed>>

\* A unit stops.  A directory that was made and is not yet proven is kept.
Stop ==
    /\ pc # "idle" /\ stops < MaxStops /\ stops' = stops + 1 /\ Idle
    /\ exposed' = (exposed \/ pc = "prove")
    /\ UNCHANGED <<res, disk, consumer, foreign>>

\* Another program removes, replaces or occupies the canonical name, with a
\* directory _legacy_pack_directory refuses: of another owner, or writable by
\* others.  (One of the server's own user would pass for a pack of an older
\* release; those packs, without ownership record, are not modelled.)
Foreign ==
    /\ foreign < MaxForeign /\ foreign' = foreign + 1 /\ exposed' = TRUE
    /\ \E new \in {"none", "foreign"} \ {fs["canonical"]} :
          fs' = [fs EXCEPT !["canonical"] = new]
    /\ UNCHANGED <<res, claim, holder, consumer, pc, job, stops>>

UnitStep ==
    \/ ReservePackQueueCreation \/ PackImageDirectories \/ ExtractSplitRars
    \/ ScanPlain \/ SaveCreating \/ SavePlacementCarrier \/ CreatePackDirectory
    \/ SavePrivateDirectory \/ MapPackFiles \/ BeginPackQueueAttachment
    \/ InsertPlainQueue \/ SaveAttaching \/ RenameToCanonical \/ KeepInPlacement
    \/ SaveReady \/ CommitGeneratedQueue \/ RecheckGeneratedQueue \/ DropEmptyPlacement
    \/ PromoteGeneratedQueue \/ DiscardPlacement
    \/ \E unit \in {"remove", "abandoned", "terminal"} : RemovePlacement(unit)
    \/ SavePlacementDiscarded("remove", "release")
    \/ SavePlacementDiscarded("abandoned", "complete")
    \/ SavePlacementDiscarded("terminal", "spend")
    \/ NothingToRemove \/ ReleasePackQueueCreation
    \/ ClaimExpiredReservation \/ RecoverQueued \/ ReleaseStaleFence
    \/ RecoverAbandoned \/ CompleteAbandoned \/ AcquireCleanupReservation
    \/ DetachTerminal \/ SaveTerminalPlacement \/ SaveClaim \/ SaveClaiming
    \/ DetachDirectory \/ SaveClaimed \/ RecordOwnedTombstone \/ RemoveTombstones
    \/ CaptureIntended \/ SaveDiscarding \/ RemoveTree \/ SaveDiscarded
    \/ DropReservationClaim \/ SaveTerminalReceipt \/ ForgetTombstone

Next ==
    \/ StartQueue \/ StartCleanup \/ StartRecovery \/ UnitStep
    \/ ClaimImport \/ FreezePackOrigin \/ ImportCommits \/ PackCleanupDelegated
    \/ ImportFails \/ Operator \/ Expire \/ Stop \/ Foreign

Spec == Init /\ [][Next]_vars

\* A unit goes on and a publication is finalized.  Time passes between the
\* units, and the recovery loop and the replay of finalized publications, which
\* run for ever, find the file-mutation lock free now and again.
FairSpec == Spec /\ WF_vars(UnitStep) /\ SF_vars(pc = "idle" /\ Expire)
                 /\ SF_vars(StartRecovery) /\ SF_vars(PackCleanupDelegated)
                 /\ SF_vars(pub = "final" /\ StartCleanup)

-----------------------------------------------------------------------------
\* A directory that another program put at the canonical name is never removed,
\* at most moved into a carrier that is kept (verify_directory, verify_inventory).
ForeignUntouched ==
    \A p \in Place : fs[p] = "foreign" /\ fs'[p] # "foreign" =>
        \/ foreign' # foreign
        \/ p = "canonical" /\ fs'["claim"] = "foreign"
ForeignKept == [][ForeignUntouched]_vars

\* No pack of ours is on disk without a reservation or a tombstone whose proof
\* or carrier names the place it is at: nothing leaks into the cache for ever.
NoOrphanPack ==
    /\ fs["placement"] = "ours" => Reserved /\ res.carrier \notin {"none", "discarded"}
    /\ fs["canonical"] = "ours" =>
          \/ Reserved /\ res.canon = "canonical" /\ ~res.spent
          \/ holder # "none" /\ claim \in {"allocated", "claiming"}
    /\ fs["claim"] = "ours" => holder # "none" /\ claim \in {"claiming", "claimed", "discarding"}

\* While an attempt or its publication reads the pack, no cleanup takes it away.
SourcesKept ==
    admitted /\ foreign = 0 => Reserved /\ res.canon # "none" /\ fs[res.canon] = "ours"

Fenced == Reserved /\ res.purpose = "cleanup"
\* A cleanup or attachment fence ends, after any stops, unless somebody changed
\* the directory or the row under it or a new directory was left unproven.
FenceEnds == Fenced ~> (~Fenced \/ exposed)

\* A pending row does not wait for its fence for ever.
PendingNotStranded == (row = "pending" /\ Fenced) ~> ~(row = "pending" /\ Fenced)
=============================================================================
