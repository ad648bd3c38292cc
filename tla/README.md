# Verification of Mangarr's file protocols

Mangarr is one Python process: an asyncio event loop (FastAPI, background loops), worker threads
for file work, one SQLite database in WAL mode and the file systems of the downloads and of the
library. It is stopped, killed and restarted at will, and other programs write to the same
directories. What makes it hard is not a computation but the many small protocols that keep
database rows and files in agreement: leases in rows, journals written before a file is touched,
receipts written after, one file-mutation lock, and replay loops that finish what a dead task began.

This directory holds TLA+ models of these protocols, TLC configurations for them and TLAPS proofs.

## 1. Inventory

| Component (src/app) | State | Operations | Hard because | Correct when |
|---|---|---|---|---|
| Import queue and leases (`import_lease`, `routers/import_`, sweeps of `tasks`) | `import_queue.status`, `lease_owner`, `lease_expires_at` | claim, renew, transition, release, recover, review, skip, retry, dismiss, clear | operators, sweeps and attempts write the same row between each other's transactions | nobody takes a live lease; an active publication fences its row |
| Import attempt (`import_execute`, `import_plan`, `import_staging`, `import_commit`) | a coroutine with threads, a heartbeat, a transform subprocess | plan, journal, stage, barrier, commit, fail, be cancelled | leases expire under it; cancellation between any two steps | the row and the journal are always given back |
| Publication journal (`import_publication`) | `import_publications`: state, stage receipt, decision, operation lease | create, bind, prepare, publish, commit, compensate, clean, finalize, abort | the attempt and the replay work on the same journal; kills between any two writes | an import is one transaction on its row; everything settles |
| Publication files (`import_publication`, `private_file_claim`) | private carriers, receipts, public paths | allocate, capture, copy, link, restore, discard | a kill between a file operation and its receipt; foreign writers | old, foreign and source files survive; a batch is published whole or not at all |
| Publication outbox (`import_publication`, `routers/notification_connections`) | delivery, effect and summary rows with 60 s leases | list, claim, send, record, back off | two dispatchers, slow or failing providers | at least once, twice only in doubt, drained in the end |
| Import workers (`import_workers`, `main`, `tasks`) | registry, admission gate | schedule, finish, unregister, stop, cancel | done callbacks run later; requests during shutdown | one worker per row; none left after a lifespan |
| Grabbing and discovery (`grab_core`, `grab_dedup`, `import_discovery`, `import_queue`, `routers/queue_`) | `seen`, claims of volumes, the client's listing, queue rows | grab, record, give back, poll, queue, clean up, reset, remove | RSS, backlog, users and polls between each other's awaits | a claim is not stolen; one row per download; what completed is queued |
| Generated packs (`import_pack_cleanup`, `private_pack_*`) | reservations, tombstones, directories in the cache | reserve, place, attach, fence, capture, remove, replay | kills between a rename and its record; the row changes without the lock | no source in use is removed, no pack is forgotten |
| Volume file deletion (`volume_file_deletion`) | deletion journal | reserve, capture, delete, restore, replay | kill in the middle, racing import | file and row go together |
| File identity (`file_identity*`) | owners, events, proof sets | capture, propose, activate, verify | remounts change device numbers; strangers with the same fingerprint | no operation on an object that is not the one it was planned for |
| Rescan files (`rescan_file_recovery`) | operation journal, carriers | stage, capture, publish, commit, settle, replay | kill in the middle | the volume has a readable file |
| Rescan passes (`rescan`) | rows, a snapshot, an inventory | snapshot, observe, revalidate, reconcile | imports, deletions, grabs and edits between snapshot and write | rows agree with the folder; later changes stand |
| Chapter quarantine (`volume_chapter_cleanup`, `volume_assembly`) | quarantine rows | reserve, capture, commit, transfer, roll back, restore | kill in the middle | no chapter is lost |
| Direct downloads (`routers/suwayomi_`) | jobs, the queue of Suwayomi | grab, start, poll, import, retry, cancel | every step awaits Suwayomi | what is grabbed has a job; jobs end |
| Chapter copies (`chapter_provenance`, `volume_assembly`) | markers, stages, carriers | copy, merge, publish, record, remove | cut off copies, strangers at the name | a torn file is never taken for the chapter |
| Recycle bin, adoption (`routers/series_`, `library_scan`, `tasks`) | `deleted_at`, folders | delete, restore, purge, empty, adopt | purges work from lists and wait for the lock | a recorded file is not purged |
| Series catalogue (`volumes`, `reconcile_map`, `routers/series_`) | volume and chapter rows, the chapter map | create stubs, populate, edit, reconcile, mark, grab, import | long sequences of legal requests | mapped chapters have rows; what was acquired stays |
| Release sources (`release_sources`, `release_identity`, `release_selections`, `routers/indexers`) | scopes, delay queue, receipts, block list | fetch, delay, offer, grab, block, edit, synchronise | releases outlive the indexer they came from | only releases of a source that still stands are sent |
| Library settings (`routers/settings_`, profiles, `import_lists`, `api_v1`) | folders, profiles, lists, exclusions | create, edit, delete, sync | a sync works from the row of before its fetch | series arrive in folders that exist and were not excluded |
| Metadata (`metadata_service`, `_enrichment`, `_provenance`, `_state`) | fields with source and lock, candidates, statuses | refresh, retry, edit, lock, apply | late answers of providers | a locked field stands; no refresh is left half way |
| Locks (`file_mutation_lock`, `maintenance_lock`) | flock on sidecar files | enter, leave, inherit, die | inherited by subprocesses | exclusive among units |
| Background tasks (`tasks`, `main`) | loops, sweeps | start, sweep, cancel | order at startup and shutdown | recovery before producers |
| Backups, authentication, schema, templates, clients | files, sessions, DDL, HTML, I/O | - | - | environment of the others |

Interaction: a producer (client poll, stuck-row retry) or a request schedules an import worker;
the worker claims the queue row, journals a publication, stages files under the file-mutation lock
and hands the journal to `complete_publication`. The same function is called by the replay loop and,
before anything else is admitted, by the drain at startup. One *unit* in a thread holds the lock from its first
conditional UPDATE to the terminal row. Terminal journals have an outbox, dispatched by the
importing task and by the replay loop.

The hazards that weigh most, with the line at which each bites and the properties that watch it,
are in `PROJECT.json`; section 5 names others.

## 2. Modules

| Module | Models | Runs |
|---|---|---|
| `ImportPipeline` | queue rows, attempts, journal, lock, replay, crash and restart | `pipeline` |
| `AtomicImport` | what an import promises: a transaction on its row | (abstract) |
| `ImportRefinement` | `ImportPipeline` as an implementation of `AtomicImport` | `pipeline` |
| `ImportPipelineProofs` | the inductive invariant of `ImportPipeline` and its consequences; the refinement of `AtomicImport`, step by step | proofs |
| `PublicationFiles` | what one unit does to the files of one publication | `files` |
| `AtomicBatch` | what the publication of a batch promises to a reader of the library | (abstract) |
| `PublicationRefinement` | `PublicationFiles` as an implementation of `AtomicBatch` | `files` |
| `PublicationFilesProofs` | no file lost and the batch accounted for, for any number of files; the refinement of `AtomicBatch`, step by step | proofs |
| `PublicationOutbox` | the outbox of one committed publication | `outbox_packs` |
| `PublicationOutboxProofs` | the safety of the outbox for any number of rows and dispatchers; that of the packs beside it | proofs |
| `VolumeFileDeletion` | the deletion of a volume file, its journal and replay, next to imports and grabs | `deletion` |
| `VolumeFileDeletionProofs` | the safety of the deletion for any files and any number of deletions | proofs |
| `Acquisition` | grabs, the poll of the download client, claims and queue rows | `acquisition`, `acquisition_stale` |
| `AcquisitionProofs` | claims and queue rows for any releases, volumes and calls | proofs |
| `PackCleanup` | the generated pack of one download | `outbox_packs`, `packs_retry` |
| `PackCleanupProofs` | no orphan, no source and no foreign directory removed, for any number of stops | proofs |
| `UnitsProofs` | seven properties of the six components of `MCUnits`, for all values of its constants | proofs |
| `CatalogueProofs` | the six properties of the components of `MCCatalogue`, for all values of its constants | proofs |
| `ChapterQuarantine` | the quarantine and the restore of a loose chapter that a merged volume holds | `units`, `quarantine_restore` |
| `RescanFiles` | the file operation of a rescan and its recovery | `units` |
| `RescanReconcile` | the passes of a rescan over the rows of a series | `units` |
| `DirectDownload` | jobs of Suwayomi: grab, poll, retry, cancel | `units` |
| `FileIdentity` | the deletion of a file whose folder is enrolled in file identities | `units` |
| `ImportWorkers` | registry of workers, lifespans of the process | `units` |
| `ChapterCopy` | the copy of a finished chapter or merged volume into the library | `catalogue` |
| `SeriesBin` | the recycle bin and the adoption of folders | `catalogue` |
| `SeriesCatalog` | volume and chapter rows of a series under every request | `catalogue`, `catalogue_special` |
| `ReleaseSources` | where a release was seen, from its fetch to its grab | `catalogue` |
| `LibrarySettings` | root folders, profiles, lists and what refers to them | `catalogue` |
| `SeriesMetadata` | refreshes, edits and locks of the metadata of a series | `catalogue`, `metadata_lock` |

Most `MC...` modules only declare model values and symmetry sets. `MCUnits` and `MCCatalogue` each
check six components, `MCOutboxAndPacks` two, that share no variable: a behaviour chooses one of them (`comp`) and is a
behaviour of that component, the variables of the others stay in an initial state (the *pin* in
`Init` chooses one, so that they do not multiply the states). Their properties name the properties
of the components; the fairness of `MCUnits` and `MCOutboxAndPacks` is that of each component, in its behaviours.

Operators whose comment begins with *Mutation of* are deliberately wrong variants of the
definition that follows, used by no specification. `PROJECT.json` pairs each with the property it breaks.

### ImportPipeline

`queue[q]` is the row's status, owner and whether the lease is live. `pub[q]` is the journal row,
unique per queue row, with the phase of the stage carrier, the decision, the result and the
operation lease. `proc[p]` is where an attempt (named by its lease token) or the replay loop is;
a program point is what remains between two transactions. `guard` is the holder of the file lock.
The history variable `fate` records how each publication was decided.

An action is one transaction, together with the file step whose receipt it writes. Names are those
of the functions where an action is a whole function. Time is abstracted: an expiry is compared
with the clock only as `> now` or `<= now`, so a lease is a Boolean that a clock action clears. The
lock is non-blocking, as in the code: a busy lock fails the step (`UnitBusy`, `CreateRefused`,
`StageRefused`, `AbortRefused`). A kill frees the lock unless a transform subprocess has inherited the
descriptor (`Orphan`). At startup the drain runs before claims are admitted (`service`).

Worth noticing in the code, and visible in the model: `commit_prepared_barrier` checks only the
recovery fence, neither the lock nor the lease. A slow attempt may therefore prepare a journal
whose stage the replay has partly discarded and then left; the publishing unit finds the stage not
ready and compensates (`PublishBlocked`). `PublishedFromWholeStage` says that this always works out.

### PublicationFiles

Each file of the batch has up to four private carriers (`publication` copy, retained `original`,
`rollback` of our own file, moved `source`), each with the phases of `CarrierRecord`. `place` is the
disk; `receipt`, `carrier`, `allocating`, `decision` and `state` are the journal. A unit computes its
next step from journal and disk; only `run` is lost when it ends early. `exposed` is set when a
unit ends between a file operation and its receipt, in which case the code keeps everything for an
operator instead of guessing. A file is modelled by its content, which stands for the full
fingerprint that the code compares. The fallback for file systems without a rename that refuses to
replace (`EOPNOTSUPP`) is the branch `setup.native = FALSE`.

`AtomicBatch` is what a reader of the library may see of all this: of each file whether the old state, nothing, the new file or somebody
else's change is under the public name (`before`, `missing`, `after`, `theirs`), of the journal the decision and the end. The files of the
batch appear in their order and go in the opposite order; at any time all before one file are new and all behind it are as they were
(`CutAt`). The sources of a move go between the commit and the end. `PublicationRefinement` maps the disk and the decision to these; carriers, receipts, recovery
names, units and interruptions are hidden, and `BatchIsAtomic` says that every step is one of `AtomicBatch` or shows nothing. A file that others
changed is `theirs` from then on: what happens to it is the matter of `FilesSafe`.

### PublicationOutbox

`row[r]` is a delivery or effect row, `parent` the summary row, `call[w][r]` what dispatcher `w` has
done for `r`, `received[r]` how many messages the provider accepted. `wanted` are the connections
and targets that are still configured; an operator may change them at any time. The lease that a
stopped dispatcher leaves behind lapses (`OrphanLapses`).

### ImportWorkers

A step is what runs between two awaits of the event loop. A finished task stays registered until its
done callback runs (`done`, then `over`). `cancel_import_workers` gathers the tasks registered at that
moment; `gather` adds its own callback after the worker's, so when it resumes they are
unregistered.

### VolumeFileDeletion

`row` is the volume row, `journal` and `carrier` the row of `volume_file_deletions` with its
`claim_carrier_json`, `place` the public name, the flat tombstone and the private artifact. `run` is
what a unit under the file-mutation lock has in its local variables: the snapshot and the hash of a
reservation, the origin of a capture, whether the public name was checked. Each write of the journal and each change
of the disk is a step, and others may change the public names between any two. `queue` is the import of the
series, reduced to what the fence sees: claimed, published, committed. A grab takes no lock.
`native = FALSE` is the file system without `RENAME_NOREPLACE`. Here `journal._identity` is `None`; the
deletion of a series enrolled in file identities is `FileIdentity`.

Visible in the model, and intended by the code: when a changed file was captured and put back, or a
kill fell between the link and its receipt, the replay refuses every time and the journal keeps its
fence until an operator acts. `DeletionSettles` therefore speaks of deletions whose folder nobody else changes.

### ChapterQuarantine

`row` is the latest row of `chapter_quarantine` (`file` its recorded inode, `guard` the chapter
columns that it compares), `chapter`, `volume`, `prov` and `assembly` are the library rows it reads, `place` holds
the original name, the carrier, the quarantine name and the volume. A file is its inode;
`harm` says whether somebody rewrote it keeping size and times, or visibly, which tells `_stat_matches`
from a rehash. A cleanup starts only while no row is active: its caller, the Suwayomi download that merged the
volume, has checked the fence (`assert_library_file_mutation_available`) under the same lock. A move is one step with `RENAME_NOREPLACE` and two (link, removal) without. An error
that the code answers with a rollback in the same unit is an interruption followed by the replay, which
undoes the same states. The check and the unlink of `_drop_alias` are one step: both go through
pinned descriptors and nothing in the model tells a window between them.

### AtomicImport and ImportRefinement

`AtomicImport` knows rows with a status, one transaction per row and one outcome per attempt: anybody
writes a row that has no transaction; a transaction begins on a row that is being imported, ends once
(aborted, compensated or committed), and a committed one keeps its result in the row until it is
finalized. The mapping takes the journal for the transaction (before the commit it is open, after it
committed) and the history variable `fate` for the outcomes. `ImportIsAtomic` says that every step of
the pipeline, also of a stale attempt, a replay, a crash or an operator, is one of these or none.

### Acquisition

`vol[v]` is the row of a volume with the release that claims it, `seen` the table of sent releases,
`grabbing` the in-memory set that suppresses duplicates, `task[t]` a call of `grab_item`, which awaits the client
between its checks and its record. A receipt knows the receipts that were there before it (`earlier`): that is its
place in the order of the table. `evidence` is what the grabs in the history say of a release: once its receipt is gone,
`acquisition_policy` asks them whether an import may fill volumes that do not name it. `poll` is the single-flight poll: it lists the client once and then passes
over the listing with awaits in between; that listing is stale when the clean-up of missing downloads compares
it with the claims. `Dl` gives releases that are the same download the same identity.

### PackCleanup

`res` is the reservation row, `claim` and `holder` the carrier of a cleanup and the row that journals it, `fs`
what is at the three places a pack can be at. A unit (`pc`, `job`) runs under the file-mutation lock; the queue
row is changed without it. `exposed` marks the cases in which the code keeps its evidence for an operator.

### RescanFiles and RescanReconcile

`RescanFiles` is the journaled file operation: stage, capture, publish, decide, settle; a unit is the list of
steps it has left (`todo`), an error replaces them by the settlement, a stop drops them. `RescanReconcile` takes
the snapshot, the two observations of the folder and the write transaction as steps; in between others
grab, import, delete, edit or change the folder. A row carries a version in place of the
values that its guard compares.

### DirectDownload and ChapterCopy

A grab, a poll, a retry and a cancellation of a Suwayomi job are sequences of awaits over `job`, `row` and `up`
(what Suwayomi has). The file unit of the poll is one step there; `ChapterCopy` is what it does on disk:
the marker written before the copy, the staged copy, its verification, the record, and the removal of a failed
copy in the face of strangers at the name.

### FileIdentity

`disk` maps the three names of a deletion to objects; `copy` is an object with the fingerprint of `orig`. `dev` changes
when the storage is mounted again. `led` is the ledger of the row's owner: the proposal and the active proof
set. A change of the row appends the set of its next phase in the same transaction.

### SeriesBin, SeriesCatalog, ReleaseSources, LibrarySettings, SeriesMetadata

Here an action is a request or a background pass, split where it awaits or waits for the lock; what was read before is
kept in the variable of the task (`purge`, `adopt`, `task`, `grab`, `sync`, `run`). All series of `SeriesBin` live in one folder, the case
in which they meet. `SeriesCatalog` has chapter rows that stand for ranges, and an import names a chapter, perhaps the end of its range, and
perhaps a volume. A special with a number and a chapter of its own is what earlier versions could write (`NumberedSpecial` in `Init`); no action makes one, because
a special is imported without number and chapters (`import_commit.py:798`). `ReleaseSources` has a Prowlarr row and the row of one of its sub-indexers. `LibrarySettings` models
foreign keys: a request that would break one changes nothing. `SeriesMetadata` has one field of each kind (a count that only
grows, by what a provider says or the downloaded volumes show, a map, a provider id) and the two refreshers that do not exclude each other.

## 3. Runs

| Run | Bounds | States | Shows |
|---|---|---|---|
| `pipeline` | 1 row, 2 attempts, replay, 1 crash, 1 error | 307 thousand | the fence, the standing result, whole stages, no stolen lease; the refinement; rows and journals settle |
| `files` | 2 files, 2 interruptions, 2 foreign writes | 1.1 million | no old, foreign or source file is lost; all or nothing, journal ahead of the disk, no residue; the refinement of `AtomicBatch`; retries terminate |
| `outbox_packs` | 1 connection, 2 dispatchers, 2 lapses, 2 errors, 2 stops; 1 pack, 2 stops, 2 foreign changes | 155 thousand | what is recorded of a delivery is true and no late answer changes it, repeated only in doubt, drained; no orphan pack, no source in use and no foreign directory removed, fences end |
| `deletion` | 2 deletions, 3 files, 2 foreign changes, 2 interruptions | 151 thousand | no foreign file lost, rows tell the truth, completed means removed; deletions end, captured foreign files go back |
| `acquisition` | 2 releases, 2 volumes, 2 grabbers, 2 upsets | 1.7 million | no claim stolen or filled by a loser or dropped under an import, one row per download, completed is queued |
| `units` | per component: 1 or 2 stops, 1 or 2 foreign changes, 2 jobs, 2 rows, 2 lifespans | 890 thousand | rows agree after a rescan, later changes stand, volumes stay readable, grabs are tracked, nothing quarantined is lost, workers are owned, only owned objects are discarded; all work ends |
| `catalogue` | per component: 1 or 2 stops, 2 to 5 edits, 2 fetches, 2 series | 1.2 million | copies, folders, rows, sources, settings and locks as section 1 says |
| `acquisition_stale`, `packs_retry`, `quarantine_restore`, `catalogue_special`, `metadata_lock` | smallest instances | violated | the findings below |

### Findings

* `quarantine_restore`. The docstring of `restore` (`volume_chapter_cleanup.py:913`) says that a restore is refused
  while the chapter no longer points at its volume, "so a restored file is never left with nothing
  pointing at it". The test is made when the row enters `restoring`. A grab of an upgrade
  (`grab_core.py:667`) needs neither the lock nor the fence; when it marks the volume as grabbed
  before the last transaction, the update of the chapter (`volume_chapter_cleanup.py:897`) matches no row, the
  row is `restored` with the note "chapter had changed; left for rescan to adopt", and nothing points
  at the file. The file itself is safe (`QuarantineSafe`).
* `acquisition_stale`. `_cleanup_missing_downloads` promises to retry "only independently proven pathless claims"
  (`import_discovery.py:362`). It compares the claims of now with the listing of before the passes; a
  grab recorded in between looks as if its download had gone, and its volume becomes wanted again.
* `packs_retry`. A retry of a failed row asks for its lease and its publication, not for the cleanup fence
  of its pack (`routers/import_.py:544`). Between the acquisition of the fence and the detachment it makes the row pending; no
  later pass releases the fence and no claim passes it ("must not strand a pending consumer", `import_pack_cleanup.py:3100`).
* `catalogue_special`. The comment at `volumes.py:140` says that a special must not keep the mainline stub of a chapter from
  existing. The guard leaves its row out, but the `INSERT OR IGNORE` that follows meets `UNIQUE(series_id, chapter_num)`
  (`schema.py:758`) and inserts nothing when the special's row has the number of the mainline chapter.
* `metadata_lock`. The audit document says that a refresh cannot change a locked field. The enrichment writes, for a locked
  provider id, the value it read before its awaits (`metadata_enrichment.py:496`): an id that another
  refresh stored meanwhile and the user locked becomes NULL.

### Bounds

Two attempts on one row are the smallest set in which a stale attempt
meets a successor; a third only repeats the second's role, and the proofs cover any number. One
crash at every point plus the replay gives every restart, and an error beside it lets the recovery
fail once. Two files are needed for a partly published batch, two interruptions for one during the recovery from the other,
two foreign writes for a replacement and a later deletion. One delivery with every upset twice shows
the outbox; that its rows do not disturb each other is what the theorems say for any number of them. Two
releases and two volumes give a pack against a single, and two mirrors of one download. A second deletion, quarantine row or
job starts from what the first one left behind. Four transactions of the catalogue are a map, a range, an edit and a
reconciliation; five of the settings create, refer, start a sync, delete and finish it.

The bounds count events that the environment may produce (`MaxCrashes`, `MaxFaults`, `MaxInterrupts`, `MaxForeign`,
`MaxLapses`, `MaxErrors`, `MaxStops`, `MaxMounts`, `MaxLifespans`, `MaxJournals`, `MaxRows`, `MaxUpsets`, `MaxEdits`, `MaxChanges`, `MaxRuns`, `MaxFetches`,
`MaxTries`, the sets `Task`, `Job` and `File`) and the size of tables (`MaxId`, `MaxVolume`, `MaxChapter`), never steps of the program. `MaxTries` is 2 for the 3 of
the code: one failure that is repeated and one that gives up.

Deadlock is checked where the system must go on (`pipeline`). It is not where the model may stop: a batch
whose evidence is retained, a drained outbox, a process after its last lifespan, a library at rest
when the bounds are used up.

### Fairness

* `ImportPipeline`: attempts and units run in threads and coroutines that the scheduler does not
  starve; the replay loop, lease recovery and restart recur (`tasks.py` loops, a supervisor); a
  lease nobody renews expires; a transform subprocess ends. Operators, claims, errors and crashes
  have no fairness. `ImportSettles` speaks of rows and of journals, and excepts a retained allocation: a journal whose stage
  intent has no receipt is kept, on purpose, for an operator (`import_publication.py:1730`).
* `PublicationFiles`: the replay starts a unit again while the state is active. `SettlesUnlessExposed` speaks of batches
  whose files nobody else changes.
* `PublicationOutbox`: the replay loop lists claimable rows again and again; a call that was
  started gets an answer (the providers are called with timeouts) and backoff and leases end.
* `VolumeFileDeletion`, `ChapterQuarantine`, `FileIdentity`, `RescanFiles`, `PackCleanup`: the replay loops (`tasks.py:229`, `tasks.py:291`,
  the drain of rescan operations, `pack_cleanup_recovery_loop`) come back to every active row, a unit that has begun goes on, and
  leases lapse; requests, imports, grabs and foreign changes have no fairness.
* `Acquisition`: the poll recurs and goes on; a grab that began is answered or times out.
* `DirectDownload`: the poll, a grab and a retry that began go on; Suwayomi downloads what its started queue
  holds. That a unit ends is strongly fair: it may find the lock busy any number of times, but not for ever.
* `ImportWorkers`: the event loop runs what is ready and a *cancelled* worker ends. A
  worker that is not cancelled may take for ever, so the end of the shutdown depends on the cancellation.

## 4. Proofs

`ImportPipelineProofs` proves, for every set of rows and attempts and every bound, from
`PipelineAssumption` (the special owners are distinct, the bounds are numbers):

* `Inductive`: `Spec => []IInv`, with `IInv` = types, and
  - `Rows`: how a journal row and its queue row agree (`RowInv`): before the commit the queue row is
    importing under the journal's id, after it it shows the recorded result, and what is published
    and not compensated has a ready stage;
  - `Places`: a process at a guarded program point holds the lock, so there is at most one;
  - `Knowledge`: what the holder of the lock knows of its journal row: it is still there, in the
    expected state, and carries its operation token.
* `TypeCorrect`, `FenceHolds`, `ResultStands`, `WholeStage`, `NoTakeOver`: `TypeOK`,
  `PublicationFencesQueue`, `CommittedResultStands`, `PublishedFromWholeStage` and
  `OperationNotTakenOver` are invariants.

The properties are not inductive alone: that a unit may commit, for instance, needs that the row it
loaded is still the one it claimed, which holds because any other writer of an active journal needs
the lock (`Knowledge`) or is refused by the fence. Two lemmas, `LockedUpdate` and `UnlockedUpdate`, reduce an action to
facts about the one journal row, queue row and job that it writes; each action is one case of
`UnitStepIInv`, `AbortStepIInv`, `AttemptStepIInv` and so on.

`PublicationOutboxProofs` proves, from `OutboxAssumption` (connections and effects are disjoint,
finitely many dispatchers), `OutboxInvariant` (`Spec => []OInv`) and from it `OutboxRepeats`
(`RepeatedOnlyInDoubt`) and `OutboxAnswersStand` (`AnswersStand`: a row is recorded as delivered only after its provider has accepted a message, the summary never
runs ahead of the rows, and a completed row stays completed whatever answers, lapses or retries come later). The heart of `OInv` is
`Counted`: the messages sent, plus the calls that may still send one or reopen the row, plus one if
the row can be claimed again, never exceed one plus the number of doubts. A claim trades the right
to claim for an open call, a delivery an open call for a message, and only a lapsed lease or an error
after acceptance adds to the right-hand side. `Answered` says that what a dispatcher has
in hand (accepted, settled) is true although others have worked on the row since.

`VolumeFileDeletionProofs` proves, from `DeletionAssumption`, `DeletionInvariant` (`Spec => []IInv`) and
`DeletionForeignSafe`, `DeletionRowTruth` and `DeletionSettled` from it. `IInv` has besides the types
the fence (`Fenced`: no import while a journal is active; `Published`: what an import has
published is still there or was taken by others), what the records say of the disk (`Recorded`, `Receipted`: a carrier phase and a
receipt tell what the artifact is; `OnePlace`: a file is in one place, except between a link and the
discard; `Removed`: where a completing unit stands, the journal's file is nowhere) and `Known`
(names in journals are files that appeared). `ForeignSafe` alone is not inductive, for instance: that the
discard removes a file a journal names, or one that is also under the public name, needs
`Receipted` and `OnePlace`. The lemmas `Rests`, `UnitEdits` and `CarrierEdits` reduce an
action to the fields it changes; `KeepsType`, `KeepsFence`, `KeepsCarrier`, `KeepsPlaces` and
`KeepsSafety` treat the parts of the invariant, one step per action.

The second part of `ImportPipelineProofs` proves `ImportAtomic`: `Spec => ImportIsAtomic`. Its invariant `RInv` adds to `IInv` what the history `fate` needs (`Tokens`): an attempt that has not begun yet is named by no row and has no outcome (`Fresh`),
no token is named by two rows (`OneEach`), and the outcome of a journal before its commit is open (`OpenUndecided`). Initial states map to initial
states. For the steps, `HiddenStutters` and `WriteMapped` treat a step that shows nothing and a write of rows without a
transaction; `BeginMapped`, `AbortMapped`, `CompensateMapped`, `CommitMapped` and `FinalizeMapped` treat the steps of a transaction; each
action of the pipeline is a case of one of `AttemptMapped`, `UnitStepMapped`, `AbortStepMapped`, `QueueStepMapped`, `ReplayMapped` and `CrashMapped`. That the outcome
is decided once is `OpenUndecided` together with the fence and the lock of `IInv`: a stale attempt finds neither the row nor the journal it could end.

The first part of `PublicationFilesProofs` proves `PublicationInvariant`, and from it `FilesStaySafe` (`FilesSafe`) and `BatchIsAccounted`
(`BatchAccounted`), for any number of files, interruptions and foreign changes, from `FilesAssumption` (there is a file; the
bounds are numbers). The invariant has two layers:

* `FileInv(f)` speaks of one file, its journal and the decision, never of the unit at work, so that a step for one file
  keeps it for all others (`SameFile`, `LocalStep`): the carrier's record is ahead of the carrier (`CarrierInv`), whose content may be
  where (`ContentInv`), our file is under the public name only under a receipt or a `restoring` record
  (`PublicationInv`), an original leaves its carrier only after the commit or when our file is gone (`OriginalInv`), where the
  old file is at each phase of its carrier (`OldInv`), what a rollback may have taken (`RollbackInv`), and that a foreign version has a place that is not
  being discarded (`BroughtInv`).
* The rest ties the unit to the files: the one allocation intent (`IntentInv`), what the unit holds in memory (`HandInv`), what it has behind it
  (`UnitInv`: published before `at`, settled behind `at` on the way back, dropped, cleaned), and `DecisionInv`. `OrderInv` and `StuckInv` are
  needed for one clause only, that a discard never meets a carrier without a recorded artifact: a half-made copy can exist in a batch that is being undone only behind
  a published file that others changed, and that file keeps the unit from ever reaching the discards.

The second part proves `BatchAtomic`: `Spec => BatchIsAtomic`, for any number of files. What a reader sees of the batch as a whole is not in the invariant
above, which speaks of one file at a time. `RInv` adds `Order`: a published file stays in place until its rollback takes it (`InPlace`); a
rollback has begun for a file only when all files behind it are back (`TurnInv`), also if the unit that began it has ended since; an original is never announced for its public
name by a unit that compensates (`Handed`), without which a restored file could be taken again; a source at its path is nowhere else
(`SourceHeld`); and what the cleanup of sources has behind it is gone or reported (`MovedInv`). From these `Cut` shows that at the turn of a file the others are where `CutAt` wants
them. Eleven of the low-level operations happen inside a carrier and are treated at once (`Carries`, `CarriesStep`); `TakeMapped`, `StashMapped`, `LinkMapped`,
`PublishMoveMapped` and `ForeignMapped` treat the operations that a reader sees, `UndoSeen`, `CommitSeen` and `FinishSeen` the decisions. The invariants of `Order`
were checked with TLC for two and three files before they were proved.

`AcquisitionProofs` proves, from `AcquisitionAssumption`, `AcquisitionInvariant` and from it `QueuedOnce`, `ClaimsStand`, `LosersBound` and
`ImportHoldsClaim` (`OneRowPerDownload`, `ClaimNotStolen`, `LoserDoesNotFill`, `ImportKeepsClaim`). The invariant says besides types and
`OneRowPerDownload`: a call that awaits the client for a single volume saw it unclaimed (`Observed`), and a release that lost its claim is
bound wherever an import may look (`LoserBound`: in its receipt, in its queue row and in the history, which answers when the receipt
is lost before the download is queued). That a claim is
not stolen across the await is the comparison with what `Observed` remembers.

`PackCleanupProofs` proves, from no assumption, `PackInvariant` and from it `NoPackLeaks`, `AdmittedSourcesStay` and `ForeignStays` (`NoOrphanPack`,
`SourcesKept`, `ForeignKept`); `PublicationOutboxProofs` carries them over to the packs of `MCOutboxAndPacks` (`PacksAreNamed`, `PackSourcesStay`, `ForeignPacksStay`), of
which `PacksRefined` says that they do what `PackCleanup` allows. There is one pack at one place (`OnePack`); the place is named by the reservation or the claim (`Journaled`), and without a reservation there is no record of one (`Blank`); at
every program point of a unit the records are as far as the point says (`AtStep`, a table over `pc`); an admitted import has its
reservation and its row or publication (`RowOrPublication`, `Admitted`). `AtStep` is what makes it inductive: after a stop, which forgets `pc`, the remaining parts still
describe the disk.

`UnitsProofs` proves, from `UnitsAssumption` (ids are positive, there is an item, the special values are no tasks and no files, the bounds
are numbers), the safety properties of its six components, as composed and checked in `MCUnits`. A step there is a step of one component and leaves the
variables of the others alone, so each has an inductive invariant over its own variables:

* `OneOwner` (`WorkersOwned`), by `WorkersInv`: registry and tasks point at each other (`RegisteredWorks`), a created task has a row, and while
  the shutdown drains everything registered is among what it awaits (`DrainReaches`). The last part is why the registry is empty when the lifespan is over: no
  worker is admitted after the gate has closed, and each that was is awaited.
* `RescanAgrees` (`RowsAgree`), by `ReconcileInv`: while nobody interferes the snapshot is a copy of the rows and the inventory is what the folder shows, so the
  transaction decides on the present (`QuietEvidence`), and `QuietAgrees` goes through its passes once. `LaterChangesStand`
  (`LaterChangeStands`) needs no invariant: it follows from what each pass compares before it writes, in every state.
* `GrabsAreTracked` (`GrabbedIsTracked`), by `DirectInv`: an id that a grab, the poll or a retry holds across an await is the id of a job
  (`HoldJobs`), and whatever is marked as grabbed has a job that is queued or in error (`Tracked`). A job that leaves these states takes the mark from
  its item in the same transaction, or another job for the item is left.
* `ChaptersAreSafe` (`QuarantineSafe`), by `QuarantineInv`: where the unit stands tells the state of its row (`UnitAtRow`), the provenance
  row goes with the commit and the chapter points elsewhere from there to the end of a restore (`RowFollows`), the carrier holds a file
  only under a row that has recorded it (`CarrierHolds`), and a file that is being restored is in one of two places (`ReturnHolds`). An interruption forgets the unit, and the
  other parts, which do not mention it, carry the evidence over to the replay. `MovedDoes` says what a move with or without
  RENAME_NOREPLACE may leave behind; `WorldKeeps` is what changes by others have in common.
* `DiscardsOnlyOwned` (`OnlyOwnedDiscarded`), by `IdentityInv`: the active set, and the set that waits for its transaction, name objects of
  the first set, because evidence captured under a history has to match the last set of that history. The guard of one
  action uses `ENABLED`; the proof needs only what that action leaves unchanged.
* `VolumeStaysReadable` (`VolumeReadable`), by `RescanInv`, which claims nothing once another program has changed a public name. `Evidence` says where
  the original is by the phase its carrier has in the journal, and that a result that is still to be taken back occupies the name of the
  original, if it is the same. `Script` is about the steps the unit has left: before the decision each is followed by the one
  the code has after it (`Follows`, `Chain`), and the first finds what it relies on (`Ready`: the file is unlinked only after the
  original is back, the original is linked only after the result is gone); after it there is nothing left but to discard.
  A call puts its steps in front of the others and is a chain as well (`Joins`, `WayBack`), so no induction over the sequence is
  needed: only the first step and its successor matter. A stop forgets the steps and leaves `Evidence` to the settlement.

`CatalogueProofs` proves, from `CatalogueAssumption` (there is a series, finitely many, a URL, a first volume and a first id; the bounds are numbers),
the properties of the six components of `MCCatalogue`. Five of them are action properties: they hold of a step from a state in which
the invariant of the component holds, so each handler is one case that shows the invariant afterwards and the property of the step together.

* `FolderIsKept` (`FolderKept`), by `BinInv`: a series with an import keeps its row and what was published is there (`ImportsHere`), no
  import has published while a purge that removes files holds the lock (`PurgeAlone`), a purge takes a file only between its commit and
  the removal (`TakesCommitted`), and whoever shares the record of a file with another series is `exposed` (`SharersExposed`). The last part shows
  that the purge of another series is the only way to lose a recorded file.
* `CopiesAreSafe` (`CopiesSafe`), by `CopyInv`: a file that is cut off has the marker and the unit has not passed its verification (`PartMarked`,
  `MarkedSteps`), and a carrier holds a file only while a roll back is under way (`CarrierHeld`), which is why the roll back overwrites nothing.
* `CatalogueIsKept` (`CatalogueKept`), by `CatalogInv`: a chapter's volume exists (`LinksStand`) and no range ends before it begins (`RangesRight`). A
  transaction of several passes is taken pass by pass: `StubbedKeeps` and `LinkedKeeps` say what each does to the rows, `PopulatedCovers` that after the
  last one every chapter of the map has a mainline row. `MappedKept` claims nothing of a series with a numbered special: there the row of the
  special may be in the way (the finding), and it becomes a mainline one or stops being one with its volume. Otherwise a chapter of the map loses its row only to an
  import that names a smaller end for the range it lies in (`import_commit.py:897`).
* `SourcesAreHonoured` (`SourcesHonoured`), by `SourcesInv`: every token was drawn for one endpoint (`TokenFixesEndpoint`: there is a function from
  tokens to endpoints that all rows and releases agree with), so the comparison of tokens that `_source_is_current` makes compares endpoints; and a
  generation determines the scope of a sub-indexer's releases (`GenerationFixesScope`), so a block by generation and one by scope
  meet the same releases.
* `SettingsAreHonoured` (`SettingsHonoured`) rests on the types, which say that a reference is absent or an id, and on two lemmas: the first row of an ordered query is one
  of the rows (`LowestIn`, from the library's theorem that a set of numbers has a least one) and a resolved folder exists (`ResolvedLive`).
* `MetadataIsHonoured` (`MetadataHonoured`), by `MetadataInv`: only a refresh that runs leaves a status at `refreshing` (`RefreshOwned`), and
  what a provider answers is written through the lock of the field as it is then (`AnswerStep`), not as it was before the await.

With these every safety property of a passing run is a theorem, the two refinements included. Only model-checked: liveness (fairness and `ENABLED` are beyond the prover)
and the five properties that are findings and false. The type invariants of the proved modules are proved and listed by no run;
in the other modules `TypeOK` documents the state.

## 5. Visible in the models, without a property

These hold of the code and are either intended by it or contradict nothing it says:

* `SeriesBin`: the folder of a binned series counts as unmapped and can be adopted (`library_scan.py:216`); a purge of the binned
  series then removes files that the adopted one records (`exposed`). A stop between the purge of rows and of files leaves files without rows.
* `SeriesCatalog`: an import that names a smaller end for a range than its row has takes the chapters behind that end out of it
  (`import_commit.py:897`), and nothing makes rows for them until a map is applied again.
* `LibrarySettings`: a binned series keeps its place in the unique index, so a sync adds nothing for it (`routers/import_lists.py:304` says
  that it does not count).
* `DirectDownload`: two grabs of one item can both record a job (`routers/suwayomi_.py:806`), and their jobs may undo each other's
  downloads; `JobSettles` leaves out the jobs of such items.
* `ChapterCopy`: an empty placeholder and the chapters of an unmerged volume are copied in place without a marker; a cut off copy of these is taken (`legacy`).
* `Acquisition`: a reset of one volume deletes the `seen` row of a pack that other volumes still wait for (`routers/queue_.py:1125`); the same
  release is then admitted again, which the client answers with the same download.
* `ReleaseSources`: source and block list are checked before the release is sent and may change while the client answers
  (`grab_core.py:438`, by design).
* `FileIdentity`: a kill between a proposal and its activation leaves a deletion that nothing resumes, by design; `EnrolledSettles` excepts it.
* `VolumeFileDeletion`, `PublicationFiles`, `RescanFiles`, `PackCleanup`: evidence that is not proven is kept for an operator, and its fence with it.

Further hazards that the listed properties watch besides those of `PROJECT.json`: the stage whose discard has begun (`import_publication.py:1730`), the lease
of a dead attempt (`import_lease.py:335`), the subprocess that outlives the service (`import_staging.py:340`), the connection that is deleted under a
delivery (`notification_connections.py:926`), a schedule during shutdown (`import_workers.py:66`), a returned file that meets a new one (`volume_file_deletion.py:1244`), a
rollback that stops half way (`rescan_file_recovery.py:892`), a downloader that cannot be started (`suwayomi_.py:775`), a
blocked release under another URL (`release_identity.py:309`), a cancellation between two steps of an import (`import_execute.py:152`), a grab that takes
chapters back which were imported one by one (`volumes.py:214`), a root folder deleted in use (`settings_.py:532`), a restart in the middle of a refresh (`schema.py:1150`).

## 6. Not modelled, and why

* What a plan or a commit writes into volumes, chapters and history: abstracted to the result of
  the queue row. Contents of archives, metadata and images are data that no protocol tells apart.
* Title parsing by regular expressions, scoring, templates, settings forms, sessions: no protocol state.
* Download clients, Suwayomi, indexers and notification providers are environment: they answer, fail or are slow.
* Rows of older schema versions: packs without ownership record, legacy tombstones. Migrations are straight-line DDL before anything else runs.
* File identity beyond the deletion: the recovery plans of the command line inspect and change nothing, events of recovery and
  supersession have no writer in the code; publication and queue-source owners follow the same ledger.
* The service and maintenance lock between two processes, and backups: one sequential procedure each.
* The edit of a single file mapping of a queue row.
* In discovery, the match of a download by its name when its hash is not listed (`import_discovery.py:1139`): a guess about strings.
* Which chapters the file of a volume holds, beyond the range of its row (`RescanReconcile`, `SeriesCatalog`).

## 7. Plan

1. Done: the import core, deletion, quarantine, acquisition, packs, rescans, direct downloads, bin, catalogue, sources, settings, metadata,
   enrolled deletions; the refinements of `AtomicImport` and `AtomicBatch`.
2. Done: the proofs of section 4: every invariant and action property of the passing runs, and both refinements. Left: the seven liveness properties, which stay with TLC.
3. `AtomicBatch` inside the unit that `ImportPipeline` takes in one step, instead of beside it.
4. Pure algorithms against reference definitions: volume and chapter ranges, score comparison, rename plans.
