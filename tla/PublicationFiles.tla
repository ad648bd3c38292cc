-------------------------- MODULE PublicationFiles --------------------------
(***************************************************************************)
(* What one import publication does to the files (import_publication.py,   *)
(* private_file_claim.py), from the prepared barrier to the terminal row.  *)
(*                                                                         *)
(* A file is never moved or removed by its public name alone.  The journal *)
(* first records an intent, the file is taken into a private carrier, what *)
(* was really taken is recorded, and only then may it be restored, linked  *)
(* or discarded.  Every unit of work can end between two of these writes,  *)
(* by a crash or by an I/O error, and a later unit starts again from the   *)
(* journal; meanwhile somebody else may replace or delete the public       *)
(* files.                                                                  *)
(*                                                                         *)
(* The unit holds the file-mutation lock (module ImportPipeline), so there *)
(* is one unit at a time.  Its durable writes are idempotent: the next     *)
(* step follows from the journal and the disk, and only `run` is lost when *)
(* it ends early.  A file is modelled by its content, which stands for the *)
(* full fingerprint (device, inode, size, mtime, hash) the code compares.  *)
(***************************************************************************)
EXTENDS Naturals, FiniteSets

CONSTANTS
  N,              \* ready files of the publication
  MaxInterrupts,  \* bound: crashes and I/O errors that end a unit early
  MaxForeign      \* bound: changes of public files by others

ASSUME FilesAssumption == N \in Nat \ {0} /\ MaxInterrupts \in Nat /\ MaxForeign \in Nat

File    == 1..N
Purpose == {"publication", "original", "rollback", "source"}
Origin  == {"final", "flat", "src", "srcflat"}
Place   == Origin \union Purpose \union {"stage"}
Content == {"none", "new", "old", "srcdata", "foreign"}
Phase   == {"none", "allocated", "claiming", "claimed", "restoring", "restored",
            "discarding", "discarded"}
NoIntent == <<0, "none">>
CarrierRow == [phase: Phase, origin: Origin, captured: Content]
Unit == [task: {"idle", "publish", "commit", "restore", "drop", "source", "clean",
                "stage", "finish"},
         at: 1..N + 1, blocked: BOOLEAN,
         hand: {"none", "armed", "linked", "proved", "verified"} \union Origin]
Setup == [native: BOOLEAN, overwrite: SUBSET File, move: BOOLEAN]

VARIABLES
  setup,       \* native rename or EOPNOTSUPP, files to overwrite, move or copy
  state,       \* import_publications.state
  decision,    \* _file_publication.decision
  allocating,  \* _file_publication.allocating: the one allocation intent
  carrier,     \* per file and purpose: phase, origin and captured fingerprint
  receipt,     \* publication_receipt of each file
  stagePhase,  \* phase of the stage carrier
  place,       \* the disk: what is at each public and private place of a file
  run,         \* volatile: the unit's task, its file, what it has in hand
  exposed,     \* history: a unit ended between a mutation and its receipt
  outside,     \* history: files whose public paths were changed by others
  taken,       \* history: contents that others removed
  brought,     \* history: files of which others brought a version
  interrupts, foreigns

journal == <<state, decision, allocating, carrier, receipt, stagePhase>>
history == <<outside, taken, brought, foreigns>>
vars == <<setup, journal, place, run, exposed, history, interrupts>>

Idle == [task |-> "idle", at |-> 1, hand |-> "none", blocked |-> FALSE]
NoCarrier == [phase |-> "none", origin |-> "final", captured |-> "none"]

TypeOK ==
  /\ setup \in Setup
  /\ state \in {"prepared", "publishing", "published", "db_committed", "cleaning",
                "finalized"}
  /\ decision \in {"pending", "commit", "compensate", "compensated"}
  /\ allocating \in (File \X Purpose) \union {NoIntent}
  /\ carrier \in [File -> [Purpose -> CarrierRow]]
  /\ receipt \in [File -> BOOLEAN]
  /\ stagePhase \in {"ready", "discarding", "discarded"}
  /\ place \in [File -> [Place -> Content]]
  /\ run \in Unit
  /\ exposed \in BOOLEAN /\ outside \in SUBSET File
  /\ taken \in SUBSET (File \X Content) /\ brought \in SUBSET File
  /\ interrupts \in 0..MaxInterrupts /\ foreigns \in 0..MaxForeign

\* commit_prepared_barrier has recorded the staged and the final fingerprints.
\* A stage that an abort had begun to discard is one of the cases.
Init ==
  /\ setup \in Setup
  /\ state = "prepared" /\ decision = "pending" /\ allocating = NoIntent
  /\ carrier = [f \in File |-> [p \in Purpose |-> NoCarrier]]
  /\ receipt = [f \in File |-> FALSE]
  /\ stagePhase \in {"ready", "discarding"}
  /\ place = [f \in File |-> [l \in Place |->
       CASE l = "stage" -> "new"
         [] l = "src" -> "srcdata"
         [] l = "final" -> IF f \in setup.overwrite THEN "old" ELSE "none"
         [] OTHER -> "none"]]
  /\ run = Idle /\ exposed = FALSE
  /\ outside = {} /\ taken = {} /\ brought = {}
  /\ interrupts = 0 /\ foreigns = 0

-----------------------------------------------------------------------------
(* One private carrier (_allocate_private, _capture_private,               *)
(* _restore_private_to, _discard_private).  f is the file, p the purpose.  *)

At(f, l) == place[f][l]
Put(f, l, c) == place' = [place EXCEPT ![f][l] = c]
Move(f, from, to) == place' = [place EXCEPT ![f][to] = place[f][from], ![f][from] = "none"]
SetPhase(f, p, phase) == carrier' = [carrier EXCEPT ![f][p].phase = phase]
PhaseOf(f, p) == carrier[f][p].phase
Captured(f, p) == carrier[f][p].captured
Hand(h) == run' = [run EXCEPT !.hand = h]

OnlyCarrier == UNCHANGED <<setup, state, decision, allocating, receipt, stagePhase,
                           place, run, exposed, history, interrupts>>

\* the intent is durable before the carrier exists ...
Allocate(f, p, origin) ==
  /\ PhaseOf(f, p) = "none" /\ allocating = NoIntent /\ run.hand = "none"
  /\ allocating' = <<f, p>>
  /\ Hand(origin)
  /\ UNCHANGED <<setup, state, decision, carrier, receipt, stagePhase, place, exposed,
                 history, interrupts>>

\* ... and the carrier's receipt replaces it in one write
Bind(f, p) ==
  /\ run.hand \in Origin /\ allocating = <<f, p>>
  /\ carrier' = [carrier EXCEPT ![f][p] =
       [phase |-> "allocated", origin |-> run.hand, captured |-> "none"]]
  /\ allocating' = NoIntent
  /\ Hand("none")
  /\ UNCHANGED <<setup, state, decision, receipt, stagePhase, place, exposed, history,
                 interrupts>>

Claiming(f, p) ==
  /\ PhaseOf(f, p) = "allocated" /\ SetPhase(f, p, "claiming")
  /\ OnlyCarrier

\* claim_into_empty: a rename into the empty carrier takes whatever is there
Take(f, p) ==
  /\ PhaseOf(f, p) = "claiming" /\ At(f, p) = "none"
  /\ At(f, carrier[f][p].origin) # "none"
  /\ Move(f, carrier[f][p].origin, p)
  /\ UNCHANGED <<setup, journal, run, exposed, history, interrupts>>

RecordCapture(f, p) ==
  /\ PhaseOf(f, p) = "claiming" /\ At(f, p) # "none"
  /\ carrier' = [carrier EXCEPT ![f][p].phase = "claimed", ![f][p].captured = At(f, p)]
  /\ OnlyCarrier

Restoring(f, p) ==
  /\ PhaseOf(f, p) = "claimed" /\ SetPhase(f, p, "restoring")
  /\ OnlyCarrier

\* link_private_regular refuses an existing name; nothing is durable until
\* the receipt is
Link(f, p, dest) ==
  /\ PhaseOf(f, p) = "restoring" /\ At(f, p) # "none" /\ At(f, dest) = "none"
  /\ run.hand = "none"
  /\ Put(f, dest, At(f, p))
  /\ Hand("linked")
  /\ UNCHANGED <<setup, journal, exposed, history, interrupts>>

LinkReceipt(f, p, dest) ==
  /\ PhaseOf(f, p) = "restoring" /\ run.hand = "linked" /\ At(f, dest) = Captured(f, p)
  /\ SetPhase(f, p, "restored")
  /\ Hand("proved")
  /\ UNCHANGED <<setup, state, decision, allocating, receipt, stagePhase, place, exposed,
                 history, interrupts>>

\* a later unit checks the public file against the receipt it finds
ProveRestored(f, p, dest) ==
  /\ PhaseOf(f, p) = "restored" /\ run.hand = "none" /\ At(f, dest) = Captured(f, p)
  /\ Hand("proved")
  /\ UNCHANGED <<setup, journal, place, exposed, history, interrupts>>

_restore_private_to(f, p, dest) ==
  Restoring(f, p) \/ Link(f, p, dest) \/ LinkReceipt(f, p, dest) \/ ProveRestored(f, p, dest)

\* discarding is durable before the unlink, discarded after it.  An artifact
\* that was never recorded is refused (no run gets there: DiscardProven).
Discarding(f, p) ==
  /\ PhaseOf(f, p) \notin {"none", "discarding", "discarded"}
  /\ Captured(f, p) # "none"
  /\ SetPhase(f, p, "discarding")
  /\ Hand("none")
  /\ UNCHANGED <<setup, state, decision, allocating, receipt, stagePhase, place, exposed,
                 history, interrupts>>

DiscardArtifact(f, p) ==
  /\ PhaseOf(f, p) = "discarding"
  /\ Captured(f, p) # "none"
  /\ IF At(f, p) # "none" THEN Put(f, p, "none") /\ UNCHANGED <<carrier, run>>
     ELSE SetPhase(f, p, "discarded") /\ Hand("none") /\ UNCHANGED place
  /\ UNCHANGED <<setup, state, decision, allocating, receipt, stagePhase, exposed, history,
                 interrupts>>

Discard(f, p) == Discarding(f, p) \/ DiscardArtifact(f, p)
Dropped(f, p) == PhaseOf(f, p) \in {"none", "discarded"}

\* The steps that bring p's artifact into its carrier.  On a file system with
\* RENAME_NOREPLACE the public file first goes to a flat recovery name.
NeedsIntent(f, p) == PhaseOf(f, p) = "none" /\ run.hand \notin Origin

Capture(f, p, public, flat) ==
  \/ /\ NeedsIntent(f, p) /\ setup.native /\ At(f, flat) = "none"
     /\ At(f, public) # "none"
     /\ Move(f, public, flat)
     /\ UNCHANGED <<setup, journal, run, exposed, history, interrupts>>
  \/ At(f, flat) # "none" /\ Allocate(f, p, flat)
  \/ At(f, flat) = "none" /\ ~setup.native /\ Allocate(f, p, public)
  \/ Bind(f, p) \/ Claiming(f, p) \/ Take(f, p) \/ RecordCapture(f, p)

-----------------------------------------------------------------------------
(* _publish_publication_owned: for each file, the private copy, the        *)
(* original out of the way, the copy under the public name.                *)

Doing(task, f) == run.task = task /\ run.at = f
NextFile(f) == run' = [run EXCEPT !.at = f + 1]
UnitOnly == UNCHANGED <<setup, journal, place, exposed, history, interrupts>>

Copied(f) == Captured(f, "publication") = "new"

OldKept(f) == f \notin setup.overwrite \/ Captured(f, "original") = "old"

_prepare_publication_copy(f) ==
  /\ Doing("publish", f) /\ ~receipt[f] /\ stagePhase = "ready" /\ ~Copied(f)
  /\ \/ Allocate(f, "publication", "final") \/ Bind(f, "publication")
     \/ Claiming(f, "publication") \/ RecordCapture(f, "publication")
     \* a link of the staged file, by the pinned directory
     \/ /\ PhaseOf(f, "publication") = "claiming" /\ At(f, "publication") = "none"
        /\ At(f, "stage") = "new" /\ Put(f, "publication", "new")
        /\ UNCHANGED <<setup, journal, run, exposed, history, interrupts>>

_retain_original(f) ==
  /\ Doing("publish", f) /\ ~receipt[f] /\ stagePhase = "ready" /\ Copied(f)
  /\ f \in setup.overwrite /\ Captured(f, "original") = "none"
  /\ Capture(f, "original", "final", "flat")

\* _publish_private: with the native rename the carrier is empty afterwards,
\* which is the proof that the public file is ours
PublishReady(f) ==
  Doing("publish", f) /\ ~receipt[f] /\ stagePhase = "ready" /\ Copied(f) /\ OldKept(f)

PublishReceipt(f) ==
  /\ SetPhase(f, "publication", "restored")
  /\ receipt' = [receipt EXCEPT ![f] = TRUE]
  /\ Hand("none")
  /\ UNCHANGED <<setup, state, decision, allocating, stagePhase, place, exposed, history,
                 interrupts>>

\* Mutation of _publish_private: a rename made by an earlier unit is not recognised.
_publish_private_forgets(f) ==
  /\ PublishReady(f)
  /\ \/ /\ run.hand = "none" /\ At(f, "publication") # "none"
        /\ PhaseOf(f, "publication") = "restoring" => At(f, "final") = "none"
        /\ SetPhase(f, "publication", "restoring")
        /\ Hand("armed")
        /\ UNCHANGED <<setup, state, decision, allocating, receipt, stagePhase, place,
                       exposed, history, interrupts>>
     \/ /\ run.hand = "armed" /\ At(f, "publication") # "none" /\ At(f, "final") = "none"
        /\ IF setup.native THEN Move(f, "publication", "final") /\ UNCHANGED run
           ELSE Put(f, "final", At(f, "publication")) /\ Hand("linked")
        /\ UNCHANGED <<setup, journal, exposed, history, interrupts>>
     \/ /\ PhaseOf(f, "publication") = "restoring" /\ At(f, "final") = "new"
        /\ run.hand \in {"armed", "linked"}
        /\ PublishReceipt(f)

_publish_private(f) ==
  /\ PublishReady(f)
  /\ \/ /\ run.hand = "none" /\ At(f, "publication") # "none"
        /\ PhaseOf(f, "publication") = "restoring" => At(f, "final") = "none"
        /\ SetPhase(f, "publication", "restoring")
        /\ Hand("armed")
        /\ UNCHANGED <<setup, state, decision, allocating, receipt, stagePhase, place,
                       exposed, history, interrupts>>
     \/ /\ run.hand = "armed" /\ At(f, "publication") # "none" /\ At(f, "final") = "none"
        /\ IF setup.native THEN Move(f, "publication", "final") /\ UNCHANGED run
           ELSE Put(f, "final", At(f, "publication")) /\ Hand("linked")
        /\ UNCHANGED <<setup, journal, exposed, history, interrupts>>
     \/ /\ PhaseOf(f, "publication") = "restoring" /\ At(f, "final") = "new"
        /\ At(f, "publication") = "none" \/ run.hand = "linked"
        /\ PublishReceipt(f)

\* Mutation of PublishedFile: the unit goes on to the next file with the copy alone.
PublishedFile_copied(f) ==
  /\ Doing("publish", f) /\ Copied(f) /\ run.hand = "none"
  /\ NextFile(f)
  /\ UnitOnly

\* a receipt found by a later unit is checked against the public file
PublishedFile(f) ==
  /\ Doing("publish", f) /\ receipt[f] /\ At(f, "final") = "new"
  /\ NextFile(f)
  /\ UnitOnly

\* PublicationBlocked turns the pending decision into compensation; a missing
\* file is an OSError, which does not (UnitBlocked)
PublishBlocked(f) ==
  /\ Doing("publish", f)
  /\ \/ receipt[f] /\ At(f, "final") \notin {"new", "none"}
     \/ ~receipt[f] /\ stagePhase # "ready"
     \/ /\ ~receipt[f] /\ allocating # NoIntent /\ run.hand = "none"
        /\ \/ ~Copied(f) /\ PhaseOf(f, "publication") = "none"
           \/ /\ Copied(f) /\ f \in setup.overwrite /\ PhaseOf(f, "original") = "none"
              /\ At(f, "flat") # "none" \/ ~setup.native
     \/ ~receipt[f] /\ Captured(f, "original") \notin {"none", "old"}
     \/ /\ PublishReady(f) /\ PhaseOf(f, "publication") = "restoring"
        /\ IF At(f, "publication") = "none" THEN At(f, "final") \notin {"new", "none"}
           ELSE run.hand = "none" /\ At(f, "final") # "none"
  /\ decision' = "compensate"
  /\ run' = Idle
  /\ UNCHANGED <<setup, state, allocating, carrier, receipt, stagePhase, place, exposed,
                 history, interrupts>>

_publish_publication_owned ==
  /\ Doing("publish", N + 1)
  /\ state' = "published" /\ run' = Idle
  /\ UNCHANGED <<setup, decision, allocating, carrier, receipt, stagePhase, place, exposed,
                 history, interrupts>>

-----------------------------------------------------------------------------
(* Phase 3: the physical proofs are read, then the transaction decides.    *)

_verify_publication_artifacts ==
  /\ run.task = "commit" /\ run.hand = "none" /\ stagePhase = "ready"
  /\ \A f \in File : At(f, "stage") = "new" /\ receipt[f] /\ At(f, "final") = "new"
  /\ Hand("verified")
  /\ UnitOnly

_commit_import ==
  /\ run.hand = "verified"
  /\ decision' = "commit" /\ state' = "db_committed" /\ run' = Idle
  /\ UNCHANGED <<setup, allocating, carrier, receipt, stagePhase, place, exposed, history,
                 interrupts>>

\* the library rows changed since the admission
AdmissionChanged ==
  /\ run.hand = "verified"
  /\ decision' = "compensate"
  /\ run' = [Idle EXCEPT !.task = "restore", !.at = N]
  /\ UNCHANGED <<setup, state, allocating, carrier, receipt, stagePhase, place, exposed,
                 history, interrupts>>

-----------------------------------------------------------------------------
(* _compensate_publication: backwards over the files, our publication out, *)
(* the original back; then the evidence is discarded.                      *)

\* Mutation of Removed: a file that replaced nothing stays once it is published.
Removed_published(f) ==
  \/ state = "published" /\ f \notin setup.overwrite
  \/ PhaseOf(f, "rollback") = "discarded"
  \/ ~receipt[f] /\ PhaseOf(f, "publication") # "restoring"
  \/ PhaseOf(f, "rollback") = "claimed" /\ Captured(f, "rollback") = "new"

Removed(f) ==
  \/ PhaseOf(f, "rollback") = "discarded"
  \/ ~receipt[f] /\ PhaseOf(f, "publication") # "restoring"
  \/ PhaseOf(f, "rollback") = "claimed" /\ Captured(f, "rollback") = "new"

_remove_our_publication(f) ==
  /\ Doing("restore", f) /\ ~Removed(f)
  /\ \/ /\ ~receipt[f] /\ At(f, "publication") = "none" /\ At(f, "final") = "new"
        /\ PublishReceipt(f)
     \/ /\ receipt[f] /\ Captured(f, "rollback") = "none"
        /\ \/ At(f, "final") = "new" /\ Allocate(f, "rollback", "final")
           \/ Bind(f, "rollback") \/ Claiming(f, "rollback") \/ Take(f, "rollback")
           \/ RecordCapture(f, "rollback")
     \/ DiscardArtifact(f, "rollback")
     \* the rollback took somebody else's replacement: it goes back
     \/ /\ Captured(f, "rollback") = "foreign"
        /\ _restore_private_to(f, "rollback", "final")

_restore_original(f) ==
  /\ Doing("restore", f) /\ Removed(f)
  /\ \/ /\ Captured(f, "original") = "none"
        /\ \/ At(f, "flat") # "none" /\ Allocate(f, "original", "flat")
           \/ Bind(f, "original") \/ Claiming(f, "original") \/ Take(f, "original")
           \/ RecordCapture(f, "original")
     \/ _restore_private_to(f, "original", "final")

\* Mutation of Restored: a captured original counts as restored.
Restored_captured(f) ==
  \/ PhaseOf(f, "original") = "none" /\ At(f, "flat") = "none" /\ run.hand = "none"
  \/ PhaseOf(f, "original") \in {"claimed", "restored"} /\ Captured(f, "original") = "old"
  \/ PhaseOf(f, "original") \in {"discarding", "discarded"}

Restored(f) ==
  \/ PhaseOf(f, "original") = "none" /\ At(f, "flat") = "none" /\ run.hand = "none"
  \/ PhaseOf(f, "original") = "restored" /\ Captured(f, "original") = "old"
       /\ run.hand = "proved"
  \/ PhaseOf(f, "original") \in {"discarding", "discarded"}

RestoredFile(f) ==
  /\ Doing("restore", f) /\ Removed(f) /\ Restored(f)
  /\ run' = IF f = 1 THEN [run EXCEPT !.task = "drop", !.hand = "none"]
            ELSE [run EXCEPT !.at = f - 1, !.hand = "none"]
  /\ UnitOnly

\* the whole batch is restored before any evidence goes
DropFile(f) ==
  /\ Doing("drop", f)
  /\ \/ Discard(f, "rollback")
     \/ Dropped(f, "rollback") /\ Discard(f, "original")
     \/ Dropped(f, "rollback") /\ Dropped(f, "original") /\ Discard(f, "publication")
     \/ /\ \A p \in {"rollback", "original", "publication"} : Dropped(f, p)
        /\ run' = IF f = N THEN [run EXCEPT !.task = "stage"] ELSE [run EXCEPT !.at = f + 1]
        /\ UnitOnly

-----------------------------------------------------------------------------
(* After the commit: move sources, retained originals and the stage.       *)

_cleanup_source_private(f) ==
  /\ Doing("source", f)
  /\ \/ Captured(f, "source") = "none" /\ Capture(f, "source", "src", "srcflat")
     \/ Captured(f, "source") = "srcdata" /\ Discard(f, "source")
     \* a source that changed goes back to its path
     \/ /\ Captured(f, "source") = "foreign"
        /\ \/ _restore_private_to(f, "source", "src")
           \/ run.hand = "proved" /\ Discarding(f, "source")
           \/ DiscardArtifact(f, "source")
     \/ /\ \/ PhaseOf(f, "source") = "discarded"
           \/ /\ PhaseOf(f, "source") = "none" /\ run.hand = "none"
              /\ At(f, "src") = "none" /\ At(f, "srcflat") = "none"
        /\ NextFile(f)
        /\ UnitOnly

\* the file is reported as blocked, the others are still cleaned
SourceBlocked(f) ==
  /\ Doing("source", f) /\ run.hand = "none"
  /\ \/ allocating # NoIntent /\ PhaseOf(f, "source") = "none"
        /\ (At(f, "srcflat") # "none" \/ ~setup.native)
     \/ PhaseOf(f, "source") = "restoring" /\ At(f, "src") # "none"
     \/ PhaseOf(f, "source") = "restored" /\ At(f, "src") # Captured(f, "source")
     \/ /\ PhaseOf(f, "source") = "claiming" /\ At(f, "source") = "none"
        /\ At(f, carrier[f]["source"].origin) = "none"
  /\ run' = [run EXCEPT !.at = f + 1, !.blocked = TRUE]
  /\ UnitOnly

SourcesDone ==
  /\ Doing("source", N + 1)
  /\ run' = [run EXCEPT !.task = "clean", !.at = 1]
  /\ UnitOnly

CleanFile(f) ==
  /\ Doing("clean", f)
  /\ \/ Discard(f, "original")
     \/ Dropped(f, "original") /\ Discard(f, "publication")
     \/ /\ Dropped(f, "original") /\ Dropped(f, "publication")
        /\ run' = IF f = N THEN [run EXCEPT !.task = "stage"] ELSE [run EXCEPT !.at = f + 1]
        /\ UnitOnly

\* discarding is durable before a staged file is unlinked
_remove_owned_staging ==
  /\ run.task = "stage"
  /\ \/ stagePhase = "ready" /\ stagePhase' = "discarding" /\ UNCHANGED <<place, run>>
     \/ /\ stagePhase = "discarding"
        /\ \/ \E f \in File : At(f, "stage") = "new" /\ Put(f, "stage", "none")
                                /\ UNCHANGED stagePhase
           \/ /\ \A f \in File : At(f, "stage") = "none"
              /\ stagePhase' = "discarded" /\ UNCHANGED place
        /\ UNCHANGED run
     \/ /\ stagePhase = "discarded"
        /\ run' = [run EXCEPT !.task = "finish"]
        /\ UNCHANGED <<stagePhase, place>>
  /\ UNCHANGED <<setup, state, decision, allocating, carrier, receipt, exposed, history,
                 interrupts>>

\* The compensated decision is durable before the terminal row; a cleanup
\* that left a source blocked is not final.
Finish ==
  /\ run.task = "finish"
  /\ \/ /\ decision = "compensate"
        /\ decision' = "compensated" /\ UNCHANGED <<state, run>>
     \/ /\ decision \in {"compensated", "commit"}
        /\ state' = IF run.blocked THEN state ELSE "finalized"
        /\ run' = Idle
        /\ UNCHANGED decision
  /\ UNCHANGED <<setup, allocating, carrier, receipt, stagePhase, place, exposed, history,
                 interrupts>>

-----------------------------------------------------------------------------
(* Units: _complete_publication_unit reads the journal and starts over.    *)

Task ==
  CASE state \in {"db_committed", "cleaning"} ->
         IF setup.move THEN [Idle EXCEPT !.task = "source"] ELSE [Idle EXCEPT !.task = "clean"]
    [] decision = "compensated" -> [Idle EXCEPT !.task = "stage"]
    [] decision = "compensate" -> [Idle EXCEPT !.task = "restore", !.at = N]
    [] decision = "pending" /\ state = "published" -> [Idle EXCEPT !.task = "commit"]
    [] OTHER -> [Idle EXCEPT !.task = "publish"]

_complete_publication_unit ==
  /\ run = Idle /\ state # "finalized"
  /\ run' = Task
  /\ state' = CASE state = "prepared" -> "publishing"
                [] state = "db_committed" -> "cleaning"
                [] OTHER -> state
  /\ UNCHANGED <<setup, decision, allocating, carrier, receipt, stagePhase, place, exposed,
                 history, interrupts>>

\* A proof does not hold or a file is missing: everything is retained and a
\* later unit tries again.
PublishRefused(f) ==
  /\ run.task = "publish"
  /\ \/ receipt[f] /\ At(f, "final") = "none"
     \/ /\ Copied(f) /\ f \in setup.overwrite /\ NeedsIntent(f, "original")
        /\ setup.native /\ At(f, "final") = "none" /\ At(f, "flat") = "none"
     \/ run.hand = "armed" /\ At(f, "publication") # "none" /\ At(f, "final") # "none"
     \/ /\ PhaseOf(f, "publication") = "restoring" /\ At(f, "publication") = "none"
        /\ At(f, "final") = "none"

RestoreRefused(f) ==
  /\ run.task = "restore" /\ run.hand = "none"
  /\ \/ /\ ~Removed(f) /\ ~receipt[f]
        /\ At(f, "publication") # "none" \/ At(f, "final") # "new"
     \/ /\ ~Removed(f) /\ receipt[f] /\ PhaseOf(f, "rollback") = "none"
        /\ At(f, "final") # "new" \/ allocating # NoIntent
     \/ PhaseOf(f, "rollback") = "restoring" /\ At(f, "final") # "none"
     \/ PhaseOf(f, "rollback") = "restored"
     \/ /\ Removed(f) /\ PhaseOf(f, "original") = "none"
        /\ At(f, "flat") # "none" /\ allocating # NoIntent
     \/ PhaseOf(f, "original") = "restoring" /\ At(f, "final") # "none"
     \/ PhaseOf(f, "original") = "restored"
          /\ At(f, "final") # Captured(f, "original")

\* the captured replacement is back in place: the batch stays with an operator
ChangedRestored(f) ==
  /\ run.task = "restore" /\ run.hand = "proved"
  /\ \/ PhaseOf(f, "rollback") = "restored"
     \/ PhaseOf(f, "original") = "restored" /\ Captured(f, "original") # "old"

NothingToTake(f) ==
  \E p \in {"original", "rollback"} :
    /\ run.task \in {"publish", "restore"}
    /\ PhaseOf(f, p) = "claiming" /\ At(f, p) = "none"
    /\ At(f, carrier[f][p].origin) = "none"

LinkLost(f) ==
  /\ run.hand = "linked"
  /\ IF run.task = "source" THEN At(f, "src") # Captured(f, "source")
     ELSE LET p == CASE run.task = "publish" -> "publication"
                     [] PhaseOf(f, "rollback") = "restoring" -> "rollback"
                     [] OTHER -> "original"
          IN At(f, "final") # Captured(f, p)

UnitBlocked ==
  /\ \/ /\ run.task = "commit" /\ run.hand = "none"
        /\ \E g \in File : At(g, "final") # "new"
     \/ /\ run.at \in File
        /\ LET f == run.at IN
             \/ PublishRefused(f) \/ RestoreRefused(f) \/ ChangedRestored(f)
             \/ NothingToTake(f) \/ LinkLost(f)
  /\ run' = Idle
  /\ UnitOnly

\* A crash or an I/O error between two steps.  In two places the step that
\* was made cannot be told from the journal afterwards.
Interrupt ==
  /\ run # Idle /\ interrupts < MaxInterrupts
  /\ interrupts' = interrupts + 1
  /\ exposed' = (exposed \/ run.hand \in Origin \union {"linked"})
  /\ run' = Idle
  /\ UNCHANGED <<setup, journal, place, history>>

\* somebody else replaces, creates or deletes a public file
Foreign(f, l, c) ==
  /\ foreigns < MaxForeign /\ foreigns' = foreigns + 1
  /\ c # At(f, l)
  /\ Put(f, l, c)
  /\ outside' = outside \union {f}
  /\ taken' = taken \union {<<f, At(f, l)>>}
  /\ brought' = IF c = "foreign" THEN brought \union {f}
                ELSE IF At(f, l) = "foreign" THEN brought \ {f} ELSE brought
  /\ UNCHANGED <<setup, journal, run, exposed, interrupts>>

-----------------------------------------------------------------------------
FileStep(f) ==
  \/ _prepare_publication_copy(f) \/ _retain_original(f) \/ _publish_private(f)
  \/ PublishedFile(f) \/ PublishBlocked(f)
  \/ _remove_our_publication(f) \/ _restore_original(f) \/ RestoredFile(f) \/ DropFile(f)
  \/ _cleanup_source_private(f) \/ SourceBlocked(f) \/ CleanFile(f)

UnitStep ==
  \/ _complete_publication_unit
  \/ \E f \in File : FileStep(f)
  \/ _publish_publication_owned \/ _verify_publication_artifacts
  \/ _commit_import \/ AdmissionChanged \/ SourcesDone \/ _remove_owned_staging
  \/ Finish \/ UnitBlocked

Next ==
  \/ UnitStep \/ Interrupt
  \/ \E f \in File, l \in {"final", "src"}, c \in {"none", "foreign"} : Foreign(f, l, c)

Spec == Init /\ [][Next]_vars

\* the replay loop starts a unit for every active journal, again and again
FairSpec == Spec /\ WF_vars(UnitStep)

-----------------------------------------------------------------------------
(* Properties.                                                             *)

Somewhere(f, c) == \E l \in Place : At(f, l) = c

\* The library file that an import replaces stays on disk, at its path, under
\* its recovery name or in its carrier, until Phase 3 has committed, whatever
\* crashes, errors and replacements come between.
OldSafe ==
  \A f \in setup.overwrite : decision # "commit" /\ <<f, "old">> \notin taken =>
    Somewhere(f, "old")

\* A version that somebody else put under a path of the import is never
\* destroyed: it is left alone, or captured and kept, or put back.
ForeignSafe == \A f \in brought : Somewhere(f, "foreign")

\* A move import does not touch its sources before Phase 3 has committed.
SourceSafe ==
  \A f \in File : decision # "commit" /\ f \notin outside => At(f, "src") = "srcdata"

\* Without interference from others the batch is all or nothing: after the
\* commit every file is the new one, after a compensation every path is as it
\* was, wherever the units were interrupted.
AllOrNothing ==
  outside = {} =>
    /\ state \in {"db_committed", "cleaning"} \/ decision = "commit" =>
         \A f \in File : At(f, "final") = "new"
    /\ state = "finalized" /\ decision = "compensated" =>
         \A f \in File : At(f, "final") = IF f \in setup.overwrite THEN "old" ELSE "none"

\* The journal is ahead of the disk: a private artifact exists only under a
\* record that announced it, and what is being thrown away was recorded.
JournalAhead ==
  \A f \in File, p \in Purpose : At(f, p) # "none" =>
    /\ PhaseOf(f, p) \in {"claiming", "claimed", "restoring", "restored", "discarding"}
    /\ PhaseOf(f, p) # "claiming" => Captured(f, p) = At(f, p)

\* When the evidence is thrown away, after a commit or a compensation, every
\* carrier of the batch holds a recorded artifact: the refusals of
\* _discard_private ("readiness is unproven") never strand a decided batch.
DiscardProven ==
  run.task \in {"drop", "clean"} =>
    \A f \in File, p \in Purpose \ {"source"} : Dropped(f, p) \/ Captured(f, p) # "none"

\* A finished publication leaves nothing private behind: no artifact, no
\* recovery name, no staged file.
NothingLeftBehind ==
  state = "finalized" => \A f \in File : \A l \in Purpose \union {"stage", "flat", "srcflat"} :
                           At(f, l) = "none"

\* No file is lost: neither the one that is replaced, nor anybody else's, nor a
\* source before the commit (OldSafe, ForeignSafe, SourceSafe).
FilesSafe == OldSafe /\ ForeignSafe /\ SourceSafe

\* The journal accounts for the whole batch, from the announcement of a carrier to
\* the last private name (AllOrNothing, JournalAhead, DiscardProven, NothingLeftBehind).
BatchAccounted == AllOrNothing /\ JournalAhead /\ DiscardProven /\ NothingLeftBehind

\* Every publication is settled, unless a unit ended between an allocation or
\* a link and its receipt, or somebody else changed the files: in these cases
\* alone the code retains everything for an operator.
SettlesUnlessExposed == <>(state = "finalized" \/ exposed \/ outside # {})
=============================================================================
