------------------------- MODULE VolumeFileDeletion -------------------------
(***************************************************************************)
(* Deleting the file of one volume (volume_file_deletion.py), next to the  *)
(* imports of its series and to whoever else changes the library folder.   *)
(*                                                                         *)
(* One transaction writes the deletion journal and resets the volume row;  *)
(* from then on the journal fences the imports of the series.  A replay,   *)
(* in the request or later in the background, takes the file out of its    *)
(* public name into a private carrier, compares what it really took with   *)
(* the journal, and then discards it or puts it back.                      *)
(*                                                                         *)
(* A unit of work holds the file-mutation lock, so there is one at a time, *)
(* and an import publishes under the same lock.  A file stands for its     *)
(* full fingerprint (device, inode, size, mtime, hash): a change makes it  *)
(* another file.  Deletions of a series that is not enrolled in file       *)
(* identities are modelled (journal._identity is None).                    *)
(***************************************************************************)
EXTENDS Naturals, FiniteSets

CONSTANTS
  File,           \* the files that ever appear in the folder
  NoFile,
  MaxJournals,    \* bound: deletions reserved
  MaxForeign,     \* bound: changes of the folder by others
  MaxInterrupts   \* bound: crashes and I/O errors that end a unit early

ASSUME DeletionAssumption ==
  /\ NoFile \notin File
  /\ MaxJournals \in Nat /\ MaxForeign \in Nat /\ MaxInterrupts \in Nat

Maybe == File \union {NoFile}
Place == {"target", "claim", "artifact"}
Phase == {"none", "claiming", "claimed", "restoring", "restored", "discarding", "discarded"}

VARIABLES
  native,      \* the file system has RENAME_NOREPLACE
  row,         \* the row of the volume in volumes: status and imported file
  queue,       \* the import of the series
  journal,     \* the last row of volume_file_deletions
  carrier,     \* its claim_carrier_json
  place,       \* the disk: public name, flat tombstone, private artifact
  run,         \* volatile: what the unit is doing and what it has seen
  audit,       \* file_deleted rows of the history
  journals,    \* rows of volume_file_deletions
  seen,        \* history: files that have appeared
  gone,        \* history: files that others or an import removed
  named,       \* history: files that a journal named
  foreigns, interrupts

durable == <<row, queue, journal, carrier, audit, journals>>
past    == <<seen, gone, named, foreigns>>
vars    == <<native, durable, place, run, past, interrupts>>

Idle      == [at |-> "idle", file |-> NoFile, row |-> [status |-> "wanted", file |-> NoFile],
              origin |-> "target", checked |-> FALSE]
NoCarrier == [phase |-> "none", origin |-> "target", receipt |-> NoFile]
NoJournal == [state |-> "none", path |-> FALSE, file |-> NoFile]
Row       == [status: {"wanted", "grabbed", "downloaded"}, file: Maybe]
Origin    == {"target", "claim"}
Carrier   == [phase: Phase, origin: Origin, receipt: Maybe]
Step      == {"idle", "inspect", "reserve", "replay", "rename", "tombstone", "private",
              "linked", "complete"}
Unit      == [at: Step, file: Maybe, row: Row, origin: Origin, checked: BOOLEAN]

TypeOK ==
  /\ native \in BOOLEAN
  /\ row \in Row
  /\ queue \in [state: {"idle", "importing", "published"}, file: Maybe]
  /\ journal \in [state: {"none", "active", "completed"}, path: BOOLEAN, file: Maybe]
  /\ carrier \in Carrier
  /\ place \in [Place -> Maybe]
  /\ run \in Unit
  /\ audit \in 0..MaxJournals /\ journals \in 0..MaxJournals
  /\ seen \subseteq File /\ gone \subseteq File /\ named \subseteq File
  /\ foreigns \in 0..MaxForeign /\ interrupts \in 0..MaxInterrupts

\* The library holds one imported file.
Init ==
  /\ native \in BOOLEAN
  /\ \E f \in File :
       /\ row = [status |-> "downloaded", file |-> f]
       /\ place = [l \in Place |-> IF l = "target" THEN f ELSE NoFile]
       /\ seen = {f}
  /\ queue = [state |-> "idle", file |-> NoFile]
  /\ journal = NoJournal /\ carrier = NoCarrier /\ run = Idle
  /\ audit = 0 /\ journals = 0
  /\ gone = {} /\ named = {}
  /\ foreigns = 0 /\ interrupts = 0

Active == journal.state = "active"
At(l) == place[l]
Move(from, to) == place' = [place EXCEPT ![to] = place[from], ![from] = NoFile]
Goto(step) == run' = [run EXCEPT !.at = step]

-----------------------------------------------------------------------------
(* Reservation: the row is read, the file hashed, and one transaction      *)
(* checks both again and fences the series.                                *)

\* _active_journal_id found no fence
reserve_volume_file_deletion ==
  /\ run.at = "idle" /\ ~Active /\ journals < MaxJournals
  /\ run' = [Idle EXCEPT !.at = "inspect", !.row = row]
  /\ UNCHANGED <<native, durable, place, past, interrupts>>

\* a row without an import path has nothing to hash
inspect_volume_file_deletion ==
  /\ run.at = "inspect"
  /\ run' = [run EXCEPT !.at = "reserve",
                        !.file = IF run.row.file = NoFile THEN NoFile ELSE At("target")]
  /\ UNCHANGED <<native, durable, place, past, interrupts>>

competing_for_series == Active \/ queue.state # "idle"

\* Mutation of Reservable: imports in progress are not looked for.
Reservable_racing == ~Active /\ row = run.row

Reservable == ~competing_for_series /\ row = run.row

_reserve_volume_file_deletion_owned ==
  /\ run.at = "reserve" /\ Reservable
  /\ journal' = [state |-> "active", path |-> run.row.file # NoFile, file |-> run.file]
  /\ carrier' = NoCarrier
  /\ row' = [status |-> "wanted", file |-> NoFile]
  /\ journals' = journals + 1
  /\ named' = named \union ({run.file} \ {NoFile})
  /\ run' = Idle
  /\ UNCHANGED <<native, queue, audit, place, seen, gone, foreigns, interrupts>>

\* "import_in_progress" or "changed": nothing is written
ReservationRefused ==
  /\ run.at = "reserve" /\ ~Reservable
  /\ run' = Idle
  /\ UNCHANGED <<native, durable, place, past, interrupts>>

-----------------------------------------------------------------------------
(* Replay of the active journal, by the request, the loop or the startup.  *)

\* Mutation of replay_volume_file_deletion: a journal with a carrier is left alone.
replay_volume_file_deletion_fresh ==
  /\ run.at = "idle" /\ Active /\ carrier.phase = "none"
  /\ run' = [Idle EXCEPT !.at = "replay"]
  /\ UNCHANGED <<native, durable, place, past, interrupts>>

replay_volume_file_deletion ==
  /\ run.at = "idle" /\ Active
  /\ run' = [Idle EXCEPT !.at = IF carrier.phase # "none" THEN "private" ELSE "replay"]
  /\ UNCHANGED <<native, durable, place, past, interrupts>>

\* The file system decides how to go on; see Refused for the other cases.
_replay_volume_file_deletion_owned ==
  /\ run.at = "replay"
  /\ \/ /\ journal.file = NoFile
        /\ journal.path => At("target") = NoFile /\ At("claim") = NoFile
        /\ Goto("complete")
     \/ /\ journal.file # NoFile /\ At("target") = journal.file /\ At("claim") = NoFile
        /\ Goto("rename")
     \/ /\ journal.file # NoFile /\ At("target") = NoFile
        /\ Goto(IF At("claim") = NoFile THEN "complete" ELSE "tombstone")
  /\ UNCHANGED <<native, durable, place, past, interrupts>>

\* what is renamed is what is there now, which may not be what was hashed
_rename_noreplace ==
  /\ run.at = "rename"
  /\ IF native
     THEN /\ At("target") # NoFile /\ At("claim") = NoFile
          /\ Move("target", "claim")
          /\ Goto("tombstone")
     ELSE Goto("private") /\ UNCHANGED place
  /\ UNCHANGED <<native, durable, past, interrupts>>

\* the tombstone is hashed; the public name must still be free
Tombstone ==
  /\ run.at = "tombstone" /\ At("claim") # NoFile /\ At("target") = NoFile
  /\ run' = [run EXCEPT !.at = "private", !.origin = "claim"]
  /\ UNCHANGED <<native, durable, place, past, interrupts>>

-----------------------------------------------------------------------------
(* _replay_private_claim: one step per write of the carrier record         *)
(* (_store_carrier) and per change of the disk.                            *)

Private(phases) == run.at = "private" /\ carrier.phase \in phases
_store_carrier(phase) == carrier' = [carrier EXCEPT !.phase = phase]
RecordOnly == UNCHANGED <<native, row, queue, journal, audit, journals, place, past,
                          interrupts>>
DiskOnly   == UNCHANGED <<native, durable, past, interrupts>>

\* the empty carrier is recorded, with where its file is to come from
Allocate ==
  /\ Private({"none"})
  /\ carrier' = [NoCarrier EXCEPT !.phase = "claiming", !.origin = run.origin]
  /\ UNCHANGED run
  /\ RecordOnly

\* claim_into_empty
Take ==
  /\ Private({"claiming"}) /\ At("artifact") = NoFile /\ At(carrier.origin) # NoFile
  /\ Move(carrier.origin, "artifact")
  /\ UNCHANGED run
  /\ DiskOnly

Claimed ==
  /\ Private({"claiming"}) /\ At("artifact") # NoFile
  /\ _store_carrier("claimed")
  /\ UNCHANGED run
  /\ RecordOnly

Matches == At("artifact") = journal.file

Restoring ==
  /\ Private({"claimed"}) /\ At("artifact") # NoFile /\ ~Matches
  /\ _store_carrier("restoring")
  /\ UNCHANGED run
  /\ RecordOnly

\* Mutation of Link: an existing public file is replaced.
Link_replace ==
  /\ Private({"restoring"}) /\ At("artifact") # NoFile
  /\ place' = [place EXCEPT !["target"] = At("artifact")]
  /\ Goto("linked")
  /\ DiskOnly

\* link_private_regular refuses an existing name
Link ==
  /\ Private({"restoring"}) /\ At("artifact") # NoFile /\ At("target") = NoFile
  /\ place' = [place EXCEPT !["target"] = At("artifact")]
  /\ Goto("linked")
  /\ DiskOnly

Receipt ==
  /\ run.at = "linked" /\ At("target") = At("artifact")
  /\ carrier' = [carrier EXCEPT !.phase = "restored", !.receipt = At("artifact")]
  /\ Goto("private")
  /\ RecordOnly

\* what must hold of the public name before the artifact may go
MayDiscard ==
  IF carrier.receipt # NoFile THEN At("target") = carrier.receipt
  ELSE At("target") = NoFile

Discarding ==
  /\ \/ Private({"claimed"}) /\ Matches
     \/ Private({"restored"})
  /\ MayDiscard
  /\ _store_carrier("discarding")
  /\ run' = [run EXCEPT !.checked = TRUE]
  /\ RecordOnly

\* a later unit that finds the intent checks the public name once more
ResumeDiscard ==
  /\ Private({"discarding"}) /\ ~run.checked /\ MayDiscard
  /\ run' = [run EXCEPT !.checked = TRUE]
  /\ UNCHANGED <<native, durable, place, past, interrupts>>

Expected == IF carrier.receipt # NoFile THEN carrier.receipt ELSE journal.file

discard_private_regular ==
  /\ Private({"discarding"}) /\ run.checked /\ At("artifact") = Expected
  /\ place' = [place EXCEPT !["artifact"] = NoFile]
  /\ UNCHANGED run
  /\ DiskOnly

Discarded ==
  /\ Private({"discarding"}) /\ run.checked /\ At("artifact") = NoFile
  /\ _store_carrier("discarded")
  /\ UNCHANGED run
  /\ RecordOnly

\* a file that went back is not deleted: the journal stays (Refused)
gc_discarded_carrier ==
  /\ Private({"discarded"}) /\ carrier.receipt = NoFile
  /\ Goto("complete")
  /\ UNCHANGED <<native, durable, place, past, interrupts>>

\* Mutation of _complete_journal: the journal of a captured file completes at once.
_complete_journal_early ==
  /\ run.at = "complete" \/ Private({"claimed"})
  /\ Active
  /\ journal' = [journal EXCEPT !.state = "completed"]
  /\ audit' = audit + 1
  /\ run' = Idle
  /\ UNCHANGED <<native, row, queue, carrier, journals, place, past, interrupts>>

_complete_journal ==
  /\ run.at = "complete" /\ Active
  /\ journal' = [journal EXCEPT !.state = "completed"]
  /\ audit' = audit + 1
  /\ run' = Idle
  /\ UNCHANGED <<native, row, queue, carrier, journals, place, past, interrupts>>

-----------------------------------------------------------------------------
(* What the unit does not understand it leaves alone: the diagnostic is    *)
(* recorded, the journal and its fence stay.                               *)

Refused ==
  \/ /\ run.at = "replay" /\ journal.file = NoFile /\ journal.path
     /\ At("target") # NoFile \/ At("claim") # NoFile
  \/ /\ run.at = "replay" /\ journal.file # NoFile /\ At("target") # NoFile
     /\ At("claim") # NoFile \/ At("target") # journal.file
  \/ run.at = "rename" /\ native /\ (At("target") = NoFile \/ At("claim") # NoFile)
  \/ run.at = "tombstone" /\ (At("claim") = NoFile \/ At("target") # NoFile)
  \/ Private({"claiming"}) /\ At("artifact") = NoFile /\ At(carrier.origin) = NoFile
  \/ Private({"restoring"}) /\ At("target") # NoFile
  \/ run.at = "linked" /\ At("target") # At("artifact")
  \/ Private({"claimed"}) /\ Matches /\ ~MayDiscard
  \/ Private({"restored"}) /\ ~MayDiscard
  \/ Private({"discarding"}) /\ ~run.checked /\ ~MayDiscard
  \/ Private({"discarding"}) /\ run.checked /\ At("artifact") \notin {NoFile, Expected}
  \/ Private({"discarded"}) /\ carrier.receipt # NoFile

_record_blocked ==
  /\ Refused
  /\ run' = Idle
  /\ UNCHANGED <<native, durable, place, past, interrupts>>

\* a crash, or an I/O or database error, ends the unit between two steps
Interrupt ==
  /\ run.at # "idle" /\ interrupts < MaxInterrupts
  /\ run' = Idle /\ interrupts' = interrupts + 1
  /\ UNCHANGED <<native, durable, place, past>>

-----------------------------------------------------------------------------
(* The others: an import of the series (module ImportPipeline), which      *)
(* claims, publishes and commits under the file-mutation lock; a grab,     *)
(* which does not take it; and whoever else changes the folder.            *)

Fresh == File \ seen

claim_import_queue_row ==
  /\ queue.state = "idle" /\ run.at = "idle" /\ Fresh # {} /\ ~Active
  /\ queue' = [state |-> "importing", file |-> NoFile]
  /\ UNCHANGED <<native, row, journal, carrier, audit, journals, place, run, past,
                 interrupts>>

\* a file that the import replaces is gone (module PublicationFiles)
publish_publication(f) ==
  /\ queue.state = "importing" /\ run.at = "idle" /\ f \in Fresh
  /\ queue' = [state |-> "published", file |-> f]
  /\ place' = [place EXCEPT !["target"] = f]
  /\ seen' = seen \union {f}
  /\ gone' = gone \union ({At("target")} \ {NoFile})
  /\ UNCHANGED <<native, row, journal, carrier, audit, journals, run, named,
                 foreigns, interrupts>>

_commit_import ==
  /\ queue.state = "published" /\ run.at = "idle"
  /\ row' = [status |-> "downloaded", file |-> queue.file]
  /\ queue' = [state |-> "idle", file |-> NoFile]
  /\ UNCHANGED <<native, journal, carrier, audit, journals, place, run, past, interrupts>>

\* the import fails or is aborted before it publishes
AbortImport ==
  /\ queue.state = "importing"
  /\ queue' = [state |-> "idle", file |-> NoFile]
  /\ UNCHANGED <<native, row, journal, carrier, audit, journals, place, run, past,
                 interrupts>>

\* a grab, of a missing volume or of an upgrade, keeps the import path
Grab ==
  /\ row.status # "grabbed"
  /\ row' = [row EXCEPT !.status = "grabbed"]
  /\ UNCHANGED <<native, queue, journal, carrier, audit, journals, place, run, past,
                 interrupts>>

\* somebody removes a public file or puts another one there
Foreign(l, c) ==
  /\ foreigns < MaxForeign /\ foreigns' = foreigns + 1
  /\ c \in Fresh \union {NoFile} /\ c # At(l)
  /\ place' = [place EXCEPT ![l] = c]
  /\ seen' = seen \union ({c} \ {NoFile})
  /\ gone' = gone \union ({At(l)} \ {NoFile})
  /\ UNCHANGED <<native, durable, run, named, interrupts>>

Reserve ==
  \/ reserve_volume_file_deletion \/ inspect_volume_file_deletion
  \/ _reserve_volume_file_deletion_owned \/ ReservationRefused

_replay_private_claim ==
  \/ Allocate \/ Take \/ Claimed \/ Restoring \/ Link \/ Receipt
  \/ Discarding \/ ResumeDiscard \/ discard_private_regular \/ Discarded
  \/ gc_discarded_carrier

Replay ==
  \/ replay_volume_file_deletion \/ _replay_volume_file_deletion_owned
  \/ _rename_noreplace \/ Tombstone \/ _replay_private_claim
  \/ _complete_journal \/ _record_blocked

Import ==
  \/ claim_import_queue_row \/ (\E f \in File : publish_publication(f))
  \/ _commit_import \/ AbortImport

Next ==
  \/ Reserve \/ Replay \/ Interrupt \/ Import \/ Grab
  \/ \E l \in {"target", "claim"}, c \in Maybe : Foreign(l, c)

Spec == Init /\ [][Next]_vars

-----------------------------------------------------------------------------
(* Safety.                                                                 *)

\* A file that no journal names is never lost by a deletion: whatever a rename
\* or a capture took by mistake is still in one of the three places.
ForeignSafe ==
  \A f \in seen \ (gone \union named) : \E l \in Place : At(l) = f

\* The library does not list a file that a deletion has removed: a row with
\* status downloaded still has its file, unless others took it.
RowTruth ==
  row.status = "downloaded" /\ row.file \notin gone => At("target") = row.file

\* A journal is completed only when its own file is nowhere any more, and
\* nothing is left in the private carrier.
Settled ==
  journal.state = "completed" =>
    /\ At("artifact") = NoFile
    /\ journal.file # NoFile => \A l \in Place : At(l) # journal.file

-----------------------------------------------------------------------------
(* Liveness: the replay loop comes back to every active journal, a unit    *)
(* that has begun goes on, and only so many units are interrupted.         *)

Fairness == WF_vars(Replay)

FairSpec == Spec /\ Fairness

\* A deletion ends unless somebody else changes the folder, however often its
\* units are interrupted.
DeletionSettles ==
  (Active /\ foreigns = 0) ~> (~Active \/ foreigns > 0)

\* A file that was captured instead of the journal's is under the public name
\* again, unless that name is taken or others removed the file from it.
ForeignReturned ==
  \A f \in File :
    (Active /\ At("artifact") = f /\ f # journal.file) ~> (At("target") # NoFile \/ f \in gone)

\* What a deletion took it gives back or removes: both of the above.
DeletionEnds == DeletionSettles /\ ForeignReturned
=============================================================================
