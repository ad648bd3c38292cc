-------------------------- MODULE ChapterQuarantine --------------------------
(***************************************************************************)
(* The quarantine of a loose chapter that a merged volume holds            *)
(* (volume_chapter_cleanup.py), its restore, and the replay of both.       *)
(*                                                                         *)
(* One row of chapter_quarantine covers one move: reserved, captured in a  *)
(* private carrier beside the file, committed (the chapter points at the   *)
(* volume), quarantined.  A row that did not commit is rolled back, one    *)
(* that did only goes forward.  Nothing is ever deleted: where the file    *)
(* system has no RENAME_NOREPLACE a move is a link and the removal of the  *)
(* private name, and a crash between the two leaves two names.             *)
(*                                                                         *)
(* A unit of work holds the file-mutation lock.  A file is modelled by its *)
(* inode; what others did to it (nothing, a rewrite that keeps size and    *)
(* times, a change that stat shows) tells the cheap check from the hash.   *)
(***************************************************************************)
EXTENDS Naturals, FiniteSets

CONSTANTS
  File,           \* the inodes that ever appear
  NoFile,
  MaxRows,        \* bound: rows of chapter_quarantine
  MaxForeign,     \* bound: changes of files by others
  MaxEdits,       \* bound: changes of library rows by others
  MaxInterrupts   \* bound: crashes and I/O errors that end a unit early

Maybe  == File \union {NoFile}
Place  == {"original", "carrier", "quarantine", "volume"}
Public == {"original", "quarantine", "volume"}
State  == {"none", "reserved", "captured", "committed", "quarantined", "restoring",
           "restored", "rolled_back"}
Step   == {"idle", "reserve", "capture", "take", "taken", "commit", "txn", "undo", "undone",
           "forward", "accept", "back", "return", "repoint"}

VARIABLES
  native,     \* the file system has RENAME_NOREPLACE
  chapter,    \* the chapter row: what it points at, and its other columns
  volume,     \* status of the volume row
  prov,       \* the inode of the provenance row of the loose file
  assembly,   \* the inode of the assembly record of the volume
  row,        \* the last row of chapter_quarantine
  place,      \* the disk
  harm,       \* what others did to each inode
  run,        \* volatile: what the unit does; the link half of a move is done
  rows, seen, gone, foreigns, edits, interrupts

library == <<chapter, volume, prov, assembly>>
counts  == <<rows, seen, gone, foreigns, edits>>
vars    == <<native, library, row, place, harm, run, counts, interrupts>>

Chapter == [at: {"original", "volume", "none"}, rev: 0..MaxEdits]
Idle    == [at |-> "idle", chapter |-> [at |-> "none", rev |-> 0], linked |-> FALSE]
NoRow   == [state |-> "none", file |-> NoFile, carrier |-> FALSE,
            guard |-> [at |-> "none", rev |-> 0]]
Active  == row.state \in {"reserved", "captured", "committed", "restoring"}

TypeOK ==
  /\ native \in BOOLEAN
  /\ chapter \in Chapter
  /\ volume \in {"downloaded", "grabbed", "wanted"}
  /\ prov \in Maybe /\ assembly \in Maybe
  /\ row \in [state: State, file: Maybe, carrier: BOOLEAN, guard: Chapter]
  /\ place \in [Place -> Maybe]
  /\ harm \in [File -> {"intact", "rewritten", "touched"}]
  /\ run \in [at: Step, chapter: Chapter, linked: BOOLEAN]
  /\ rows \in 0..MaxRows /\ foreigns \in 0..MaxForeign
  /\ edits \in 0..MaxEdits /\ interrupts \in 0..MaxInterrupts
  /\ seen \subseteq File /\ gone \subseteq File

\* A loose chapter, and beside it the volume that was merged from it.
Init ==
  /\ native \in BOOLEAN
  /\ \E loose, vol \in File :
       /\ loose # vol
       /\ place = [l \in Place |-> CASE l = "original" -> loose [] l = "volume" -> vol
                                     [] OTHER -> NoFile]
       /\ prov = loose /\ assembly = vol /\ seen = {loose, vol}
  /\ chapter = [at |-> "original", rev |-> 0]
  /\ volume = "downloaded"
  /\ row = NoRow /\ run = Idle
  /\ harm = [f \in File |-> "intact"]
  /\ gone = {} /\ rows = 0 /\ foreigns = 0 /\ edits = 0 /\ interrupts = 0

At(l) == place[l]
Exists(l) == At(l) # NoFile
\* inode, size and mtime agree; with the hash, the content too
_stat_matches(l, f) == At(l) = f /\ f # NoFile /\ harm[f] # "touched"
_pinned_id(l, f) == At(l) = f /\ f # NoFile /\ harm[f] = "intact"

Goto(step) == run' = [run EXCEPT !.at = step, !.linked = FALSE]
UnitOnly == UNCHANGED <<native, library, row, place, harm, counts, interrupts>>
DiskOnly == UNCHANGED <<native, library, row, harm, counts, interrupts>>
_advance(state) == row' = [row EXCEPT !.state = state]

-----------------------------------------------------------------------------
(* _move_noreplace and _drop_alias: the step taken when the move is done.  *)

\* Mutation of Rename: what holds the destination is replaced.
Rename_over(from, to) ==
  /\ native /\ Exists(from)
  /\ place' = [place EXCEPT ![to] = At(from), ![from] = NoFile]

Rename(from, to) ==
  /\ native /\ Exists(from) /\ ~Exists(to)
  /\ place' = [place EXCEPT ![to] = At(from), ![from] = NoFile]

_move_noreplace(from, to, done) ==
  \/ Rename(from, to) /\ Goto(done) /\ DiskOnly
  \/ /\ ~native /\ ~run.linked /\ Exists(from) /\ ~Exists(to)
     /\ place' = [place EXCEPT ![to] = At(from)]
     /\ run' = [run EXCEPT !.linked = TRUE]
     /\ DiskOnly
  \/ /\ run.linked /\ Exists(from) /\ At(to) = At(from)
     /\ place' = [place EXCEPT ![from] = NoFile]
     /\ Goto(done)
     /\ DiskOnly

_drop_alias(keep, drop, done) ==
  /\ Exists(drop) /\ At(keep) = At(drop)
  /\ place' = [place EXCEPT ![drop] = NoFile]
  /\ Goto(done)
  /\ DiskOnly

-----------------------------------------------------------------------------
(* cleanup_volume, for one loose chapter.                                  *)

\* Called by the download that merged the volume, which has found the series free
\* under the same lock; every page of the loose file is in the page range that the
\* record claims.
inspect_volume ==
  /\ run.at = "idle" /\ ~Active /\ rows < MaxRows
  /\ volume = "downloaded" /\ assembly # NoFile /\ _pinned_id("volume", assembly)
  /\ chapter.at = "original" /\ prov # NoFile /\ _pinned_id("original", prov)
  /\ run' = [Idle EXCEPT !.at = "reserve", !.chapter = chapter]
  /\ UnitOnly

Reservable == ~Active /\ chapter = run.chapter /\ prov # NoFile /\ volume = "downloaded"

_reserve ==
  /\ run.at = "reserve" /\ Reservable
  /\ row' = [state |-> "reserved", file |-> prov, carrier |-> FALSE, guard |-> run.chapter]
  /\ rows' = rows + 1
  /\ Goto("capture")
  /\ UNCHANGED <<native, library, place, harm, seen, gone, foreigns, edits, interrupts>>

\* "changed before reservation"
_reserve_refused ==
  /\ run.at = "reserve" /\ ~Reservable
  /\ run' = Idle
  /\ UnitOnly

\* the carrier is recorded before it exists
CarrierRecorded ==
  /\ run.at = "capture" /\ ~row.carrier
  /\ row' = [row EXCEPT !.carrier = TRUE]
  /\ UNCHANGED <<native, library, place, harm, run, counts, interrupts>>

CaptureChecked ==
  /\ run.at = "capture" /\ row.carrier
  /\ Goto(IF _stat_matches("original", row.file) THEN "take" ELSE "undo")
  /\ UnitOnly

\* the rename takes what is there now
CaptureTaken ==
  /\ run.at = "take"
  /\ IF Exists("original")
     THEN /\ place' = [place EXCEPT !["carrier"] = At("original"), !["original"] = NoFile]
          /\ Goto("taken")
     ELSE UNCHANGED place /\ Goto("undo")
  /\ DiskOnly

_capture ==
  /\ run.at = "taken"
  /\ IF _pinned_id("carrier", row.file) THEN _advance("captured") /\ Goto("commit")
     ELSE Goto("undo") /\ UNCHANGED row
  /\ UNCHANGED <<native, library, place, harm, counts, interrupts>>

\* the content of the volume, not its metadata, authorises the commit
CommitChecked ==
  /\ run.at = "commit"
  /\ Goto(IF _pinned_id("volume", assembly) THEN "txn" ELSE "undo")
  /\ UnitOnly

Committable ==
  volume = "downloaded" /\ assembly # NoFile /\ prov = row.file /\ chapter = row.guard

_commit ==
  /\ run.at = "txn"
  /\ IF Committable
     THEN /\ _advance("committed") /\ Goto("forward")
          /\ prov' = NoFile /\ chapter' = [chapter EXCEPT !.at = "volume"]
     ELSE Goto("undo") /\ UNCHANGED <<row, chapter, prov>>
  /\ UNCHANGED <<native, volume, assembly, place, harm, counts, interrupts>>

-----------------------------------------------------------------------------
(* _rollback and _transfer.                                                *)

Held == row.carrier /\ Exists("carrier")

_rollback ==
  /\ run.at = "undo"
  /\ \/ Held /\ (run.linked \/ ~Exists("original"))
          /\ _move_noreplace("carrier", "original", "undone")
     \/ Held /\ ~run.linked /\ Exists("original")
          /\ _drop_alias("original", "carrier", "undone")
     \/ ~Held /\ Exists("original") /\ Goto("undone") /\ UnitOnly

RolledBack ==
  /\ run.at = "undone"
  /\ _advance("rolled_back") /\ run' = Idle
  /\ UNCHANGED <<native, library, place, harm, counts, interrupts>>

_transfer ==
  /\ run.at = "forward"
  /\ \/ /\ ~run.linked /\ Exists("quarantine") /\ _stat_matches("quarantine", row.file)
        /\ IF Held THEN _pinned_id("quarantine", row.file)
                          /\ _drop_alias("quarantine", "carrier", "accept")
           ELSE Goto("accept") /\ UnitOnly
     \/ /\ run.linked \/ (~Exists("quarantine") /\ _pinned_id("carrier", row.file))
        /\ _move_noreplace("carrier", "quarantine", "accept")

\* the acceptance boundary: rehashed through its pinned folder
Accepted ==
  /\ run.at = "accept" /\ _pinned_id("quarantine", row.file)
  /\ _advance("quarantined") /\ run' = Idle
  /\ UNCHANGED <<native, library, place, harm, counts, interrupts>>

-----------------------------------------------------------------------------
(* restore and _finish_restore.                                            *)

restore ==
  /\ run.at = "idle" /\ row.state = "quarantined"
  /\ chapter.at = "volume" /\ volume = "downloaded"
  /\ _advance("restoring")
  /\ run' = [Idle EXCEPT !.at = "back"]
  /\ UNCHANGED <<native, library, place, harm, counts, interrupts>>

_finish_restore ==
  /\ run.at = "back"
  /\ \/ /\ _stat_matches("original", row.file)
        /\ IF Exists("quarantine") THEN _pinned_id("original", row.file)
                                          /\ _drop_alias("original", "quarantine", "repoint")
           ELSE Goto("repoint") /\ UnitOnly
     \/ ~Exists("original") /\ _pinned_id("quarantine", row.file) /\ Goto("return") /\ UnitOnly

\* what moves is what is there now
ReturnMoved == run.at = "return" /\ _move_noreplace("quarantine", "original", "repoint")

\* The name is taken, or nothing arrived under it (the file is missing or changed,
\* the folder cannot be pinned, the move failed): quarantined again.
_refuse_restore ==
  /\ \/ run.at = "back" /\ Exists("original") /\ ~_stat_matches("original", row.file)
     \/ run.at \in {"back", "return"} /\ ~Exists("original")
  /\ _advance("quarantined") /\ run' = Idle
  /\ UNCHANGED <<native, library, place, harm, counts, interrupts>>

\* the chapter points at the file again, if it still points at its volume
Repoint ==
  /\ run.at = "repoint" /\ _pinned_id("original", row.file)
  /\ chapter' = [chapter EXCEPT !.at =
       IF chapter.at = "volume" /\ volume = "downloaded" THEN "original" ELSE @]
  /\ _advance("restored") /\ run' = Idle
  /\ UNCHANGED <<native, volume, prov, assembly, place, harm, counts, interrupts>>

-----------------------------------------------------------------------------
(* replay, by the startup drain and the loop; what cannot be proven safe   *)
(* is left with its diagnostic, and the row keeps its fence.               *)

Resume ==
  CASE row.state \in {"reserved", "captured"} -> "undo"
    [] row.state = "committed" -> "forward"
    [] row.state = "restoring" -> "back"
    [] OTHER -> "idle"

replay ==
  /\ run.at = "idle" /\ Active
  /\ run' = [Idle EXCEPT !.at = Resume]
  /\ UnitOnly

Refused ==
  \/ /\ run.at = "undo"
     /\ IF Held THEN (Exists("original") \/ run.linked) /\ At("original") # At("carrier")
                ELSE ~Exists("original")
  \/ /\ run.at = "forward" /\ ~run.linked
     /\ IF Exists("quarantine")
        THEN \/ ~_stat_matches("quarantine", row.file)
             \/ Held /\ (At("carrier") # At("quarantine") \/ ~_pinned_id("quarantine", row.file))
        ELSE ~_pinned_id("carrier", row.file)
  \/ /\ run.at = "forward" /\ run.linked /\ At("quarantine") # At("carrier")
  \/ run.at = "accept" /\ ~_pinned_id("quarantine", row.file)
  \/ /\ run.at = "back" /\ _stat_matches("original", row.file) /\ Exists("quarantine")
     /\ At("quarantine") # At("original") \/ ~_pinned_id("original", row.file)
  \/ /\ run.at = "return" /\ Exists("original")
     /\ ~run.linked \/ At("quarantine") # At("original")
  \/ run.at = "repoint" /\ ~_pinned_id("original", row.file)

_block ==
  /\ Refused
  /\ run' = Idle
  /\ UnitOnly

Interrupt ==
  /\ run.at # "idle" /\ interrupts < MaxInterrupts
  /\ run' = Idle /\ interrupts' = interrupts + 1
  /\ UNCHANGED <<native, library, row, place, harm, counts>>

_settle ==
  \/ CarrierRecorded \/ CaptureChecked \/ CaptureTaken \/ _capture
  \/ CommitChecked \/ _commit \/ _rollback \/ RolledBack \/ _transfer \/ Accepted
  \/ _finish_restore \/ ReturnMoved \/ _refuse_restore \/ Repoint \/ _block

-----------------------------------------------------------------------------
(* The others.                                                             *)

Fresh == File \ seen
OnlyFiles == UNCHANGED <<native, library, row, run, rows, edits, interrupts>>

\* somebody removes a file or puts another one in its place ...
Foreign(l, c) ==
  /\ foreigns < MaxForeign /\ foreigns' = foreigns + 1
  /\ c \in Fresh \union {NoFile} /\ c # At(l)
  /\ place' = [place EXCEPT ![l] = c]
  /\ seen' = seen \union ({c} \ {NoFile})
  /\ gone' = gone \union ({At(l)} \ {NoFile})
  /\ UNCHANGED harm
  /\ OnlyFiles

\* ... or changes it in place
Harm(f, h) ==
  /\ foreigns < MaxForeign /\ foreigns' = foreigns + 1
  /\ \E l \in Place : At(l) = f
  /\ harm[f] = "intact" /\ h # "intact" /\ harm' = [harm EXCEPT ![f] = h]
  /\ UNCHANGED <<place, seen, gone>>
  /\ OnlyFiles

\* an edit of the chapter, or the grab of an upgrade of the volume: neither
\* takes the lock or looks for the row
Edit ==
  /\ edits < MaxEdits /\ edits' = edits + 1
  /\ \/ chapter' = [chapter EXCEPT !.rev = edits + 1] /\ UNCHANGED volume
     \/ volume = "downloaded" /\ volume' = "grabbed" /\ UNCHANGED chapter
  /\ UNCHANGED <<native, prov, assembly, row, place, harm, run, rows, seen, gone, foreigns,
                 interrupts>>

\* the deletion of the volume file, and an import that replaces it, hold the
\* lock and are fenced by an active row
VolumeDeleted ==
  /\ run.at = "idle" /\ ~Active /\ volume # "wanted" /\ Exists("volume")
  /\ volume' = "wanted"
  /\ chapter' = [chapter EXCEPT !.at = IF @ = "volume" THEN "none" ELSE @]
  /\ place' = [place EXCEPT !["volume"] = NoFile]
  /\ gone' = gone \union {At("volume")}
  /\ UNCHANGED <<native, prov, assembly, row, harm, run, rows, seen, foreigns, edits,
                 interrupts>>

VolumeImported(f) ==
  /\ run.at = "idle" /\ ~Active /\ volume # "downloaded" /\ f \in Fresh
  /\ volume' = "downloaded" /\ assembly' = NoFile
  /\ place' = [place EXCEPT !["volume"] = f]
  /\ seen' = seen \union {f}
  /\ gone' = gone \union ({At("volume")} \ {NoFile})
  /\ UNCHANGED <<native, chapter, prov, row, harm, run, rows, foreigns, edits, interrupts>>

Cleanup == inspect_volume \/ _reserve \/ _reserve_refused
Others ==
  \/ \E l \in Public, c \in Maybe : Foreign(l, c)
  \/ \E f \in File, h \in {"rewritten", "touched"} : Harm(f, h)
  \/ Edit \/ VolumeDeleted \/ \E f \in File : VolumeImported(f)

Next == Cleanup \/ restore \/ replay \/ _settle \/ Interrupt \/ Others

Spec == Init /\ [][Next]_vars

-----------------------------------------------------------------------------
(* Safety.                                                                 *)

\* Nothing is deleted: a file that others did not remove is in one of its places,
\* through every interruption of a capture, a move, a rollback or a restore.
NothingDeleted ==
  \A f \in seen \ gone : \E l \in Place : At(l) = f

\* the loose file that the chapter is about
Loose == IF prov # NoFile THEN prov ELSE row.file

\* A chapter that points at its loose file has it, unless others removed it: at
\* rest under its own name, or in the carrier of a row that will be rolled back.
LooseListed ==
  chapter.at = "original" /\ Loose \notin gone =>
    \/ At("original") = Loose
    \/ row.state \in {"reserved", "captured"} /\ At("carrier") = Loose

\* A row at rest in quarantine has its file there and nowhere else.
QuarantineHolds ==
  row.state = "quarantined" /\ row.file \notin gone /\ harm[row.file] = "intact" =>
    /\ At("quarantine") = row.file
    /\ At("carrier") = NoFile

-----------------------------------------------------------------------------
(* Liveness: the loop replays every active row, a unit goes on, and only   *)
(* so many units are interrupted.                                          *)

ReplayStep == replay \/ _settle
Fairness == WF_vars(ReplayStep)
FairSpec == Spec /\ Fairness

Undisturbed == Active /\ foreigns = 0
\* Without changes of its files by others every row settles, whatever the units
\* and the rows of the library go through: the series is not fenced for good.
RowSettles == Undisturbed ~> ~Undisturbed

\* As the docstring of restore has it, a restored file is never left with nothing
\* pointing at it.
RestoredIsListed ==
  [][row.state = "restoring" /\ row'.state = "restored" => chapter'.at = "original"]_vars
==============================================================================
