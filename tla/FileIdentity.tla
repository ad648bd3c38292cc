---------------------------- MODULE FileIdentity ----------------------------
(***************************************************************************)
(* The file-identity ledger (file_identity_store.py, file_identity_claims. *)
(* py) under one deletion of a volume's file whose folder is enrolled:     *)
(* the other side of module VolumeFileDeletion, where                      *)
(* journal._identity is None.                                              *)
(*                                                                         *)
(* A device number changes when the storage is mounted again, so a         *)
(* fingerprint (device, inode, size, mtime, hash) no longer tells whose a  *)
(* file is.  An enrolled deletion is bound to native handles instead: a    *)
(* proof set records which object each of its names holds in this phase of *)
(* the row, and every change of the row appends the set of the next phase  *)
(* in the same transaction.                                                *)
(*                                                                         *)
(* One unit at a time holds the file-mutation lock; others change the      *)
(* public names between any two of its steps.  The carrier directory and   *)
(* its marker are one object, `box'.  The namespace of the folder is       *)
(* there and is not replaced.  Events of recovery and supersession have    *)
(* no writer in the code, so none occurs.                                  *)
(***************************************************************************)
EXTENDS Naturals, FiniteSets

CONSTANTS MaxForeign,   \* bound: changes of the public names by others
          MaxMounts,    \* bound: times the storage is mounted again
          MaxStops      \* bound: crashes and I/O errors that end a unit early

VARIABLES
    disk,      \* public name, flat tombstone, private artifact -> object
    box,       \* the recorded carrier directory exists
    dev,       \* st_dev of the storage
    row,       \* the row of volume_file_deletions, as a snapshot projects it
    enrolled,  \* the namespace of the folder has an active set
    led,       \* the history of the row's owner: kind of its last event, active set
    unit,      \* volatile: what the unit is doing
    owned,     \* history: objects the first activated set names
    foreigns, stops
vars == <<disk, box, dev, row, enrolled, led, unit, owned, foreigns, stops>>

none == "none"
\* `copy' has the inode, size, mtime and hash of `orig', but is another object
Obj == {"orig", "copy", "other"}
Fp(o) == IF o = "copy" THEN "orig" ELSE o
Place == {"target", "claim", "artifact"}
Links(o) == IF o = none THEN 0 ELSE Cardinality({p \in Place : disk[p] = o})

Row == [state : {"none", "active", "completed"}, file : {none, "orig", "other"}, dev : Nat,
        phase : {"none", "allocated", "claiming", "claimed", "restoring", "restored",
                 "discarding", "discarded"},
        origin : {"target", "claim"}, art : {none, "orig", "other"},
        receipt : {none, "orig", "other"}]
Set == [objs : [Place -> Obj \cup {none}], links : [Place -> 0..2], box : BOOLEAN]
NoRow == [state |-> "none", file |-> none, dev |-> 0, phase |-> "none", origin |-> "target",
          art |-> none, receipt |-> none]
NoSet == [objs |-> [p \in Place |-> none], links |-> [p \in Place |-> 0], box |-> FALSE]
Idle == [at |-> "idle", new |-> NoRow, set |-> NoSet, seen |-> none]

TypeOK ==
    /\ disk \in [Place -> Obj \cup {none}] /\ box \in BOOLEAN /\ enrolled \in BOOLEAN
    /\ row \in Row /\ owned \subseteq Obj
    /\ led \in [kind : {"none", "prepared", "activated"}, snap : Row, set : Set]
    /\ unit \in [at : {"idle", "birth", "bind", "verify", "work", "create", "store", "take",
                       "link", "linked", "discard"},
                 new : Row, set : Set, seen : Obj \cup {none}]
    /\ dev \in 0..MaxMounts /\ foreigns \in 0..MaxForeign /\ stops \in 0..MaxStops

\* A deletion that a run without identities has left, in each phase it may be in; the
\* second file is a changed tombstone, which is on its way back (module
\* VolumeFileDeletion).
Legacy ==
    LET r(ph, o, a, rec) == [state |-> "active", file |-> "orig", dev |-> 0, phase |-> ph,
                             origin |-> o, art |-> a, receipt |-> rec]
        d(t, c, a) == [p \in Place |-> CASE p = "target" -> t [] p = "claim" -> c
                                         [] OTHER -> a]
    IN  {<<r("none", "target", none, none), d(none, "orig", none)>>,
         <<r("claiming", "target", "orig", none), d("orig", none, none)>>,
         <<r("claiming", "claim", "orig", none), d(none, "orig", none)>>,
         <<r("claiming", "claim", "orig", none), d(none, none, "orig")>>,
         <<r("claimed", "claim", "orig", none), d(none, none, "orig")>>,
         <<r("claimed", "claim", "other", none), d(none, none, "other")>>,
         <<r("restoring", "claim", "other", none), d(none, none, "other")>>,
         <<r("restored", "claim", "other", "other"), d("other", none, "other")>>,
         <<r("discarding", "target", "orig", none), d(none, none, "orig")>>,
         <<r("discarding", "target", "orig", none), d(none, none, none)>>,
         <<r("discarded", "target", "orig", none), d(none, none, none)>>}

\* A deletion that is under way, or a volume whose file is there or is missing.
Init ==
    /\ \/ \E l \in Legacy : row = l[1] /\ disk = l[2] /\ box = (l[1].phase # "none")
       \/ /\ row = NoRow /\ box = FALSE
          /\ \E t \in {none, "orig"} :
               disk = [p \in Place |-> IF p = "target" THEN t ELSE none]
    /\ dev = 0 /\ enrolled = FALSE
    /\ led = [kind |-> "none", snap |-> NoRow, set |-> NoSet]
    /\ unit = Idle /\ owned = {}
    /\ foreigns = 0 /\ stops = 0

-----------------------------------------------------------------------------
(* Evidence: what a set records of the disk, and when it may be recorded.  *)

Taken == [objs |-> disk, links |-> [p \in Place |-> Links(disk[p])], box |-> box]

\* the fingerprint that the row acknowledges for a name
_legacy_fingerprint(r, p) ==
    IF p = "artifact" THEN r.art
    ELSE IF p = "target" /\ r.receipt # none THEN r.receipt ELSE r.file

_absent_allowed(r, p) ==
    CASE p = "claim" -> TRUE
      [] p = "target" -> \/ r.file = none \/ r.state = "completed"
                         \/ r.phase \in {"claiming", "claimed", "restoring", "discarding",
                                         "discarded"}
      [] OTHER -> r.phase \in {"none", "allocated", "claiming", "discarding", "discarded"}

\* Mutation of EvidenceAgrees: the device is compared although history names the object.
EvidenceAgrees_device(r, p, fresh) ==
    /\ disk[p] # none /\ Fp(disk[p]) = _legacy_fingerprint(r, p)
    /\ r.dev = dev

\* the device counts only while nothing else tells the object
EvidenceAgrees(r, p, fresh) ==
    /\ disk[p] # none /\ Fp(disk[p]) = _legacy_fingerprint(r, p)
    /\ fresh => r.dev = dev

\* Mutation of SameObject: an object is known by its fingerprint.
SameObject_fingerprint(o, held) == held # none /\ Fp(o) = Fp(held)

SameObject(o, held) == o = held

LinkRecorded(old, r) ==
    old.phase = "restoring" /\ r.phase = "restored" /\ old.receipt = none /\ r.receipt # none
LinkRemoved(old, r, p) ==
    /\ p = "target" /\ disk["artifact"] = none
    /\ old.phase = "discarding" /\ r.phase \in {"discarding", "discarded"}
    /\ r.receipt # none /\ r.receipt = old.receipt

\* An object is where the last set had it, or where the recorded intent moves it.
_deletion_transition(old, prior, r, p) ==
    LET from == {p} \cup {q \in {old.origin} : p = "artifact" /\ old.phase = "claiming"}
                    \cup {q \in {"artifact"} : p = "target" /\ LinkRecorded(old, r)}
    IN  \E q \in from :
          /\ SameObject(disk[p], prior.objs[q])
          /\ \/ Links(disk[p]) = prior.links[q]
             \/ LinkRecorded(old, r) /\ Links(disk[p]) = prior.links[q] + 1
             \/ LinkRemoved(old, r, p) /\ Links(disk[p]) + 1 = prior.links[q]

LostTarget(r) ==
    /\ r.file # none /\ r.state # "completed" /\ r.phase \notin {"discarding", "discarded"}
    /\ \A p \in Place : disk[p] = none

BoxAllowed(r) == box = (r.phase # "none") \/ (~box /\ r.phase = "discarded")

capture_set(r, fresh) ==
    /\ \A p \in Place :
         IF disk[p] = none THEN _absent_allowed(r, p) ELSE EvidenceAgrees(r, p, fresh)
    /\ BoxAllowed(r) /\ (fresh /\ box => r.dev = dev)
    /\ ~fresh => \A p \in Place : disk[p] # none => _deletion_transition(led.snap, led.set, r, p)
    /\ ~LostTarget(r)

\* native identity, content and link count of one name
verify_role(p) == SameObject(disk[p], led.set.objs[p]) /\ Links(disk[p]) = led.set.links[p]

verify_complete ==
    /\ \A p \in Place : IF led.set.objs[p] = none THEN disk[p] = none
                        ELSE disk[p] # none /\ verify_role(p)
    /\ box = led.set.box

\* read_active: only a set that is activated for exactly this row
resolve_context == led.kind = "activated" /\ led.snap = row

_activate(r, s) == led' = [kind |-> "activated", snap |-> r, set |-> s]
NamesIn(s) == {s.objs[p] : p \in Place} \ {none}

-----------------------------------------------------------------------------
(* Enrollment, and the reservation of a deletion in an enrolled folder.    *)

Goto(l) == unit' = [unit EXCEPT !.at = l]
Ends == unit' = Idle
Others == UNCHANGED <<dev, foreigns, stops>>

\* exclusive maintenance: the folder and an active row together, before any drift
enroll_exact_legacy ==
    /\ unit.at = "idle" /\ ~enrolled /\ dev = 0
    /\ enrolled' = TRUE
    /\ IF row.state = "none" THEN UNCHANGED <<led, owned>>
       ELSE /\ led.kind = "none" /\ capture_set(row, TRUE)
            /\ _activate(row, Taken) /\ owned' = NamesIn(Taken)
    /\ UNCHANGED <<disk, box, row, unit>> /\ Others

\* the row is committed first; its birth is captured afterwards
reserve_volume_file_deletion ==
    /\ unit.at = "idle" /\ row.state = "none"
    /\ row' = [NoRow EXCEPT !.state = "active", !.dev = dev,
                            !.file = IF disk["target"] = none THEN none
                                     ELSE Fp(disk["target"])]
    /\ IF enrolled THEN Goto("birth") ELSE Ends
    /\ UNCHANGED <<disk, box, enrolled, led, owned>> /\ Others

Birth ==
    /\ unit.at = "birth" /\ capture_set(row, TRUE)
    /\ _activate(row, Taken) /\ owned' = NamesIn(Taken)
    /\ Ends
    /\ UNCHANGED <<disk, box, row, enrolled>> /\ Others

-----------------------------------------------------------------------------
(* _bind_identity: the set is checked against the disk; a crash between a  *)
(* change of the disk and of the row is caught up by a new set.            *)

replay_volume_file_deletion ==
    /\ unit.at = "idle" /\ row.state = "active" /\ enrolled
    /\ Goto("bind")
    /\ UNCHANGED <<disk, box, row, enrolled, led, owned>> /\ Others

Bound == Goto(IF row.state = "active" THEN "work" ELSE "idle")

_bind_identity ==
    /\ unit.at = "bind" /\ resolve_context
    /\ \/ verify_complete /\ Bound /\ UNCHANGED led
       \/ /\ ~verify_complete /\ capture_set(row, FALSE)
          /\ _activate(row, Taken)
          /\ Goto("verify")
    /\ UNCHANGED <<disk, box, row, enrolled, owned>> /\ Others

Reverify ==
    /\ unit.at = "verify" /\ verify_complete
    /\ Bound
    /\ UNCHANGED <<disk, box, row, enrolled, led, owned>> /\ Others

-----------------------------------------------------------------------------
(* A change of the row: evidence of the next phase is captured, then one   *)
(* transaction writes the row and activates it, then the row is bound.     *)

At(phases) == unit.at = "work" /\ row.state = "active" /\ row.phase \in phases

Persist(r) ==
    /\ capture_set(r, FALSE)
    /\ unit' = [unit EXCEPT !.at = "store", !.new = r, !.set = Taken]
    /\ UNCHANGED <<disk, box, row, enrolled, led, owned>> /\ Others

_store_carrier ==
    /\ unit.at = "store" /\ led.snap = row
    /\ row' = unit.new
    /\ _activate(unit.new, unit.set)
    /\ unit' = [Idle EXCEPT !.at = "bind"]
    /\ UNCHANGED <<disk, box, enrolled, owned>> /\ Others

\* a proposal without activation: if the unit stops now, the row stays as it is
_begin_carrier_creation ==
    /\ At({"none"}) /\ row.file # none
    /\ LET o == IF disk["target"] # none THEN "target" ELSE "claim"
       IN  disk[o] # none /\ verify_role(o)
    /\ capture_set(row, FALSE)
    /\ led' = [led EXCEPT !.kind = "prepared"]
    /\ Goto("create")
    /\ UNCHANGED <<disk, box, row, enrolled, owned>> /\ Others

allocate_carrier ==
    /\ unit.at = "create" /\ ~box
    /\ box' = TRUE
    /\ UNCHANGED <<disk, row, enrolled, led, unit, owned>> /\ Others

\* the names are as they were when the replay chose the origin, or capture_set refuses
Allocated ==
    /\ unit.at = "create" /\ box
    /\ \E o \in {"target", "claim"} :
         /\ led.set.objs[o] # none
         /\ o = "target" \/ led.set.objs["target"] = none
         /\ Persist([row EXCEPT !.phase = "allocated", !.origin = o, !.art = row.file])

Claiming == At({"allocated"}) /\ Persist([row EXCEPT !.phase = "claiming"])

\* the origin is verified, then renamed: what is there then
ClaimChecked ==
    /\ At({"claiming"}) /\ disk["artifact"] = none
    /\ disk[row.origin] # none /\ verify_role(row.origin)
    /\ unit' = [unit EXCEPT !.at = "take", !.seen = disk[row.origin]]
    /\ UNCHANGED <<disk, box, row, enrolled, led, owned>> /\ Others

\* a file that is not the verified one is retained where it is now
claim_into_empty ==
    /\ unit.at = "take" /\ disk[row.origin] # none
    /\ disk' = [disk EXCEPT !["artifact"] = disk[row.origin], ![row.origin] = none]
    /\ IF disk[row.origin] = unit.seen THEN Goto("work") ELSE Ends
    /\ UNCHANGED <<box, row, enrolled, led, owned>> /\ Others

Claimed ==
    /\ At({"claiming"}) /\ disk["artifact"] # none
    /\ Persist([row EXCEPT !.phase = "claimed"])

Restoring ==
    /\ At({"claimed"}) /\ disk["artifact"] # none /\ verify_role("artifact")
    /\ row.art # row.file
    /\ Persist([row EXCEPT !.phase = "restoring"])

link_private_regular ==
    /\ At({"restoring"}) /\ disk["artifact"] # none /\ verify_role("artifact")
    /\ disk["target"] = none
    /\ disk' = [disk EXCEPT !["target"] = disk["artifact"]]
    /\ Goto("linked")
    /\ UNCHANGED <<box, row, enrolled, led, owned>> /\ Others

Restored ==
    /\ unit.at = "linked" /\ disk["target"] # none /\ Fp(disk["target"]) = row.art
    /\ Persist([row EXCEPT !.phase = "restored", !.receipt = row.art])

\* what must hold of the public name before the artifact may go
MayDiscard ==
    IF row.receipt # none
    THEN disk["target"] # none /\ verify_role("target")
    ELSE disk["target"] = none

Discarding ==
    /\ \/ At({"claimed"}) /\ row.art = row.file
       \/ At({"restored"})
    /\ MayDiscard
    /\ Persist([row EXCEPT !.phase = "discarding"])

discard_private_regular ==
    /\ At({"discarding"}) /\ disk["artifact"] # none /\ verify_role("artifact")
    /\ disk' = [disk EXCEPT !["artifact"] = none]
    /\ UNCHANGED <<box, row, enrolled, led, unit, owned>> /\ Others

Discarded ==
    /\ At({"discarding"}) /\ disk["artifact"] = none
    /\ Persist([row EXCEPT !.phase = "discarded"])

gc_discarded_carrier ==
    /\ At({"discarded"}) /\ box
    /\ box' = FALSE
    /\ UNCHANGED <<disk, row, enrolled, led, unit, owned>> /\ Others

\* a file that went back is not deleted: its row stays
_complete_journal ==
    /\ \/ At({"discarded"}) /\ ~box /\ row.receipt = none
       \/ /\ At({"none"}) /\ row.file = none
          /\ disk["target"] = none /\ disk["claim"] = none
    /\ Persist([row EXCEPT !.state = "completed"])

_replay_private_claim ==
    \/ _begin_carrier_creation \/ allocate_carrier \/ Allocated \/ Claiming \/ ClaimChecked
    \/ claim_into_empty \/ Claimed \/ Restoring \/ link_private_regular \/ Restored
    \/ Discarding \/ discard_private_regular \/ Discarded \/ gc_discarded_carrier

UnitStep ==
    \/ Birth \/ replay_volume_file_deletion \/ _bind_identity \/ Reverify
    \/ _replay_private_claim \/ _store_carrier \/ _complete_journal

\* What the unit cannot prove it leaves alone: only the diagnostic is written.
_record_blocked ==
    /\ unit.at # "idle" /\ ~ENABLED UnitStep
    /\ Ends
    /\ UNCHANGED <<disk, box, row, enrolled, led, owned>> /\ Others

-----------------------------------------------------------------------------

Stop ==
    /\ unit.at # "idle" /\ stops < MaxStops
    /\ stops' = stops + 1
    /\ Ends
    /\ UNCHANGED <<disk, box, dev, row, enrolled, led, owned, foreigns>>

\* the storage comes back under another device number while the application is down
Remount ==
    /\ unit.at = "idle" /\ dev < MaxMounts
    /\ dev' = dev + 1
    /\ UNCHANGED <<disk, box, row, enrolled, led, unit, owned, foreigns, stops>>

\* somebody takes a public file away, or puts one where it was
Foreign(p, o) ==
    /\ foreigns < MaxForeign /\ foreigns' = foreigns + 1
    /\ p \in {"target", "claim"} /\ o # disk[p]
    /\ o # none => \A q \in Place : disk[q] # o
    /\ disk' = [disk EXCEPT ![p] = o]
    /\ UNCHANGED <<box, dev, row, enrolled, led, unit, owned, stops>>

Next ==
    \/ enroll_exact_legacy \/ reserve_volume_file_deletion
    \/ UnitStep \/ _record_blocked
    \/ Stop \/ Remount
    \/ \E p \in Place, o \in Obj \cup {none} : Foreign(p, o)

Spec == Init /\ [][Next]_vars

\* the replay loop and the startup drain take up active rows again and again
ReplayStep == UnitStep \/ _record_blocked
Fairness == WF_vars(ReplayStep)

-----------------------------------------------------------------------------
(* What an enrolled deletion promises.                                     *)

\* discard_private_regular under a context removes only an object that the first set of
\* this deletion named: no file that somebody put at its name since, not even one with
\* the same inode, size, time and content.
OnlyOwnedDiscarded ==
    led.kind # "none" /\ disk["artifact"] # none /\ disk'["artifact"] = none
      => disk["artifact"] \in owned

\* the reasons for which a deletion is retained
Disturbed == foreigns > 0 \/ row.art \notin {none, row.file}
Enrolled == row.state = "active" /\ led.kind # "none"
Interrupted == unit.at = "idle" /\ led.kind = "prepared"

\* An enrolled deletion that nobody disturbs is completed, whatever device number the
\* storage has and wherever units stopped, unless one stopped between the proposal of
\* _begin_carrier_creation and the record of its carrier.
EnrolledSettles == Enrolled ~> row.state = "completed" \/ Disturbed \/ Interrupted
=============================================================================
