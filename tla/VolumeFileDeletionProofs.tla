---------------------- MODULE VolumeFileDeletionProofs ----------------------
(***************************************************************************)
(* Proofs of the safety properties of VolumeFileDeletion, for any set of   *)
(* files and any bounds.                                                   *)
(***************************************************************************)
EXTENDS VolumeFileDeletion, TLAPS

\* The fence: while a journal is active there is no import of the series and
\* no row with status downloaded; a unit replays only an active journal.
Fenced ==
  /\ Active => queue.state = "idle" /\ row.status # "downloaded"
  /\ run.at \in {"inspect", "reserve"} => ~Active /\ journals < MaxJournals
  /\ run.at \in {"replay", "rename", "tombstone", "private", "linked", "complete"} => Active
  /\ audit <= journals /\ (Active => audit < journals)

\* What an import has published is there until somebody takes it.
Published ==
  /\ queue.state = "published" =>
       /\ queue.file \in File
       /\ queue.file \in gone \/ At("target") = queue.file
  /\ row.status = "downloaded" => row.file \in File

\* Every file in the folder and every file a journal or a unit knows was seen.
Known ==
  /\ \A l \in Place : At(l) \in seen \union {NoFile}
  /\ run.file \in seen \union {NoFile}
  /\ journal.file \in seen \union {NoFile}
  /\ journal.file # NoFile => journal.file \in named

\* A private artifact is always covered by the record of the carrier.
Recorded ==
  /\ At("artifact") # NoFile =>
       Active /\ carrier.phase \in {"claiming", "claimed", "restoring", "restored", "discarding"}
  /\ carrier.phase \in {"claimed", "restoring", "restored"} => At("artifact") # NoFile
  /\ carrier.phase \in {"restoring", "restored"} => At("artifact") # journal.file
  /\ run.at \in {"replay", "rename", "tombstone"} => carrier.phase = "none"
  /\ run.at = "linked" => carrier.phase = "restoring"
  /\ run.at = "complete" => carrier.phase \in {"none", "discarded"} /\ carrier.receipt = NoFile
  /\ carrier.phase \notin {"none", "discarded"} => Active
  /\ carrier.phase # "none" \/ run.at \in {"rename", "tombstone", "private"}
       => journal.file # NoFile

\* A receipt names a file that went back under the public name.
Receipted ==
  /\ carrier.receipt # NoFile =>
       /\ Active
       /\ carrier.phase \in {"restored", "discarding", "discarded"}
       /\ carrier.receipt # journal.file
       /\ At("artifact") \in {NoFile, carrier.receipt}
       /\ carrier.receipt \in gone \/ At("target") = carrier.receipt
  /\ carrier.phase = "restored" => carrier.receipt # NoFile
  /\ carrier.phase = "discarding" /\ carrier.receipt = NoFile =>
       At("artifact") \in {NoFile, journal.file}

\* A file is in one place only, but for the link of a file that goes back.
OnePlace ==
  /\ At("claim") # NoFile => At("claim") # At("target") /\ At("claim") # At("artifact")
  /\ At("artifact") # NoFile /\ At("artifact") = At("target") =>
       /\ carrier.phase \in {"restoring", "restored", "discarding"}
       /\ At("artifact") # journal.file

Nowhere == \A l \in Place : At(l) # journal.file

\* The journal's own file is nowhere once it is discarded.
Removed ==
  journal.file # NoFile =>
    /\ carrier.phase \in {"discarding", "discarded"} /\ carrier.receipt = NoFile
         /\ At("artifact") = NoFile => Nowhere
    /\ carrier.phase \in {"discarding", "discarded"} /\ carrier.receipt = NoFile
         => At("target") # journal.file /\ At("claim") # journal.file
    /\ run.at = "complete" => Nowhere

IInv ==
  /\ TypeOK /\ Fenced /\ Published /\ Known /\ Recorded /\ Receipted /\ OnePlace /\ Removed
  /\ ForeignSafe /\ RowTruth /\ Settled

-----------------------------------------------------------------------------
(* Records: what the actions write has the right fields.                   *)

\* The values that a unit, a carrier and a row start with.
LEMMA Rests ==
  Idle \in Unit /\ NoCarrier \in Carrier /\ [status |-> "wanted", file |-> NoFile] \in Row
BY DEF Idle, NoCarrier, Unit, Carrier, Row, Step, Origin, Phase, Maybe

\* The changes of a unit.
LEMMA UnitEdits ==
  ASSUME NEW u \in Unit, NEW a \in Step, NEW o \in Origin, NEW r \in Row, NEW f \in Maybe
  PROVE  /\ [u EXCEPT !.at = a] \in Unit
         /\ [u EXCEPT !.at = a, !.origin = o] \in Unit
         /\ [u EXCEPT !.at = a, !.row = r] \in Unit
         /\ [u EXCEPT !.at = a, !.file = f] \in Unit
         /\ [u EXCEPT !.checked = TRUE] \in Unit
BY DEF Unit

\* The changes of the carrier record (_store_carrier).
LEMMA CarrierEdits ==
  ASSUME NEW c \in Carrier, NEW p \in Phase, NEW o \in Origin, NEW f \in Maybe
  PROVE  /\ [c EXCEPT !.phase = p] \in Carrier
         /\ [c EXCEPT !.phase = p, !.origin = o] \in Carrier
         /\ [c EXCEPT !.phase = p, !.receipt = f] \in Carrier
BY DEF Carrier

\* The types of the parts that the actions copy.
LEMMA Typed ==
  ASSUME TypeOK
  PROVE  /\ run \in Unit /\ carrier \in Carrier /\ row \in Row
         /\ run.row \in Row /\ run.file \in Maybe /\ run.origin \in Origin
         /\ \A l \in Place : At(l) \in Maybe
BY DEF TypeOK, Unit, At

-----------------------------------------------------------------------------
(* Every action keeps every part of the invariant.                         *)

\* The types.
LEMMA KeepsType ==
  ASSUME IInv, Next
  PROVE  TypeOK'
<1>1. CASE reserve_volume_file_deletion
  <2>1. run' \in Unit
      BY <1>1, Rests, Typed, UnitEdits DEF IInv, Step, Origin, Place, Maybe, durable,
         reserve_volume_file_deletion
  <2>2. carrier' \in Carrier
      BY <1>1, Rests, Typed, CarrierEdits DEF IInv, durable, Place, Phase,
         reserve_volume_file_deletion
  <2>3. QED
      BY <1>1, <2>1, <2>2, Rests, Typed, DeletionAssumption DEF IInv, TypeOK, Fenced,
         Maybe, durable, past, reserve_volume_file_deletion
<1>2. CASE inspect_volume_file_deletion
  <2>1. run' \in Unit
      BY <1>2, Rests, Typed, UnitEdits DEF IInv, Step, Origin, Place, Maybe, durable,
         inspect_volume_file_deletion
  <2>2. carrier' \in Carrier
      BY <1>2, Rests, Typed, CarrierEdits DEF IInv, durable, Place, Phase,
         inspect_volume_file_deletion
  <2>3. QED
      BY <1>2, <2>1, <2>2, Rests, Typed, DeletionAssumption DEF IInv, TypeOK, Fenced,
         Maybe, durable, past, inspect_volume_file_deletion
<1>3. CASE _reserve_volume_file_deletion_owned
  <2>1. run' \in Unit
      BY <1>3, Rests, Typed, UnitEdits DEF IInv, Step, Origin, Place, Maybe, durable,
         _reserve_volume_file_deletion_owned, Reservable, competing_for_series
  <2>2. carrier' \in Carrier
      BY <1>3, Rests, Typed, CarrierEdits DEF IInv, durable, Place, Phase,
         _reserve_volume_file_deletion_owned, Reservable, competing_for_series
  <2>3. QED
      BY <1>3, <2>1, <2>2, Rests, Typed, DeletionAssumption DEF IInv, TypeOK, Fenced,
         Maybe, durable, past, _reserve_volume_file_deletion_owned, Reservable,
         competing_for_series
<1>4. CASE ReservationRefused
  <2>1. run' \in Unit
      BY <1>4, Rests, Typed, UnitEdits DEF IInv, Step, Origin, Place, Maybe, durable,
         ReservationRefused
  <2>2. carrier' \in Carrier
      BY <1>4, Rests, Typed, CarrierEdits DEF IInv, durable, Place, Phase,
         ReservationRefused
  <2>3. QED
      BY <1>4, <2>1, <2>2, Rests, Typed, DeletionAssumption DEF IInv, TypeOK, Fenced,
         Maybe, durable, past, ReservationRefused
<1>5. CASE replay_volume_file_deletion
  <2>1. run' \in Unit
      BY <1>5, Rests, Typed, UnitEdits DEF IInv, Step, Origin, Place, Maybe, durable,
         replay_volume_file_deletion
  <2>2. carrier' \in Carrier
      BY <1>5, Rests, Typed, CarrierEdits DEF IInv, durable, Place, Phase,
         replay_volume_file_deletion
  <2>3. QED
      BY <1>5, <2>1, <2>2, Rests, Typed, DeletionAssumption DEF IInv, TypeOK, Fenced,
         Maybe, durable, past, replay_volume_file_deletion
<1>6. CASE _replay_volume_file_deletion_owned
  <2>1. run' \in Unit
      BY <1>6, Rests, Typed, UnitEdits DEF IInv, Step, Origin, Place, Maybe, durable,
         _replay_volume_file_deletion_owned, Goto
  <2>2. carrier' \in Carrier
      BY <1>6, Rests, Typed, CarrierEdits DEF IInv, durable, Place, Phase,
         _replay_volume_file_deletion_owned, Goto
  <2>3. QED
      BY <1>6, <2>1, <2>2, Rests, Typed, DeletionAssumption DEF IInv, TypeOK, Fenced,
         Maybe, durable, past, _replay_volume_file_deletion_owned, Goto
<1>7. CASE _rename_noreplace
  <2>1. run' \in Unit
      BY <1>7, Rests, Typed, UnitEdits DEF IInv, Step, Origin, Place, Maybe, durable,
         _rename_noreplace, Goto, Move
  <2>2. carrier' \in Carrier
      BY <1>7, Rests, Typed, CarrierEdits DEF IInv, durable, Place, Phase,
         _rename_noreplace, Goto, Move
  <2>3. QED
      BY <1>7, <2>1, <2>2, Rests, Typed, DeletionAssumption DEF IInv, TypeOK, Fenced,
         Maybe, durable, past, _rename_noreplace, Goto, Move, Place
<1>8. CASE Tombstone
  <2>1. run' \in Unit
      BY <1>8, Rests, Typed, UnitEdits DEF IInv, Step, Origin, Place, Maybe, durable,
         Tombstone
  <2>2. carrier' \in Carrier
      BY <1>8, Rests, Typed, CarrierEdits DEF IInv, durable, Place, Phase, Tombstone
  <2>3. QED
      BY <1>8, <2>1, <2>2, Rests, Typed, DeletionAssumption DEF IInv, TypeOK, Fenced,
         Maybe, durable, past, Tombstone
<1>9. CASE Allocate
  <2>1. run' \in Unit
      BY <1>9, Rests, Typed, UnitEdits DEF IInv, Step, Origin, Place, Maybe, durable,
         Allocate, Private, RecordOnly
  <2>2. carrier' \in Carrier
      BY <1>9, Rests, Typed, CarrierEdits DEF IInv, durable, Place, Phase, Allocate,
         Private, RecordOnly
  <2>3. QED
      BY <1>9, <2>1, <2>2, Rests, Typed, DeletionAssumption DEF IInv, TypeOK, Fenced,
         Maybe, durable, past, Allocate, Private, RecordOnly
<1>10. CASE Take
  <2>1. run' \in Unit
      BY <1>10, Rests, Typed, UnitEdits DEF IInv, Step, Origin, Place, Maybe, durable,
         Take, Private, DiskOnly, Move
  <2>2. carrier' \in Carrier
      BY <1>10, Rests, Typed, CarrierEdits DEF IInv, durable, Place, Phase, Take,
         Private, DiskOnly, Move
  <2>3. QED
      BY <1>10, <2>1, <2>2, Rests, Typed, DeletionAssumption DEF IInv, TypeOK, Fenced,
         Maybe, durable, past, Take, Private, DiskOnly, Move, Carrier, Origin, Place
<1>11. CASE Claimed
  <2>1. run' \in Unit
      BY <1>11, Rests, Typed, UnitEdits DEF IInv, Step, Origin, Place, Maybe, durable,
         Claimed, Private, RecordOnly, _store_carrier
  <2>2. carrier' \in Carrier
      BY <1>11, Rests, Typed, CarrierEdits DEF IInv, durable, Place, Phase, Claimed,
         Private, RecordOnly, _store_carrier
  <2>3. QED
      BY <1>11, <2>1, <2>2, Rests, Typed, DeletionAssumption DEF IInv, TypeOK, Fenced,
         Maybe, durable, past, Claimed, Private, RecordOnly, _store_carrier
<1>12. CASE Restoring
  <2>1. run' \in Unit
      BY <1>12, Rests, Typed, UnitEdits DEF IInv, Step, Origin, Place, Maybe, durable,
         Restoring, Private, RecordOnly, _store_carrier, Matches
  <2>2. carrier' \in Carrier
      BY <1>12, Rests, Typed, CarrierEdits DEF IInv, durable, Place, Phase, Restoring,
         Private, RecordOnly, _store_carrier, Matches
  <2>3. QED
      BY <1>12, <2>1, <2>2, Rests, Typed, DeletionAssumption DEF IInv, TypeOK, Fenced,
         Maybe, durable, past, Restoring, Private, RecordOnly, _store_carrier, Matches
<1>13. CASE Link
  <2>1. run' \in Unit
      BY <1>13, Rests, Typed, UnitEdits DEF IInv, Step, Origin, Place, Maybe, durable,
         Link, Private, DiskOnly, Goto
  <2>2. carrier' \in Carrier
      BY <1>13, Rests, Typed, CarrierEdits DEF IInv, durable, Place, Phase, Link,
         Private, DiskOnly, Goto
  <2>3. QED
      BY <1>13, <2>1, <2>2, Rests, Typed, DeletionAssumption DEF IInv, TypeOK, Fenced,
         Maybe, durable, past, Link, Private, DiskOnly, Goto, Place
<1>14. CASE Receipt
  <2>1. run' \in Unit
      BY <1>14, Rests, Typed, UnitEdits DEF IInv, Step, Origin, Place, Maybe, durable,
         Receipt, RecordOnly, Goto
  <2>2. carrier' \in Carrier
      BY <1>14, Rests, Typed, CarrierEdits DEF IInv, durable, Place, Phase, Receipt,
         RecordOnly, Goto
  <2>3. QED
      BY <1>14, <2>1, <2>2, Rests, Typed, DeletionAssumption DEF IInv, TypeOK, Fenced,
         Maybe, durable, past, Receipt, RecordOnly, Goto
<1>15. CASE Discarding
  <2>1. run' \in Unit
      BY <1>15, Rests, Typed, UnitEdits DEF IInv, Step, Origin, Place, Maybe, durable,
         Discarding, Private, RecordOnly, _store_carrier, Matches, MayDiscard
  <2>2. carrier' \in Carrier
      BY <1>15, Rests, Typed, CarrierEdits DEF IInv, durable, Place, Phase, Discarding,
         Private, RecordOnly, _store_carrier, Matches, MayDiscard
  <2>3. QED
      BY <1>15, <2>1, <2>2, Rests, Typed, DeletionAssumption DEF IInv, TypeOK, Fenced,
         Maybe, durable, past, Discarding, Private, RecordOnly, _store_carrier, Matches,
         MayDiscard
<1>16. CASE ResumeDiscard
  <2>1. run' \in Unit
      BY <1>16, Rests, Typed, UnitEdits DEF IInv, Step, Origin, Place, Maybe, durable,
         ResumeDiscard, Private
  <2>2. carrier' \in Carrier
      BY <1>16, Rests, Typed, CarrierEdits DEF IInv, durable, Place, Phase,
         ResumeDiscard, Private
  <2>3. QED
      BY <1>16, <2>1, <2>2, Rests, Typed, DeletionAssumption DEF IInv, TypeOK, Fenced,
         Maybe, durable, past, ResumeDiscard, Private
<1>17. CASE discard_private_regular
  <2>1. run' \in Unit
      BY <1>17, Rests, Typed, UnitEdits DEF IInv, Step, Origin, Place, Maybe, durable,
         discard_private_regular, Private, DiskOnly, Expected
  <2>2. carrier' \in Carrier
      BY <1>17, Rests, Typed, CarrierEdits DEF IInv, durable, Place, Phase,
         discard_private_regular, Private, DiskOnly, Expected
  <2>3. QED
      BY <1>17, <2>1, <2>2, Rests, Typed, DeletionAssumption DEF IInv, TypeOK, Fenced,
         Maybe, durable, past, discard_private_regular, Private, DiskOnly, Expected,
         Place
<1>18. CASE Discarded
  <2>1. run' \in Unit
      BY <1>18, Rests, Typed, UnitEdits DEF IInv, Step, Origin, Place, Maybe, durable,
         Discarded, Private, RecordOnly, _store_carrier
  <2>2. carrier' \in Carrier
      BY <1>18, Rests, Typed, CarrierEdits DEF IInv, durable, Place, Phase, Discarded,
         Private, RecordOnly, _store_carrier
  <2>3. QED
      BY <1>18, <2>1, <2>2, Rests, Typed, DeletionAssumption DEF IInv, TypeOK, Fenced,
         Maybe, durable, past, Discarded, Private, RecordOnly, _store_carrier
<1>19. CASE gc_discarded_carrier
  <2>1. run' \in Unit
      BY <1>19, Rests, Typed, UnitEdits DEF IInv, Step, Origin, Place, Maybe, durable,
         gc_discarded_carrier, Private, Goto
  <2>2. carrier' \in Carrier
      BY <1>19, Rests, Typed, CarrierEdits DEF IInv, durable, Place, Phase,
         gc_discarded_carrier, Private, Goto
  <2>3. QED
      BY <1>19, <2>1, <2>2, Rests, Typed, DeletionAssumption DEF IInv, TypeOK, Fenced,
         Maybe, durable, past, gc_discarded_carrier, Private, Goto
<1>20. CASE _complete_journal
  <2>1. run' \in Unit
      BY <1>20, Rests, Typed, UnitEdits DEF IInv, Step, Origin, Place, Maybe, durable,
         _complete_journal
  <2>2. carrier' \in Carrier
      BY <1>20, Rests, Typed, CarrierEdits DEF IInv, durable, Place, Phase,
         _complete_journal
  <2>3. QED
      BY <1>20, <2>1, <2>2, Rests, Typed, DeletionAssumption DEF IInv, TypeOK, Fenced,
         Maybe, durable, past, _complete_journal
<1>21. CASE _record_blocked
  <2>1. run' \in Unit
      BY <1>21, Rests, Typed, UnitEdits DEF IInv, Step, Origin, Place, Maybe, durable,
         _record_blocked
  <2>2. carrier' \in Carrier
      BY <1>21, Rests, Typed, CarrierEdits DEF IInv, durable, Place, Phase,
         _record_blocked
  <2>3. QED
      BY <1>21, <2>1, <2>2, Rests, Typed, DeletionAssumption DEF IInv, TypeOK, Fenced,
         Maybe, durable, past, _record_blocked
<1>22. CASE Interrupt
  <2>1. run' \in Unit
      BY <1>22, Rests, Typed, UnitEdits DEF IInv, Step, Origin, Place, Maybe, durable,
         Interrupt
  <2>2. carrier' \in Carrier
      BY <1>22, Rests, Typed, CarrierEdits DEF IInv, durable, Place, Phase, Interrupt
  <2>3. QED
      BY <1>22, <2>1, <2>2, Rests, Typed, DeletionAssumption DEF IInv, TypeOK, Fenced,
         Maybe, durable, past, Interrupt
<1>23. CASE claim_import_queue_row
  <2>1. run' \in Unit
      BY <1>23, Rests, Typed, UnitEdits DEF IInv, Step, Origin, Place, Maybe, durable,
         claim_import_queue_row
  <2>2. carrier' \in Carrier
      BY <1>23, Rests, Typed, CarrierEdits DEF IInv, durable, Place, Phase,
         claim_import_queue_row
  <2>3. QED
      BY <1>23, <2>1, <2>2, Rests, Typed, DeletionAssumption DEF IInv, TypeOK, Fenced,
         Maybe, durable, past, claim_import_queue_row
<1>24. CASE _commit_import
  <2>1. run' \in Unit
      BY <1>24, Rests, Typed, UnitEdits DEF IInv, Step, Origin, Place, Maybe, durable,
         _commit_import
  <2>2. carrier' \in Carrier
      BY <1>24, Rests, Typed, CarrierEdits DEF IInv, durable, Place, Phase,
         _commit_import
  <2>3. QED
      BY <1>24, <2>1, <2>2, Rests, Typed, DeletionAssumption DEF IInv, TypeOK, Fenced,
         Maybe, Row, durable, past, _commit_import
<1>25. CASE AbortImport
  <2>1. run' \in Unit
      BY <1>25, Rests, Typed, UnitEdits DEF IInv, Step, Origin, Place, Maybe, durable,
         AbortImport
  <2>2. carrier' \in Carrier
      BY <1>25, Rests, Typed, CarrierEdits DEF IInv, durable, Place, Phase, AbortImport
  <2>3. QED
      BY <1>25, <2>1, <2>2, Rests, Typed, DeletionAssumption DEF IInv, TypeOK, Fenced,
         Maybe, durable, past, AbortImport
<1>26. CASE Grab
  <2>1. run' \in Unit
      BY <1>26, Rests, Typed, UnitEdits DEF IInv, Step, Origin, Place, Maybe, durable,
         Grab
  <2>2. carrier' \in Carrier
      BY <1>26, Rests, Typed, CarrierEdits DEF IInv, durable, Place, Phase, Grab
  <2>3. QED
      BY <1>26, <2>1, <2>2, Rests, Typed, DeletionAssumption DEF IInv, TypeOK, Fenced,
         Maybe, Row, durable, past, Grab
<1>27. ASSUME NEW f \in File, publish_publication(f) PROVE TypeOK'
  <2>1. run' \in Unit
      BY <1>27, Rests, Typed, UnitEdits DEF IInv, Step, Origin, Place, Maybe, durable,
         publish_publication, Fresh
  <2>2. carrier' \in Carrier
      BY <1>27, Rests, Typed, CarrierEdits DEF IInv, durable, Place, Phase,
         publish_publication, Fresh
  <2>3. QED
      BY <1>27, <2>1, <2>2, Rests, Typed, DeletionAssumption DEF IInv, TypeOK, Fenced,
         Maybe, durable, past, publish_publication, Fresh, Place
<1>28. ASSUME NEW l \in {"target", "claim"}, NEW c \in Maybe, Foreign(l, c)
      PROVE  TypeOK'
  <2>1. run' \in Unit
      BY <1>28, Rests, Typed, UnitEdits DEF IInv, Step, Origin, Place, Maybe, durable,
         Foreign, Fresh
  <2>2. carrier' \in Carrier
      BY <1>28, Rests, Typed, CarrierEdits DEF IInv, durable, Place, Phase, Foreign,
         Fresh
  <2>3. QED
      BY <1>28, <2>1, <2>2, Rests, Typed, DeletionAssumption DEF IInv, TypeOK, Fenced,
         Maybe, durable, past, Foreign, Fresh, Place
<1> QED
  BY <1>1, <1>2, <1>3, <1>4, <1>5, <1>6, <1>7, <1>8, <1>9, <1>10, <1>11, <1>12, <1>13,
     <1>14, <1>15, <1>16, <1>17, <1>18, <1>19, <1>20, <1>21, <1>22, <1>23, <1>24, <1>25,
     <1>26, <1>27, <1>28 DEF Next, Reserve, Replay, _replay_private_claim, Import

\* The fence, what is published and what is known.
LEMMA KeepsFence ==
  ASSUME IInv, Next
  PROVE  Fenced' /\ Published' /\ Known'
<1>1. CASE reserve_volume_file_deletion
    BY <1>1, DeletionAssumption DEF IInv, TypeOK, Maybe, Idle, Fenced, Published, Known,
       Recorded, Active, At, Place, durable, past, reserve_volume_file_deletion
<1>2. CASE inspect_volume_file_deletion
    BY <1>2, DeletionAssumption DEF IInv, TypeOK, Maybe, Idle, Fenced, Published, Known,
       Recorded, Active, At, Place, durable, past, inspect_volume_file_deletion
<1>3. CASE _reserve_volume_file_deletion_owned
    BY <1>3, DeletionAssumption DEF IInv, TypeOK, Maybe, Idle, NoCarrier, Fenced,
       Published, Known, Recorded, Active, At, Place, durable, past,
       _reserve_volume_file_deletion_owned, Reservable, competing_for_series
<1>4. CASE ReservationRefused
    BY <1>4, DeletionAssumption DEF IInv, TypeOK, Maybe, Idle, Fenced, Published, Known,
       Recorded, Active, At, Place, durable, past, ReservationRefused
<1>5. CASE replay_volume_file_deletion
    BY <1>5, DeletionAssumption DEF IInv, TypeOK, Maybe, Idle, Fenced, Published, Known,
       Recorded, Active, At, Place, durable, past, replay_volume_file_deletion
<1>6. CASE _replay_volume_file_deletion_owned
    BY <1>6, DeletionAssumption DEF IInv, TypeOK, Maybe, Unit, Idle, Fenced, Published,
       Known, Recorded, Active, At, Place, durable, past,
       _replay_volume_file_deletion_owned, Goto
<1>7. CASE _rename_noreplace
    BY <1>7, DeletionAssumption DEF IInv, TypeOK, Maybe, Unit, Fenced, Published, Known,
       Recorded, Active, At, Place, durable, past, _rename_noreplace, Goto, Move
<1>8. CASE Tombstone
    BY <1>8, DeletionAssumption DEF IInv, TypeOK, Maybe, Idle, Fenced, Published, Known,
       Recorded, Active, At, Place, durable, past, Tombstone
<1>9. CASE Allocate
    BY <1>9, DeletionAssumption DEF IInv, TypeOK, Maybe, NoCarrier, Fenced, Published,
       Known, Recorded, Active, At, Place, durable, past, Allocate, Private, RecordOnly
<1>10. CASE Take
    BY <1>10, DeletionAssumption DEF IInv, TypeOK, Maybe, Carrier, Origin, Place,
       Fenced, Published, Known, Recorded, Active, At, durable, past, Take, Private,
       DiskOnly, Move
<1>11. CASE Claimed
    BY <1>11, DeletionAssumption DEF IInv, TypeOK, Maybe, Fenced, Published, Known,
       Recorded, Active, At, Place, durable, past, Claimed, Private, RecordOnly,
       _store_carrier
<1>12. CASE Restoring
    BY <1>12, DeletionAssumption DEF IInv, TypeOK, Maybe, Fenced, Published, Known,
       Recorded, Active, At, Place, durable, past, Restoring, Private, RecordOnly,
       _store_carrier, Matches
<1>13. CASE Link
    BY <1>13, DeletionAssumption DEF IInv, TypeOK, Maybe, Fenced, Published, Known,
       Recorded, Active, At, Place, durable, past, Link, Private, DiskOnly, Goto
<1>14. CASE Receipt
    BY <1>14, DeletionAssumption DEF IInv, TypeOK, Maybe, Fenced, Published, Known,
       Recorded, Active, At, Place, durable, past, Receipt, RecordOnly, Goto
<1>15. CASE Discarding
    BY <1>15, DeletionAssumption DEF IInv, TypeOK, Maybe, Fenced, Published, Known,
       Recorded, Active, At, Place, durable, past, Discarding, Private, RecordOnly,
       _store_carrier, Matches, MayDiscard
<1>16. CASE ResumeDiscard
    BY <1>16, DeletionAssumption DEF IInv, TypeOK, Maybe, Idle, Fenced, Published,
       Known, Recorded, Active, At, Place, durable, past, ResumeDiscard, Private
<1>17. CASE discard_private_regular
    BY <1>17, DeletionAssumption DEF IInv, TypeOK, Maybe, Fenced, Published, Known,
       Recorded, Active, At, Place, durable, past, discard_private_regular, Private,
       DiskOnly, Expected
<1>18. CASE Discarded
    BY <1>18, DeletionAssumption DEF IInv, TypeOK, Maybe, Fenced, Published, Known,
       Recorded, Active, At, Place, durable, past, Discarded, Private, RecordOnly,
       _store_carrier
<1>19. CASE gc_discarded_carrier
    BY <1>19, DeletionAssumption DEF IInv, TypeOK, Maybe, Idle, Fenced, Published,
       Known, Recorded, Active, At, Place, durable, past, gc_discarded_carrier, Private,
       Goto
<1>20. CASE _complete_journal
    BY <1>20, DeletionAssumption DEF IInv, TypeOK, Maybe, Idle, Fenced, Published,
       Known, Recorded, Active, At, Place, durable, past, _complete_journal
<1>21. CASE _record_blocked
    BY <1>21, DeletionAssumption DEF IInv, TypeOK, Maybe, Idle, Fenced, Published,
       Known, Recorded, Active, At, Place, durable, past, _record_blocked
<1>22. CASE Interrupt
    BY <1>22, DeletionAssumption DEF IInv, TypeOK, Maybe, Idle, Fenced, Published,
       Known, Recorded, Active, At, Place, durable, past, Interrupt
<1>23. CASE claim_import_queue_row
    BY <1>23, DeletionAssumption DEF IInv, TypeOK, Maybe, Fenced, Published, Known,
       Recorded, Active, At, Place, durable, past, claim_import_queue_row
<1>24. CASE _commit_import
    BY <1>24, DeletionAssumption DEF IInv, TypeOK, Maybe, Fenced, Published, Known,
       Recorded, Active, At, Place, durable, past, _commit_import
<1>25. CASE AbortImport
    BY <1>25, DeletionAssumption DEF IInv, TypeOK, Maybe, Fenced, Published, Known,
       Recorded, Active, At, Place, durable, past, AbortImport
<1>26. CASE Grab
    BY <1>26, DeletionAssumption DEF IInv, TypeOK, Maybe, Fenced, Published, Known,
       Recorded, Active, At, Place, durable, past, Grab
<1>27. ASSUME NEW f \in File, publish_publication(f) PROVE Fenced' /\ Published' /\ Known'
    BY <1>27, DeletionAssumption DEF IInv, TypeOK, Maybe, Fenced, Published, Known,
       Recorded, Active, At, Place, durable, past, publish_publication, Fresh
<1>28. ASSUME NEW l \in {"target", "claim"}, NEW c \in Maybe, Foreign(l, c)
      PROVE  Fenced' /\ Published' /\ Known'
    BY <1>28, DeletionAssumption DEF IInv, TypeOK, Maybe, Fenced, Published, Known,
       Recorded, Active, At, Place, durable, past, Foreign, Fresh
<1> QED
  BY <1>1, <1>2, <1>3, <1>4, <1>5, <1>6, <1>7, <1>8, <1>9, <1>10, <1>11, <1>12, <1>13,
     <1>14, <1>15, <1>16, <1>17, <1>18, <1>19, <1>20, <1>21, <1>22, <1>23, <1>24, <1>25,
     <1>26, <1>27, <1>28 DEF Next, Reserve, Replay, _replay_private_claim, Import

\* The record of the carrier covers the artifact, the receipt the restored file.
LEMMA KeepsCarrier ==
  ASSUME IInv, Next
  PROVE  Recorded' /\ Receipted'
<1>1. CASE reserve_volume_file_deletion
    BY <1>1, DeletionAssumption DEF IInv, TypeOK, Maybe, Idle, Fenced, Recorded,
       Receipted, OnePlace, Active, At, durable, past, reserve_volume_file_deletion
<1>2. CASE inspect_volume_file_deletion
    BY <1>2, DeletionAssumption DEF IInv, TypeOK, Maybe, Idle, Fenced, Recorded,
       Receipted, OnePlace, Active, At, durable, past, inspect_volume_file_deletion
<1>3. CASE _reserve_volume_file_deletion_owned
    BY <1>3, DeletionAssumption DEF IInv, TypeOK, Maybe, Idle, NoCarrier, Fenced,
       Recorded, Receipted, OnePlace, Active, At, durable, past,
       _reserve_volume_file_deletion_owned, Reservable, competing_for_series
<1>4. CASE ReservationRefused
    BY <1>4, DeletionAssumption DEF IInv, TypeOK, Maybe, Idle, Fenced, Recorded,
       Receipted, OnePlace, Active, At, durable, past, ReservationRefused
<1>5. CASE replay_volume_file_deletion
    BY <1>5, DeletionAssumption DEF IInv, TypeOK, Maybe, Idle, Fenced, Recorded,
       Receipted, OnePlace, Active, At, durable, past, replay_volume_file_deletion
<1>6. CASE _replay_volume_file_deletion_owned
    BY <1>6, DeletionAssumption DEF IInv, TypeOK, Maybe, Unit, Idle, Fenced, Recorded,
       Receipted, OnePlace, Active, At, durable, past,
       _replay_volume_file_deletion_owned, Goto
<1>7. CASE _rename_noreplace
  <2>1. CASE native
      BY <1>7, <2>1, DeletionAssumption DEF IInv, TypeOK, Maybe, Unit, Place, Fenced,
         Recorded, Receipted, OnePlace, Active, At, durable, past, _rename_noreplace,
         Goto, Move
  <2>2. CASE ~native
      BY <1>7, <2>2, DeletionAssumption DEF IInv, TypeOK, Maybe, Unit, Place, Fenced,
         Recorded, Receipted, OnePlace, Active, At, durable, past, _rename_noreplace,
         Goto, Move
  <2> QED BY <2>1, <2>2
<1>8. CASE Tombstone
    BY <1>8, DeletionAssumption DEF IInv, TypeOK, Maybe, Idle, Fenced, Recorded,
       Receipted, OnePlace, Active, At, durable, past, Tombstone
<1>9. CASE Allocate
    BY <1>9, DeletionAssumption DEF IInv, TypeOK, Maybe, NoCarrier, Fenced, Recorded,
       Receipted, OnePlace, Active, At, durable, past, Allocate, Private, RecordOnly
<1>10. CASE Take
    BY <1>10, DeletionAssumption DEF IInv, TypeOK, Maybe, Carrier, Origin, Place,
       Fenced, Recorded, Receipted, OnePlace, Active, At, durable, past, Take, Private,
       DiskOnly, Move
<1>11. CASE Claimed
    BY <1>11, DeletionAssumption DEF IInv, TypeOK, Maybe, Fenced, Recorded, Receipted,
       OnePlace, Active, At, durable, past, Claimed, Private, RecordOnly, _store_carrier
<1>12. CASE Restoring
    BY <1>12, DeletionAssumption DEF IInv, TypeOK, Maybe, Fenced, Recorded, Receipted,
       OnePlace, Active, At, durable, past, Restoring, Private, RecordOnly,
       _store_carrier, Matches
<1>13. CASE Link
    BY <1>13, DeletionAssumption DEF IInv, TypeOK, Maybe, Fenced, Recorded, Receipted,
       OnePlace, Active, At, durable, past, Link, Private, DiskOnly, Goto
<1>14. CASE Receipt
    BY <1>14, DeletionAssumption DEF IInv, TypeOK, Maybe, Fenced, Recorded, Receipted,
       OnePlace, Active, At, durable, past, Receipt, RecordOnly, Goto
<1>15. CASE Discarding
    BY <1>15, DeletionAssumption DEF IInv, TypeOK, Maybe, Fenced, Recorded, Receipted,
       OnePlace, Active, At, durable, past, Discarding, Private, RecordOnly,
       _store_carrier, Matches, MayDiscard
<1>16. CASE ResumeDiscard
    BY <1>16, DeletionAssumption DEF IInv, TypeOK, Maybe, Idle, Fenced, Recorded,
       Receipted, OnePlace, Active, At, durable, past, ResumeDiscard, Private
<1>17. CASE discard_private_regular
    BY <1>17, DeletionAssumption DEF IInv, TypeOK, Maybe, Fenced, Recorded, Receipted,
       OnePlace, Active, At, durable, past, discard_private_regular, Private, DiskOnly,
       Expected
<1>18. CASE Discarded
    BY <1>18, DeletionAssumption DEF IInv, TypeOK, Maybe, Fenced, Recorded, Receipted,
       OnePlace, Active, At, durable, past, Discarded, Private, RecordOnly,
       _store_carrier
<1>19. CASE gc_discarded_carrier
    BY <1>19, DeletionAssumption DEF IInv, TypeOK, Maybe, Idle, Fenced, Recorded,
       Receipted, OnePlace, Active, At, durable, past, gc_discarded_carrier, Private,
       Goto
<1>20. CASE _complete_journal
    BY <1>20, DeletionAssumption DEF IInv, TypeOK, Maybe, Idle, Fenced, Recorded,
       Receipted, OnePlace, Active, At, durable, past, _complete_journal
<1>21. CASE _record_blocked
    BY <1>21, DeletionAssumption DEF IInv, TypeOK, Maybe, Idle, Fenced, Recorded,
       Receipted, OnePlace, Active, At, durable, past, _record_blocked
<1>22. CASE Interrupt
    BY <1>22, DeletionAssumption DEF IInv, TypeOK, Maybe, Idle, Fenced, Recorded,
       Receipted, OnePlace, Active, At, durable, past, Interrupt
<1>23. CASE claim_import_queue_row
    BY <1>23, DeletionAssumption DEF IInv, TypeOK, Maybe, Fenced, Recorded, Receipted,
       OnePlace, Active, At, durable, past, claim_import_queue_row
<1>24. CASE _commit_import
    BY <1>24, DeletionAssumption DEF IInv, TypeOK, Maybe, Fenced, Recorded, Receipted,
       OnePlace, Active, At, durable, past, _commit_import
<1>25. CASE AbortImport
    BY <1>25, DeletionAssumption DEF IInv, TypeOK, Maybe, Fenced, Recorded, Receipted,
       OnePlace, Active, At, durable, past, AbortImport
<1>26. CASE Grab
    BY <1>26, DeletionAssumption DEF IInv, TypeOK, Maybe, Fenced, Recorded, Receipted,
       OnePlace, Active, At, durable, past, Grab
<1>27. ASSUME NEW f \in File, publish_publication(f) PROVE Recorded' /\ Receipted'
    BY <1>27, DeletionAssumption DEF IInv, TypeOK, Maybe, Fenced, Recorded, Receipted,
       OnePlace, Active, At, durable, past, publish_publication, Fresh
<1>28. ASSUME NEW l \in {"target", "claim"}, NEW c \in Maybe, Foreign(l, c)
      PROVE  Recorded' /\ Receipted'
    BY <1>28, DeletionAssumption DEF IInv, TypeOK, Maybe, Fenced, Recorded, Receipted,
       OnePlace, Active, At, durable, past, Foreign, Fresh
<1> QED
  BY <1>1, <1>2, <1>3, <1>4, <1>5, <1>6, <1>7, <1>8, <1>9, <1>10, <1>11, <1>12, <1>13,
     <1>14, <1>15, <1>16, <1>17, <1>18, <1>19, <1>20, <1>21, <1>22, <1>23, <1>24, <1>25,
     <1>26, <1>27, <1>28 DEF Next, Reserve, Replay, _replay_private_claim, Import

\* Where the files are.
LEMMA KeepsPlaces ==
  ASSUME IInv, Next
  PROVE  OnePlace' /\ Removed'
<1>1. CASE reserve_volume_file_deletion
    BY <1>1, DeletionAssumption DEF IInv, TypeOK, Maybe, Idle, Fenced, Known, Recorded,
       Receipted, OnePlace, Removed, Nowhere, Active, At, Place, durable, past,
       reserve_volume_file_deletion
<1>2. CASE inspect_volume_file_deletion
    BY <1>2, DeletionAssumption DEF IInv, TypeOK, Maybe, Idle, Fenced, Known, Recorded,
       Receipted, OnePlace, Removed, Nowhere, Active, At, Place, durable, past,
       inspect_volume_file_deletion
<1>3. CASE _reserve_volume_file_deletion_owned
    BY <1>3, DeletionAssumption DEF IInv, TypeOK, Maybe, Idle, NoCarrier, Fenced, Known,
       Recorded, Receipted, OnePlace, Removed, Nowhere, Active, At, Place, durable,
       past, _reserve_volume_file_deletion_owned, Reservable, competing_for_series
<1>4. CASE ReservationRefused
    BY <1>4, DeletionAssumption DEF IInv, TypeOK, Maybe, Idle, Fenced, Known, Recorded,
       Receipted, OnePlace, Removed, Nowhere, Active, At, Place, durable, past,
       ReservationRefused
<1>5. CASE replay_volume_file_deletion
    BY <1>5, DeletionAssumption DEF IInv, TypeOK, Maybe, Idle, Fenced, Known, Recorded,
       Receipted, OnePlace, Removed, Nowhere, Active, At, Place, durable, past,
       replay_volume_file_deletion
<1>6. CASE _replay_volume_file_deletion_owned
    BY <1>6, DeletionAssumption DEF IInv, TypeOK, Maybe, Unit, Idle, Fenced, Known,
       Recorded, Receipted, OnePlace, Removed, Nowhere, Active, At, Place, durable,
       past, _replay_volume_file_deletion_owned, Goto
<1>7. CASE _rename_noreplace
    BY <1>7, DeletionAssumption DEF IInv, TypeOK, Maybe, Unit, Fenced, Known, Recorded,
       Receipted, OnePlace, Removed, Nowhere, Active, At, Place, durable, past,
       _rename_noreplace, Goto, Move
<1>8. CASE Tombstone
    BY <1>8, DeletionAssumption DEF IInv, TypeOK, Maybe, Idle, Fenced, Known, Recorded,
       Receipted, OnePlace, Removed, Nowhere, Active, At, Place, durable, past,
       Tombstone
<1>9. CASE Allocate
    BY <1>9, DeletionAssumption DEF IInv, TypeOK, Maybe, NoCarrier, Fenced, Known,
       Recorded, Receipted, OnePlace, Removed, Nowhere, Active, At, Place, durable,
       past, Allocate, Private, RecordOnly
<1>10. CASE Take
    BY <1>10, DeletionAssumption DEF IInv, TypeOK, Maybe, Carrier, Origin, Place,
       Fenced, Known, Recorded, Receipted, OnePlace, Removed, Nowhere, Active, At,
       durable, past, Take, Private, DiskOnly, Move
<1>11. CASE Claimed
    BY <1>11, DeletionAssumption DEF IInv, TypeOK, Maybe, Fenced, Known, Recorded,
       Receipted, OnePlace, Removed, Nowhere, Active, At, Place, durable, past, Claimed,
       Private, RecordOnly, _store_carrier
<1>12. CASE Restoring
    BY <1>12, DeletionAssumption DEF IInv, TypeOK, Maybe, Fenced, Known, Recorded,
       Receipted, OnePlace, Removed, Nowhere, Active, At, Place, durable, past,
       Restoring, Private, RecordOnly, _store_carrier, Matches
<1>13. CASE Link
    BY <1>13, DeletionAssumption DEF IInv, TypeOK, Maybe, Fenced, Known, Recorded,
       Receipted, OnePlace, Removed, Nowhere, Active, At, Place, durable, past, Link,
       Private, DiskOnly, Goto
<1>14. CASE Receipt
    BY <1>14, DeletionAssumption DEF IInv, TypeOK, Maybe, Fenced, Known, Recorded,
       Receipted, OnePlace, Removed, Nowhere, Active, At, Place, durable, past, Receipt,
       RecordOnly, Goto
<1>15. CASE Discarding
    BY <1>15, DeletionAssumption DEF IInv, TypeOK, Maybe, Fenced, Known, Recorded,
       Receipted, OnePlace, Removed, Nowhere, Active, At, Place, durable, past,
       Discarding, Private, RecordOnly, _store_carrier, Matches, MayDiscard
<1>16. CASE ResumeDiscard
    BY <1>16, DeletionAssumption DEF IInv, TypeOK, Maybe, Idle, Fenced, Known, Recorded,
       Receipted, OnePlace, Removed, Nowhere, Active, At, Place, durable, past,
       ResumeDiscard, Private
<1>17. CASE discard_private_regular
    BY <1>17, DeletionAssumption DEF IInv, TypeOK, Maybe, Fenced, Known, Recorded,
       Receipted, OnePlace, Removed, Nowhere, Active, At, Place, durable, past,
       discard_private_regular, Private, DiskOnly, Expected
<1>18. CASE Discarded
    BY <1>18, DeletionAssumption DEF IInv, TypeOK, Maybe, Fenced, Known, Recorded,
       Receipted, OnePlace, Removed, Nowhere, Active, At, Place, durable, past,
       Discarded, Private, RecordOnly, _store_carrier
<1>19. CASE gc_discarded_carrier
    BY <1>19, DeletionAssumption DEF IInv, TypeOK, Maybe, Idle, Fenced, Known, Recorded,
       Receipted, OnePlace, Removed, Nowhere, Active, At, Place, durable, past,
       gc_discarded_carrier, Private, Goto
<1>20. CASE _complete_journal
    BY <1>20, DeletionAssumption DEF IInv, TypeOK, Maybe, Idle, Fenced, Known, Recorded,
       Receipted, OnePlace, Removed, Nowhere, Active, At, Place, durable, past,
       _complete_journal
<1>21. CASE _record_blocked
    BY <1>21, DeletionAssumption DEF IInv, TypeOK, Maybe, Idle, Fenced, Known, Recorded,
       Receipted, OnePlace, Removed, Nowhere, Active, At, Place, durable, past,
       _record_blocked
<1>22. CASE Interrupt
    BY <1>22, DeletionAssumption DEF IInv, TypeOK, Maybe, Idle, Fenced, Known, Recorded,
       Receipted, OnePlace, Removed, Nowhere, Active, At, Place, durable, past,
       Interrupt
<1>23. CASE claim_import_queue_row
    BY <1>23, DeletionAssumption DEF IInv, TypeOK, Maybe, Fenced, Known, Recorded,
       Receipted, OnePlace, Removed, Nowhere, Active, At, Place, durable, past,
       claim_import_queue_row
<1>24. CASE _commit_import
    BY <1>24, DeletionAssumption DEF IInv, TypeOK, Maybe, Fenced, Known, Recorded,
       Receipted, OnePlace, Removed, Nowhere, Active, At, Place, durable, past,
       _commit_import
<1>25. CASE AbortImport
    BY <1>25, DeletionAssumption DEF IInv, TypeOK, Maybe, Fenced, Known, Recorded,
       Receipted, OnePlace, Removed, Nowhere, Active, At, Place, durable, past,
       AbortImport
<1>26. CASE Grab
    BY <1>26, DeletionAssumption DEF IInv, TypeOK, Maybe, Fenced, Known, Recorded,
       Receipted, OnePlace, Removed, Nowhere, Active, At, Place, durable, past, Grab
<1>27. ASSUME NEW f \in File, publish_publication(f) PROVE OnePlace' /\ Removed'
    BY <1>27, DeletionAssumption DEF IInv, TypeOK, Maybe, Fenced, Known, Recorded,
       Receipted, OnePlace, Removed, Nowhere, Active, At, Place, durable, past,
       publish_publication, Fresh
<1>28. ASSUME NEW l \in {"target", "claim"}, NEW c \in Maybe, Foreign(l, c)
      PROVE  OnePlace' /\ Removed'
    BY <1>28, DeletionAssumption DEF IInv, TypeOK, Maybe, Fenced, Known, Recorded,
       Receipted, OnePlace, Removed, Nowhere, Active, At, Place, durable, past, Foreign,
       Fresh
<1> QED
  BY <1>1, <1>2, <1>3, <1>4, <1>5, <1>6, <1>7, <1>8, <1>9, <1>10, <1>11, <1>12, <1>13,
     <1>14, <1>15, <1>16, <1>17, <1>18, <1>19, <1>20, <1>21, <1>22, <1>23, <1>24, <1>25,
     <1>26, <1>27, <1>28 DEF Next, Reserve, Replay, _replay_private_claim, Import

\* The three properties.
LEMMA KeepsSafety ==
  ASSUME IInv, Next
  PROVE  ForeignSafe' /\ RowTruth' /\ Settled'
<1>1. CASE reserve_volume_file_deletion
    BY <1>1, DeletionAssumption DEF IInv, TypeOK, Maybe, Idle, Fenced, Published, Known,
       Recorded, Receipted, OnePlace, Removed, Nowhere, ForeignSafe, RowTruth, Settled,
       Active, At, Place, durable, past, reserve_volume_file_deletion
<1>2. CASE inspect_volume_file_deletion
    BY <1>2, DeletionAssumption DEF IInv, TypeOK, Maybe, Idle, Fenced, Published, Known,
       Recorded, Receipted, OnePlace, Removed, Nowhere, ForeignSafe, RowTruth, Settled,
       Active, At, Place, durable, past, inspect_volume_file_deletion
<1>3. CASE _reserve_volume_file_deletion_owned
    BY <1>3, DeletionAssumption DEF IInv, TypeOK, Maybe, Idle, NoCarrier, Fenced,
       Published, Known, Recorded, Receipted, OnePlace, Removed, Nowhere, ForeignSafe,
       RowTruth, Settled, Active, At, Place, durable, past,
       _reserve_volume_file_deletion_owned, Reservable, competing_for_series
<1>4. CASE ReservationRefused
    BY <1>4, DeletionAssumption DEF IInv, TypeOK, Maybe, Idle, Fenced, Published, Known,
       Recorded, Receipted, OnePlace, Removed, Nowhere, ForeignSafe, RowTruth, Settled,
       Active, At, Place, durable, past, ReservationRefused
<1>5. CASE replay_volume_file_deletion
    BY <1>5, DeletionAssumption DEF IInv, TypeOK, Maybe, Idle, Fenced, Published, Known,
       Recorded, Receipted, OnePlace, Removed, Nowhere, ForeignSafe, RowTruth, Settled,
       Active, At, Place, durable, past, replay_volume_file_deletion
<1>6. CASE _replay_volume_file_deletion_owned
    BY <1>6, DeletionAssumption DEF IInv, TypeOK, Maybe, Unit, Idle, Fenced, Published,
       Known, Recorded, Receipted, OnePlace, Removed, Nowhere, ForeignSafe, RowTruth,
       Settled, Active, At, Place, durable, past, _replay_volume_file_deletion_owned,
       Goto
<1>7. CASE _rename_noreplace
    BY <1>7, DeletionAssumption DEF IInv, TypeOK, Maybe, Unit, Fenced, Published, Known,
       Recorded, Receipted, OnePlace, Removed, Nowhere, ForeignSafe, RowTruth, Settled,
       Active, At, Place, durable, past, _rename_noreplace, Goto, Move
<1>8. CASE Tombstone
    BY <1>8, DeletionAssumption DEF IInv, TypeOK, Maybe, Idle, Fenced, Published, Known,
       Recorded, Receipted, OnePlace, Removed, Nowhere, ForeignSafe, RowTruth, Settled,
       Active, At, Place, durable, past, Tombstone
<1>9. CASE Allocate
    BY <1>9, DeletionAssumption DEF IInv, TypeOK, Maybe, NoCarrier, Fenced, Published,
       Known, Recorded, Receipted, OnePlace, Removed, Nowhere, ForeignSafe, RowTruth,
       Settled, Active, At, Place, durable, past, Allocate, Private, RecordOnly
<1>10. CASE Take
    BY <1>10, DeletionAssumption DEF IInv, TypeOK, Maybe, Carrier, Origin, Place,
       Fenced, Published, Known, Recorded, Receipted, OnePlace, Removed, Nowhere,
       ForeignSafe, RowTruth, Settled, Active, At, durable, past, Take, Private,
       DiskOnly, Move
<1>11. CASE Claimed
    BY <1>11, DeletionAssumption DEF IInv, TypeOK, Maybe, Fenced, Published, Known,
       Recorded, Receipted, OnePlace, Removed, Nowhere, ForeignSafe, RowTruth, Settled,
       Active, At, Place, durable, past, Claimed, Private, RecordOnly, _store_carrier
<1>12. CASE Restoring
    BY <1>12, DeletionAssumption DEF IInv, TypeOK, Maybe, Fenced, Published, Known,
       Recorded, Receipted, OnePlace, Removed, Nowhere, ForeignSafe, RowTruth, Settled,
       Active, At, Place, durable, past, Restoring, Private, RecordOnly, _store_carrier,
       Matches
<1>13. CASE Link
    BY <1>13, DeletionAssumption DEF IInv, TypeOK, Maybe, Fenced, Published, Known,
       Recorded, Receipted, OnePlace, Removed, Nowhere, ForeignSafe, RowTruth, Settled,
       Active, At, Place, durable, past, Link, Private, DiskOnly, Goto
<1>14. CASE Receipt
    BY <1>14, DeletionAssumption DEF IInv, TypeOK, Maybe, Fenced, Published, Known,
       Recorded, Receipted, OnePlace, Removed, Nowhere, ForeignSafe, RowTruth, Settled,
       Active, At, Place, durable, past, Receipt, RecordOnly, Goto
<1>15. CASE Discarding
    BY <1>15, DeletionAssumption DEF IInv, TypeOK, Maybe, Fenced, Published, Known,
       Recorded, Receipted, OnePlace, Removed, Nowhere, ForeignSafe, RowTruth, Settled,
       Active, At, Place, durable, past, Discarding, Private, RecordOnly,
       _store_carrier, Matches, MayDiscard
<1>16. CASE ResumeDiscard
    BY <1>16, DeletionAssumption DEF IInv, TypeOK, Maybe, Idle, Fenced, Published,
       Known, Recorded, Receipted, OnePlace, Removed, Nowhere, ForeignSafe, RowTruth,
       Settled, Active, At, Place, durable, past, ResumeDiscard, Private
<1>17. CASE discard_private_regular
    BY <1>17, DeletionAssumption DEF IInv, TypeOK, Maybe, Fenced, Published, Known,
       Recorded, Receipted, OnePlace, Removed, Nowhere, ForeignSafe, RowTruth, Settled,
       Active, At, Place, durable, past, discard_private_regular, Private, DiskOnly,
       Expected
<1>18. CASE Discarded
    BY <1>18, DeletionAssumption DEF IInv, TypeOK, Maybe, Fenced, Published, Known,
       Recorded, Receipted, OnePlace, Removed, Nowhere, ForeignSafe, RowTruth, Settled,
       Active, At, Place, durable, past, Discarded, Private, RecordOnly, _store_carrier
<1>19. CASE gc_discarded_carrier
    BY <1>19, DeletionAssumption DEF IInv, TypeOK, Maybe, Idle, Fenced, Published,
       Known, Recorded, Receipted, OnePlace, Removed, Nowhere, ForeignSafe, RowTruth,
       Settled, Active, At, Place, durable, past, gc_discarded_carrier, Private, Goto
<1>20. CASE _complete_journal
    BY <1>20, DeletionAssumption DEF IInv, TypeOK, Maybe, Idle, Fenced, Published,
       Known, Recorded, Receipted, OnePlace, Removed, Nowhere, ForeignSafe, RowTruth,
       Settled, Active, At, Place, durable, past, _complete_journal
<1>21. CASE _record_blocked
    BY <1>21, DeletionAssumption DEF IInv, TypeOK, Maybe, Idle, Fenced, Published,
       Known, Recorded, Receipted, OnePlace, Removed, Nowhere, ForeignSafe, RowTruth,
       Settled, Active, At, Place, durable, past, _record_blocked
<1>22. CASE Interrupt
    BY <1>22, DeletionAssumption DEF IInv, TypeOK, Maybe, Idle, Fenced, Published,
       Known, Recorded, Receipted, OnePlace, Removed, Nowhere, ForeignSafe, RowTruth,
       Settled, Active, At, Place, durable, past, Interrupt
<1>23. CASE claim_import_queue_row
    BY <1>23, DeletionAssumption DEF IInv, TypeOK, Maybe, Fenced, Published, Known,
       Recorded, Receipted, OnePlace, Removed, Nowhere, ForeignSafe, RowTruth, Settled,
       Active, At, Place, durable, past, claim_import_queue_row
<1>24. CASE _commit_import
    BY <1>24, DeletionAssumption DEF IInv, TypeOK, Maybe, Fenced, Published, Known,
       Recorded, Receipted, OnePlace, Removed, Nowhere, ForeignSafe, RowTruth, Settled,
       Active, At, Place, durable, past, _commit_import
<1>25. CASE AbortImport
    BY <1>25, DeletionAssumption DEF IInv, TypeOK, Maybe, Fenced, Published, Known,
       Recorded, Receipted, OnePlace, Removed, Nowhere, ForeignSafe, RowTruth, Settled,
       Active, At, Place, durable, past, AbortImport
<1>26. CASE Grab
    BY <1>26, DeletionAssumption DEF IInv, TypeOK, Maybe, Fenced, Published, Known,
       Recorded, Receipted, OnePlace, Removed, Nowhere, ForeignSafe, RowTruth, Settled,
       Active, At, Place, durable, past, Grab
<1>27. ASSUME NEW f \in File, publish_publication(f) PROVE ForeignSafe' /\ RowTruth' /\ Settled'
    BY <1>27, DeletionAssumption DEF IInv, TypeOK, Maybe, Fenced, Published, Known,
       Recorded, Receipted, OnePlace, Removed, Nowhere, ForeignSafe, RowTruth, Settled,
       Active, At, Place, durable, past, publish_publication, Fresh
<1>28. ASSUME NEW l \in {"target", "claim"}, NEW c \in Maybe, Foreign(l, c)
      PROVE  ForeignSafe' /\ RowTruth' /\ Settled'
    BY <1>28, DeletionAssumption DEF IInv, TypeOK, Maybe, Fenced, Published, Known,
       Recorded, Receipted, OnePlace, Removed, Nowhere, ForeignSafe, RowTruth, Settled,
       Active, At, Place, durable, past, Foreign, Fresh
<1> QED
  BY <1>1, <1>2, <1>3, <1>4, <1>5, <1>6, <1>7, <1>8, <1>9, <1>10, <1>11, <1>12, <1>13,
     <1>14, <1>15, <1>16, <1>17, <1>18, <1>19, <1>20, <1>21, <1>22, <1>23, <1>24, <1>25,
     <1>26, <1>27, <1>28 DEF Next, Reserve, Replay, _replay_private_claim, Import

-----------------------------------------------------------------------------
(* The theorems.                                                           *)

\* The start: one imported file under its public name.
LEMMA InitIInv == ASSUME Init PROVE IInv
<1>1. TypeOK
  BY Rests, DeletionAssumption DEF Init, TypeOK, NoJournal, Maybe, Place, Row
<1>2. Fenced /\ Published /\ Known /\ ForeignSafe /\ RowTruth /\ Settled
  BY DeletionAssumption DEF Init, Fenced, Published, Known, ForeignSafe, RowTruth, Settled,
     Active, At, Place, NoJournal, Idle
<1>3. Recorded /\ Receipted /\ OnePlace /\ Removed
  BY DeletionAssumption DEF Init, Recorded, Receipted, OnePlace, Removed, Nowhere,
     Active, At, Place, NoJournal, NoCarrier, Idle
<1> QED BY <1>1, <1>2, <1>3 DEF IInv

\* A step that changes nothing keeps the invariant.
LEMMA StutterIInv == ASSUME IInv, UNCHANGED vars PROVE IInv'
BY DEF IInv, vars, durable, past, TypeOK, Fenced, Published, Known, Recorded, Receipted,
   OnePlace, Removed, Nowhere, ForeignSafe, RowTruth, Settled, Active, At

\* The inductive invariant of the deletion protocol holds in every state.
THEOREM DeletionInvariant == Spec => []IInv
<1>1. Init => IInv
  BY InitIInv
<1>2. IInv /\ [Next]_vars => IInv'
  BY KeepsType, KeepsFence, KeepsCarrier, KeepsPlaces, KeepsSafety, StutterIInv DEF IInv
<1> QED BY <1>1, <1>2, PTL DEF Spec

\* However the units are interrupted and whatever others do to the folder, a
\* deletion never loses a file that no journal names.
THEOREM DeletionForeignSafe == Spec => []ForeignSafe
<1>1. IInv => ForeignSafe
  BY DEF IInv
<1> QED BY <1>1, DeletionInvariant, PTL

\* The fence between deletions and imports keeps rows and files together.
THEOREM DeletionRowTruth == Spec => []RowTruth
<1>1. IInv => RowTruth
  BY DEF IInv
<1> QED BY <1>1, DeletionInvariant, PTL

\* A completed journal has removed its own file and left nothing behind.
THEOREM DeletionSettled == Spec => []Settled
<1>1. IInv => Settled
  BY DEF IInv
<1> QED BY <1>1, DeletionInvariant, PTL
=============================================================================
