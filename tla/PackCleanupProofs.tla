-------------------------- MODULE PackCleanupProofs --------------------------
(***************************************************************************)
(* Proofs, for any number of stops and of foreign changes, that a cleanup  *)
(* never loses, leaks or removes the wrong pack directory.                 *)
(*                                                                         *)
(* Every step of a unit relies on what an earlier step of the same unit,   *)
(* or of one that stopped, left in the journal and on disk.  AtStep states *)
(* that knowledge for each program point; the other parts relate journal,  *)
(* claim and disk at all times, so that they also hold where a unit stops. *)
(***************************************************************************)
EXTENDS PackCleanup, TLAPS

\* the points from the reservation of a download to the end of its attachment
BuildPc == {"scan", "create", "allocate", "mkdir", "prove", "pack", "begin",
            "begin_plain", "insert", "attach", "rename", "remove", "rmtree_remove",
            "emptied_remove", "release"}
\* the points that work on a reservation
ResPc == BuildPc \cup
         {"ready", "commit", "recheck", "finish", "promote", "abandoned", "terminal",
          "rmtree_abandoned", "rmtree_terminal", "emptied_abandoned",
          "emptied_terminal", "complete", "spend", "requeue", "stale", "capture",
          "intend", "detach", "captured", "record"}

\* At most one directory is the pack, and only the canonical name and what is
\* captured from it can be foreign.
OnePack ==
    /\ \A p, s \in Place : fs[p] = "ours" /\ fs[s] = "ours" => p = s
    /\ fs["placement"] # "foreign"

\* The journal names the private carrier, what it proves, and the claim.
Journaled ==
    /\ fs["placement"] = "ours" => res.private \/ res.gap \/ res.canon = "placement"
    /\ res.phase = "null" => res.carrier = "none"
    /\ holder = "none" <=> claim = "none"
    /\ holder = "res" => Reserved /\ res.carrier = "none" /\ res.phase = "cleaning"
    /\ holder = "tomb" /\ Reserved => claim = "discarded"
    /\ claim \in {"claimed", "discarding", "discarded"} =>
          fs["canonical"] # "ours" /\ fs["placement"] # "ours"
    /\ claim = "discarded" => fs["claim"] = "none"

Blank == ~Reserved => res = NoRes

AtBuild ==
    /\ pc \in BuildPc => holder = "none" /\ fs["canonical"] # "ours"
    /\ pc \in {"scan", "create", "begin_plain", "insert", "allocate"} => res.carrier = "none"
    /\ pc \in {"allocate", "mkdir", "prove"} => res.phase = "building" /\ res.gap
    /\ pc \in {"mkdir", "prove"} => res.carrier = "allocated"
    /\ pc = "mkdir" => fs["placement"] = "none"
    /\ pc \in {"scan", "create", "allocate", "mkdir", "prove", "pack", "begin",
              "begin_plain", "insert", "attach"} => res.canon = "none"
    /\ pc = "rename" => res.canon = "canonical"
    /\ pc \in {"ready", "commit"} => holder = "none"
    /\ pc = "ready" => fs["placement"] = "none"
    /\ pc \in BuildPc => ~res.spent
AtDiscard ==
    /\ pc \in {"rmtree_remove", "rmtree_abandoned", "rmtree_terminal"} =>
          res.carrier = "discarding"
    /\ pc \in {"emptied_remove", "emptied_abandoned", "emptied_terminal"} =>
          res.carrier \in {"allocated", "discarding"} /\ fs["placement"] = "none"
    /\ pc \in {"rmtree_abandoned", "emptied_abandoned", "complete"} =>
          fs["canonical"] # "ours" /\ holder # "res"
    /\ pc = "complete" => res.carrier \in {"none", "discarded"}
    /\ pc \in {"rmtree_terminal", "emptied_terminal", "spend"} => res.canon = "placement"
    /\ pc = "spend" => res.carrier = "discarded"
AtClaim ==
    /\ pc = "capture" => holder = "none" /\ res.carrier = "none"
    /\ pc \in {"intend", "detach", "captured", "record"} => holder = "res"
    /\ pc = "intend" => claim = "allocated"
    /\ pc \in {"detach", "captured"} => claim = "claiming"
    /\ pc \in {"discard", "rmtree", "emptied"} => holder # "none"
    /\ pc = "rmtree" => fs["claim"] = "ours" /\ claim = "discarding"
    /\ pc = "emptied" => fs["claim"] = "none" /\ claim \in {"discarding", "discarded"}
    /\ pc = "forget" => holder = "tomb" /\ claim = "discarded"
    /\ pc = "acquire" => holder # "tomb"
AtStep == (pc \in ResPc => Reserved) /\ AtBuild /\ AtDiscard /\ AtClaim

\* A row that exists has no publication, and none is there while it is made.
RowOrPublication ==
    /\ row # "none" => pub = "none"
    /\ pc = "reserve" => job = "queue"
    /\ pc \in BuildPc \cup {"ready", "commit"} => job = "build"
    /\ job = "queue" \/ pc \in BuildPc \cup {"ready", "commit"} => row = "none" /\ pub = "none"
\* What an attempt has admitted stays attached, and only the steps of a recovery
\* pass that do not touch it run meanwhile.
Admitted ==
    admitted =>
        /\ row = "importing" \/ pub = "active"
        /\ Reserved /\ res.linked /\ res.purpose = "queueing" /\ res.phase = "attached"
        /\ res.canon # "none" /\ holder = "none"
        /\ pc \in {"idle", "recover", "tombstones", "stale"}
        /\ pc # "idle" => job = "recover"
        /\ foreign = 0 => fs[res.canon] = "ours"

IInv == TypeOK /\ OnePack /\ NoOrphanPack /\ Journaled /\ Blank /\ AtStep
        /\ RowOrPublication /\ Admitted

LEMMA NoResTyped == NoRes \in Reservation
  BY DEF NoRes, Reservation, Carrier, Phase

LEMMA FreshTyped ==
  ASSUME NEW purpose \in {"queueing", "cleanup"}, NEW linked \in BOOLEAN
  PROVE  FreshReservation(purpose, linked) \in Reservation
  BY DEF FreshReservation, Reservation, Carrier, Phase

-----------------------------------------------------------------------------
(* The steps *)

USE DEF IInv, Save, Go, Idle, disk, consumer, env

LEMMA StartQueueStep ==
  ASSUME IInv, StartQueue PROVE IInv'
  <1>1. TypeOK'
    BY DEF StartQueue, TypeOK
  <1>2. OnePack' /\ NoOrphanPack'
    BY DEF StartQueue, OnePack, NoOrphanPack, Reserved
  <1>3. Journaled' /\ Blank'
    BY DEF StartQueue, Journaled, Blank, Reserved
  <1>4. (pc \in ResPc => Reserved)' /\ AtBuild'
    BY DEF StartQueue, AtStep, AtBuild, ResPc, BuildPc, Reserved
  <1>5. AtDiscard'
    BY DEF StartQueue, AtStep, AtDiscard
  <1>6. AtClaim'
    BY DEF StartQueue, AtStep, AtClaim
  <1>7. RowOrPublication'
    BY DEF StartQueue, RowOrPublication, BuildPc
  <1>8. Admitted'
    BY DEF StartQueue, Admitted
  <1>q. QED
    BY <1>1, <1>2, <1>3, <1>4, <1>5, <1>6, <1>7, <1>8 DEF AtStep

LEMMA StartCleanupStep ==
  ASSUME IInv, StartCleanup PROVE IInv'
  <1>1. TypeOK'
    BY DEF StartCleanup, TypeOK
  <1>2. OnePack' /\ NoOrphanPack'
    BY DEF StartCleanup, OnePack, NoOrphanPack, Reserved
  <1>3. Journaled' /\ Blank'
    BY DEF StartCleanup, Journaled, Blank, Reserved
  <1>4. (pc \in ResPc => Reserved)' /\ AtBuild'
    BY DEF StartCleanup, AtStep, AtBuild, ResPc, BuildPc, Reserved
  <1>5. AtDiscard'
    BY DEF StartCleanup, AtStep, AtDiscard
  <1>6. AtClaim'
    BY DEF StartCleanup, AtStep, AtClaim
  <1>7. RowOrPublication'
    BY DEF StartCleanup, RowOrPublication, BuildPc
  <1>8. Admitted'
    BY DEF StartCleanup, Admitted, Reserved, RowOrPublication, TypeOK,
       Reservation, BuildPc
  <1>q. QED
    BY <1>1, <1>2, <1>3, <1>4, <1>5, <1>6, <1>7, <1>8 DEF AtStep

LEMMA StartRecoveryStep ==
  ASSUME IInv, StartRecovery PROVE IInv'
  <1>1. TypeOK'
    BY DEF StartRecovery, Recoverable, Reserved, TypeOK
  <1>2. OnePack' /\ NoOrphanPack'
    BY DEF StartRecovery, Recoverable, Reserved, OnePack, NoOrphanPack
  <1>3. Journaled' /\ Blank'
    BY DEF StartRecovery, Recoverable, Reserved, Journaled, Blank
  <1>4. (pc \in ResPc => Reserved)' /\ AtBuild'
    BY DEF StartRecovery, Recoverable, Reserved, AtStep, AtBuild, ResPc, BuildPc
  <1>5. AtDiscard'
    BY DEF StartRecovery, Recoverable, Reserved, AtStep, AtDiscard
  <1>6. AtClaim'
    BY DEF StartRecovery, Recoverable, Reserved, AtStep, AtClaim
  <1>7. RowOrPublication'
    BY DEF StartRecovery, Recoverable, Reserved, RowOrPublication, BuildPc
  <1>8. Admitted'
    BY DEF StartRecovery, Recoverable, Reserved, Admitted
  <1>q. QED
    BY <1>1, <1>2, <1>3, <1>4, <1>5, <1>6, <1>7, <1>8 DEF AtStep

LEMMA ReservePackQueueCreationStep ==
  ASSUME IInv, ReservePackQueueCreation PROVE IInv'
  <1>1. TypeOK'
    <2>1. res' \in Reservation
      BY NoResTyped, FreshTyped DEF ReservePackQueueCreation, TypeOK
    <2>q. QED
      BY <2>1 DEF ReservePackQueueCreation, FreshReservation,
         TypeOK, Carrier, Place
  <1>2. OnePack' /\ NoOrphanPack'
    BY DEF ReservePackQueueCreation, FreshReservation, OnePack, NoOrphanPack,
       Reserved
  <1>3. Journaled' /\ Blank'
    BY DEF ReservePackQueueCreation, FreshReservation, Journaled, Blank, Reserved,
       NoRes, TypeOK, Reservation
  <1>4. (pc \in ResPc => Reserved)' /\ AtBuild'
    BY DEF ReservePackQueueCreation, FreshReservation, AtStep, AtBuild, ResPc,
       BuildPc, Reserved, TypeOK, Reservation, Journaled, NoOrphanPack, OnePack
  <1>5. AtDiscard'
    BY DEF ReservePackQueueCreation, FreshReservation, AtStep, AtDiscard
  <1>6. AtClaim'
    BY DEF ReservePackQueueCreation, FreshReservation, AtStep, AtClaim
  <1>7. RowOrPublication'
    BY DEF ReservePackQueueCreation, FreshReservation, RowOrPublication, BuildPc
  <1>8. Admitted'
    BY DEF ReservePackQueueCreation, FreshReservation, Admitted
  <1>q. QED
    BY <1>1, <1>2, <1>3, <1>4, <1>5, <1>6, <1>7, <1>8 DEF AtStep

LEMMA PackImageDirectoriesStep ==
  ASSUME IInv, PackImageDirectories PROVE IInv'
  <1>1. TypeOK'
    BY DEF PackImageDirectories, Heartbeat, TypeOK
  <1>2. OnePack' /\ NoOrphanPack'
    BY DEF PackImageDirectories, Heartbeat, OnePack, NoOrphanPack, Reserved
  <1>3. Journaled' /\ Blank'
    BY DEF PackImageDirectories, Heartbeat, Journaled, Blank, Reserved
  <1>4. (pc \in ResPc => Reserved)' /\ AtBuild'
    BY DEF PackImageDirectories, Heartbeat, AtStep, AtBuild, ResPc, BuildPc,
       Reserved
  <1>5. AtDiscard'
    BY DEF PackImageDirectories, Heartbeat, AtStep, AtDiscard
  <1>6. AtClaim'
    BY DEF PackImageDirectories, Heartbeat, AtStep, AtClaim
  <1>7. RowOrPublication'
    BY DEF PackImageDirectories, Heartbeat, RowOrPublication, BuildPc
  <1>8. Admitted'
    BY DEF PackImageDirectories, Heartbeat, Admitted
  <1>q. QED
    BY <1>1, <1>2, <1>3, <1>4, <1>5, <1>6, <1>7, <1>8 DEF AtStep

LEMMA ExtractSplitRarsStep ==
  ASSUME IInv, ExtractSplitRars PROVE IInv'
  <1>1. TypeOK'
    BY DEF ExtractSplitRars, Heartbeat, TypeOK
  <1>2. OnePack' /\ NoOrphanPack'
    BY DEF ExtractSplitRars, Heartbeat, OnePack, NoOrphanPack, Reserved
  <1>3. Journaled' /\ Blank'
    BY DEF ExtractSplitRars, Heartbeat, Journaled, Blank, Reserved
  <1>4. (pc \in ResPc => Reserved)' /\ AtBuild'
    BY DEF ExtractSplitRars, Heartbeat, AtStep, AtBuild, ResPc, BuildPc, Reserved
  <1>5. AtDiscard'
    BY DEF ExtractSplitRars, Heartbeat, AtStep, AtDiscard
  <1>6. AtClaim'
    BY DEF ExtractSplitRars, Heartbeat, AtStep, AtClaim
  <1>7. RowOrPublication'
    BY DEF ExtractSplitRars, Heartbeat, RowOrPublication, BuildPc
  <1>8. Admitted'
    BY DEF ExtractSplitRars, Heartbeat, Admitted
  <1>q. QED
    BY <1>1, <1>2, <1>3, <1>4, <1>5, <1>6, <1>7, <1>8 DEF AtStep

LEMMA ScanPlainStep ==
  ASSUME IInv, ScanPlain PROVE IInv'
  <1>1. TypeOK'
    BY DEF ScanPlain, Heartbeat, TypeOK
  <1>2. OnePack' /\ NoOrphanPack'
    BY DEF ScanPlain, Heartbeat, OnePack, NoOrphanPack, Reserved
  <1>3. Journaled' /\ Blank'
    BY DEF ScanPlain, Heartbeat, Journaled, Blank, Reserved
  <1>4. (pc \in ResPc => Reserved)' /\ AtBuild'
    BY DEF ScanPlain, Heartbeat, AtStep, AtBuild, ResPc, BuildPc, Reserved
  <1>5. AtDiscard'
    BY DEF ScanPlain, Heartbeat, AtStep, AtDiscard
  <1>6. AtClaim'
    BY DEF ScanPlain, Heartbeat, AtStep, AtClaim
  <1>7. RowOrPublication'
    BY DEF ScanPlain, Heartbeat, RowOrPublication, BuildPc
  <1>8. Admitted'
    BY DEF ScanPlain, Heartbeat, Admitted
  <1>q. QED
    BY <1>1, <1>2, <1>3, <1>4, <1>5, <1>6, <1>7, <1>8 DEF AtStep

LEMMA SaveCreatingStep ==
  ASSUME IInv, SaveCreating PROVE IInv'
  <1>1. TypeOK'
    <2>1. res' \in Reservation
      BY DEF SaveCreating, TypeOK, Reservation, Carrier, Phase
    <2>q. QED
      BY <2>1 DEF SaveCreating, TypeOK, Carrier, Place
  <1>2. OnePack' /\ NoOrphanPack'
    BY DEF SaveCreating, OnePack, NoOrphanPack, Reserved
  <1>3. Journaled' /\ Blank'
    BY DEF SaveCreating, Journaled, Blank, Reserved, TypeOK, Reservation, AtStep,
       AtBuild, AtDiscard, ResPc, BuildPc
  <1>4. (pc \in ResPc => Reserved)' /\ AtBuild'
    BY DEF SaveCreating, AtStep, AtBuild, ResPc, BuildPc, Reserved
  <1>5. AtDiscard'
    BY DEF SaveCreating, AtStep, AtDiscard
  <1>6. AtClaim'
    BY DEF SaveCreating, AtStep, AtClaim
  <1>7. RowOrPublication'
    BY DEF SaveCreating, RowOrPublication, BuildPc
  <1>8. Admitted'
    BY DEF SaveCreating, Admitted
  <1>q. QED
    BY <1>1, <1>2, <1>3, <1>4, <1>5, <1>6, <1>7, <1>8 DEF AtStep

LEMMA SavePlacementCarrierStep ==
  ASSUME IInv, SavePlacementCarrier PROVE IInv'
  <1>1. TypeOK'
    <2>1. res' \in Reservation
      BY DEF SavePlacementCarrier, TypeOK, Reservation, Carrier, Phase
    <2>q. QED
      BY <2>1 DEF SavePlacementCarrier, TypeOK, Carrier, Place
  <1>2. OnePack' /\ NoOrphanPack'
    BY DEF SavePlacementCarrier, OnePack, NoOrphanPack, Reserved
  <1>3. Journaled' /\ Blank'
    BY DEF SavePlacementCarrier, Journaled, Blank, Reserved, TypeOK, Reservation,
       AtStep, AtBuild, AtDiscard, ResPc, BuildPc
  <1>4. (pc \in ResPc => Reserved)' /\ AtBuild'
    BY DEF SavePlacementCarrier, TypeOK, Reservation, NoRes, Reserved, OnePack,
       NoOrphanPack, Journaled, Blank, AtStep, AtBuild, AtDiscard, AtClaim, ResPc,
       BuildPc, Place, Carrier
  <1>5. AtDiscard'
    BY DEF SavePlacementCarrier, AtStep, AtDiscard
  <1>6. AtClaim'
    BY DEF SavePlacementCarrier, AtStep, AtClaim
  <1>7. RowOrPublication'
    BY DEF SavePlacementCarrier, RowOrPublication, BuildPc
  <1>8. Admitted'
    BY DEF SavePlacementCarrier, Admitted
  <1>q. QED
    BY <1>1, <1>2, <1>3, <1>4, <1>5, <1>6, <1>7, <1>8 DEF AtStep

LEMMA CreatePackDirectoryStep ==
  ASSUME IInv, CreatePackDirectory PROVE IInv'
  <1>1. TypeOK'
    BY DEF CreatePackDirectory, TypeOK
  <1>2. OnePack' /\ NoOrphanPack'
    BY DEF CreatePackDirectory, OnePack, NoOrphanPack, Reserved, TypeOK,
       Reservation, Place, AtStep, AtBuild, ResPc, BuildPc
  <1>3. Journaled' /\ Blank'
    BY DEF CreatePackDirectory, Journaled, Blank, Reserved, TypeOK, Reservation,
       AtStep, AtBuild, AtDiscard, ResPc, BuildPc
  <1>4. (pc \in ResPc => Reserved)' /\ AtBuild'
    BY DEF CreatePackDirectory, AtStep, AtBuild, ResPc, BuildPc, Reserved
  <1>5. AtDiscard'
    BY DEF CreatePackDirectory, AtStep, AtDiscard
  <1>6. AtClaim'
    BY DEF CreatePackDirectory, AtStep, AtClaim
  <1>7. RowOrPublication'
    BY DEF CreatePackDirectory, RowOrPublication, BuildPc
  <1>8. Admitted'
    BY DEF CreatePackDirectory, Admitted
  <1>q. QED
    BY <1>1, <1>2, <1>3, <1>4, <1>5, <1>6, <1>7, <1>8 DEF AtStep

LEMMA SavePrivateDirectoryStep ==
  ASSUME IInv, SavePrivateDirectory PROVE IInv'
  <1>1. TypeOK'
    <2>1. res' \in Reservation
      BY DEF SavePrivateDirectory, TypeOK, Reservation, Carrier, Phase
    <2>q. QED
      BY <2>1 DEF SavePrivateDirectory, TypeOK, Carrier, Place
  <1>2. OnePack' /\ NoOrphanPack'
    BY DEF SavePrivateDirectory, OnePack, NoOrphanPack, Reserved
  <1>3. Journaled' /\ Blank'
    BY DEF SavePrivateDirectory, Journaled, Blank, Reserved, TypeOK, Reservation,
       AtStep, AtBuild, AtDiscard, ResPc, BuildPc
  <1>4. (pc \in ResPc => Reserved)' /\ AtBuild'
    BY DEF SavePrivateDirectory, AtStep, AtBuild, ResPc, BuildPc, Reserved
  <1>5. AtDiscard'
    BY DEF SavePrivateDirectory, AtStep, AtDiscard
  <1>6. AtClaim'
    BY DEF SavePrivateDirectory, AtStep, AtClaim
  <1>7. RowOrPublication'
    BY DEF SavePrivateDirectory, RowOrPublication, BuildPc
  <1>8. Admitted'
    BY DEF SavePrivateDirectory, Admitted
  <1>q. QED
    BY <1>1, <1>2, <1>3, <1>4, <1>5, <1>6, <1>7, <1>8 DEF AtStep

LEMMA MapPackFilesStep ==
  ASSUME IInv, MapPackFiles PROVE IInv'
  <1>1. TypeOK'
    BY DEF MapPackFiles, Heartbeat, TypeOK
  <1>2. OnePack' /\ NoOrphanPack'
    BY DEF MapPackFiles, Heartbeat, OnePack, NoOrphanPack, Reserved
  <1>3. Journaled' /\ Blank'
    BY DEF MapPackFiles, Heartbeat, Journaled, Blank, Reserved
  <1>4. (pc \in ResPc => Reserved)' /\ AtBuild'
    BY DEF MapPackFiles, Heartbeat, AtStep, AtBuild, ResPc, BuildPc, Reserved
  <1>5. AtDiscard'
    BY DEF MapPackFiles, Heartbeat, AtStep, AtDiscard
  <1>6. AtClaim'
    BY DEF MapPackFiles, Heartbeat, AtStep, AtClaim
  <1>7. RowOrPublication'
    BY DEF MapPackFiles, Heartbeat, RowOrPublication, BuildPc
  <1>8. Admitted'
    BY DEF MapPackFiles, Heartbeat, Admitted
  <1>q. QED
    BY <1>1, <1>2, <1>3, <1>4, <1>5, <1>6, <1>7, <1>8 DEF AtStep

LEMMA BeginPackQueueAttachmentStep ==
  ASSUME IInv, BeginPackQueueAttachment PROVE IInv'
  <1>1. TypeOK'
    <2>1. res' \in Reservation
      BY DEF BeginPackQueueAttachment, TypeOK, Reservation, Carrier, Phase
    <2>q. QED
      BY <2>1 DEF BeginPackQueueAttachment, TypeOK, Carrier,
         Place
  <1>2. OnePack' /\ NoOrphanPack'
    BY DEF BeginPackQueueAttachment, OnePack, NoOrphanPack, Reserved, TypeOK,
       Reservation
  <1>3. Journaled' /\ Blank'
    BY DEF BeginPackQueueAttachment, Journaled, Blank, Reserved, NoRes, TypeOK,
       Reservation
  <1>4. (pc \in ResPc => Reserved)' /\ AtBuild'
    BY DEF BeginPackQueueAttachment, AtStep, AtBuild, ResPc, BuildPc, Reserved,
       TypeOK, Reservation
  <1>5. AtDiscard'
    BY DEF BeginPackQueueAttachment, AtStep, AtDiscard
  <1>6. AtClaim'
    BY DEF BeginPackQueueAttachment, AtStep, AtClaim
  <1>7. RowOrPublication'
    BY DEF BeginPackQueueAttachment, RowOrPublication, BuildPc
  <1>8. Admitted'
    BY DEF BeginPackQueueAttachment, Admitted
  <1>q. QED
    BY <1>1, <1>2, <1>3, <1>4, <1>5, <1>6, <1>7, <1>8 DEF AtStep

LEMMA InsertPlainQueueStep ==
  ASSUME IInv, InsertPlainQueue PROVE IInv'
  <1>1. TypeOK'
    <2>1. res' \in Reservation
      BY NoResTyped, FreshTyped DEF InsertPlainQueue, TypeOK, Reservation,
         Carrier, Phase
    <2>q. QED
      BY <2>1 DEF InsertPlainQueue, TypeOK, Carrier, Place
  <1>2. OnePack' /\ NoOrphanPack'
    BY DEF InsertPlainQueue, OnePack, NoOrphanPack, Reserved, TypeOK, Reservation,
       Place, AtStep, AtBuild, ResPc, BuildPc
  <1>3. Journaled' /\ Blank'
    BY DEF InsertPlainQueue, TypeOK, Reservation, NoRes, Reserved, OnePack,
       NoOrphanPack, Journaled, Blank, AtStep, AtBuild, AtDiscard, AtClaim, ResPc,
       BuildPc, Place, Carrier
  <1>4. (pc \in ResPc => Reserved)' /\ AtBuild'
    BY DEF InsertPlainQueue, AtStep, AtBuild, ResPc, BuildPc, Reserved
  <1>5. AtDiscard'
    BY DEF InsertPlainQueue, AtStep, AtDiscard
  <1>6. AtClaim'
    BY DEF InsertPlainQueue, AtStep, AtClaim
  <1>7. RowOrPublication'
    BY DEF InsertPlainQueue, RowOrPublication, BuildPc
  <1>8. Admitted'
    BY DEF InsertPlainQueue, Admitted
  <1>q. QED
    BY <1>1, <1>2, <1>3, <1>4, <1>5, <1>6, <1>7, <1>8 DEF AtStep

LEMMA SaveAttachingStep ==
  ASSUME IInv, SaveAttaching PROVE IInv'
  <1>1. TypeOK'
    <2>1. res' \in Reservation
      BY DEF SaveAttaching, TypeOK, Reservation, Carrier, Phase
    <2>q. QED
      BY <2>1 DEF SaveAttaching, TypeOK, Carrier, Place
  <1>2. OnePack' /\ NoOrphanPack'
    BY DEF SaveAttaching, OnePack, NoOrphanPack, Reserved, TypeOK, Reservation
  <1>3. Journaled' /\ Blank'
    BY DEF SaveAttaching, Journaled, Blank, Reserved, TypeOK, Reservation, AtStep,
       AtBuild, ResPc, BuildPc
  <1>4. (pc \in ResPc => Reserved)' /\ AtBuild'
    BY DEF SaveAttaching, AtStep, AtBuild, ResPc, BuildPc, Reserved, TypeOK,
       Reservation, Journaled, NoOrphanPack, OnePack
  <1>5. AtDiscard'
    BY DEF SaveAttaching, AtStep, AtDiscard
  <1>6. AtClaim'
    BY DEF SaveAttaching, AtStep, AtClaim
  <1>7. RowOrPublication'
    BY DEF SaveAttaching, RowOrPublication, BuildPc
  <1>8. Admitted'
    BY DEF SaveAttaching, Admitted
  <1>q. QED
    BY <1>1, <1>2, <1>3, <1>4, <1>5, <1>6, <1>7, <1>8 DEF AtStep

LEMMA RenameToCanonicalStep ==
  ASSUME IInv, RenameToCanonical PROVE IInv'
  <1>1. TypeOK'
    BY DEF RenameToCanonical, RenameNoreplace, TypeOK, Place
  <1>2. OnePack' /\ NoOrphanPack'
    BY DEF RenameToCanonical, RenameNoreplace, OnePack, NoOrphanPack, Reserved,
       TypeOK, Reservation, Place, AtStep, AtBuild, ResPc, BuildPc
  <1>3. Journaled' /\ Blank'
    BY DEF RenameToCanonical, RenameNoreplace, Journaled, Blank, Reserved, TypeOK,
       Reservation, NoOrphanPack, OnePack, Place, AtStep, AtClaim, AtDiscard,
       ResPc
  <1>4. (pc \in ResPc => Reserved)' /\ AtBuild'
    BY DEF RenameToCanonical, RenameNoreplace, TypeOK, Reservation, NoRes,
       Reserved, OnePack, NoOrphanPack, Journaled, Blank, AtStep, AtBuild,
       AtDiscard, AtClaim, ResPc, BuildPc, Place, Carrier
  <1>5. AtDiscard'
    BY DEF RenameToCanonical, RenameNoreplace, AtStep, AtDiscard
  <1>6. AtClaim'
    BY DEF RenameToCanonical, RenameNoreplace, AtStep, AtClaim
  <1>7. RowOrPublication'
    BY DEF RenameToCanonical, RenameNoreplace, RowOrPublication, BuildPc
  <1>8. Admitted'
    BY DEF RenameToCanonical, RenameNoreplace, Admitted
  <1>q. QED
    BY <1>1, <1>2, <1>3, <1>4, <1>5, <1>6, <1>7, <1>8 DEF AtStep

LEMMA KeepInPlacementStep ==
  ASSUME IInv, KeepInPlacement PROVE IInv'
  <1>1. TypeOK'
    <2>1. res' \in Reservation
      BY DEF KeepInPlacement, TypeOK, Reservation, Carrier, Phase
    <2>q. QED
      BY <2>1 DEF KeepInPlacement, TypeOK, Carrier, Place
  <1>2. OnePack' /\ NoOrphanPack'
    BY DEF KeepInPlacement, OnePack, NoOrphanPack, Reserved
  <1>3. Journaled' /\ Blank'
    BY DEF KeepInPlacement, Journaled, Blank, Reserved, TypeOK, Reservation,
       AtStep, AtBuild, AtDiscard, ResPc, BuildPc
  <1>4. (pc \in ResPc => Reserved)' /\ AtBuild'
    BY DEF KeepInPlacement, AtStep, AtBuild, ResPc, BuildPc, Reserved
  <1>5. AtDiscard'
    BY DEF KeepInPlacement, AtStep, AtDiscard
  <1>6. AtClaim'
    BY DEF KeepInPlacement, AtStep, AtClaim
  <1>7. RowOrPublication'
    BY DEF KeepInPlacement, RowOrPublication, BuildPc
  <1>8. Admitted'
    BY DEF KeepInPlacement, Admitted
  <1>q. QED
    BY <1>1, <1>2, <1>3, <1>4, <1>5, <1>6, <1>7, <1>8 DEF AtStep

LEMMA SaveReadyStep ==
  ASSUME IInv, SaveReady PROVE IInv'
  <1>1. TypeOK'
    <2>1. res' \in Reservation
      BY DEF SaveReady, TypeOK, Reservation, Carrier, Phase
    <2>q. QED
      BY <2>1 DEF SaveReady, TypeOK, Carrier, Place
  <1>2. OnePack' /\ NoOrphanPack'
    BY DEF SaveReady, OnePack, NoOrphanPack, Reserved, TypeOK, Reservation
  <1>3. Journaled' /\ Blank'
    BY DEF SaveReady, Journaled, Blank, Reserved, TypeOK, Reservation, AtStep,
       AtBuild, AtDiscard, ResPc, BuildPc
  <1>4. (pc \in ResPc => Reserved)' /\ AtBuild'
    BY DEF SaveReady, AtStep, AtBuild, ResPc, BuildPc, Reserved, TypeOK,
       Reservation
  <1>5. AtDiscard'
    BY DEF SaveReady, AtStep, AtDiscard
  <1>6. AtClaim'
    BY DEF SaveReady, AtStep, AtClaim
  <1>7. RowOrPublication'
    BY DEF SaveReady, RowOrPublication, BuildPc
  <1>8. Admitted'
    BY DEF SaveReady, Admitted
  <1>q. QED
    BY <1>1, <1>2, <1>3, <1>4, <1>5, <1>6, <1>7, <1>8 DEF AtStep

LEMMA CommitGeneratedQueueStep ==
  ASSUME IInv, CommitGeneratedQueue PROVE IInv'
  <1>1. TypeOK'
    <2>1. res' \in Reservation
      BY DEF CommitGeneratedQueue, TypeOK, Reservation, Phase
    <2>2. row' \in {row, "pending"} /\ gen' \in {gen, TRUE}
      BY DEF CommitGeneratedQueue
    <2>q. QED
      BY <2>1, <2>2 DEF CommitGeneratedQueue, TypeOK
  <1>2. OnePack' /\ NoOrphanPack'
    BY DEF CommitGeneratedQueue, DirectoryVerified, OnePack, NoOrphanPack,
       Reserved, TypeOK, Reservation
  <1>3. Journaled' /\ Blank'
    BY DEF CommitGeneratedQueue, DirectoryVerified, Journaled, Blank, Reserved,
       TypeOK, Reservation, AtStep, AtBuild, AtDiscard, ResPc, BuildPc
  <1>4. (pc \in ResPc => Reserved)' /\ AtBuild'
    BY DEF CommitGeneratedQueue, DirectoryVerified, AtStep, AtBuild, ResPc,
       BuildPc, Reserved, TypeOK, Reservation
  <1>5. AtDiscard'
    BY DEF CommitGeneratedQueue, DirectoryVerified, AtStep, AtDiscard
  <1>6. AtClaim'
    BY DEF CommitGeneratedQueue, DirectoryVerified, AtStep, AtClaim
  <1>7. RowOrPublication'
    BY DEF CommitGeneratedQueue, DirectoryVerified, RowOrPublication, BuildPc
  <1>8. Admitted'
    BY DEF CommitGeneratedQueue, DirectoryVerified, Admitted
  <1>q. QED
    BY <1>1, <1>2, <1>3, <1>4, <1>5, <1>6, <1>7, <1>8 DEF AtStep

LEMMA RecheckGeneratedQueueStep ==
  ASSUME IInv, RecheckGeneratedQueue PROVE IInv'
  <1>1. TypeOK'
    <2>1. res' \in Reservation
      <3>1. [res EXCEPT !.linked = FALSE, !.phase = "retained"] \in Reservation
        BY DEF TypeOK, Reservation, Phase
      <3>2. res' \in {res, [res EXCEPT !.linked = FALSE, !.phase = "retained"]}
        BY DEF RecheckGeneratedQueue, CancelGeneratedQueue
      <3>q. QED
        BY <3>1, <3>2 DEF TypeOK
    <2>2. row' \in {row, "none"} /\ gen' \in {gen, FALSE}
      BY DEF RecheckGeneratedQueue, CancelGeneratedQueue
    <2>3. job' \in {job, "none"}
      BY DEF RecheckGeneratedQueue
    <2>q. QED
      BY <2>1, <2>2, <2>3 DEF RecheckGeneratedQueue, TypeOK
  <1>2. OnePack' /\ NoOrphanPack'
    BY DEF RecheckGeneratedQueue, DirectoryVerified, SqlQueueAuthority,
       CancelGeneratedQueue, OnePack, NoOrphanPack, Reserved, TypeOK, Reservation
  <1>3. Journaled' /\ Blank'
    BY DEF RecheckGeneratedQueue, DirectoryVerified, SqlQueueAuthority,
       CancelGeneratedQueue, Journaled, Blank, Reserved, NoRes, TypeOK,
       Reservation
  <1>4. (pc \in ResPc => Reserved)' /\ AtBuild'
    BY DEF RecheckGeneratedQueue, DirectoryVerified, SqlQueueAuthority,
       CancelGeneratedQueue, AtStep, AtBuild, ResPc, BuildPc, Reserved
  <1>5. AtDiscard'
    BY DEF RecheckGeneratedQueue, DirectoryVerified, SqlQueueAuthority,
       CancelGeneratedQueue, AtStep, AtDiscard
  <1>6. AtClaim'
    BY DEF RecheckGeneratedQueue, DirectoryVerified, SqlQueueAuthority,
       CancelGeneratedQueue, AtStep, AtClaim
  <1>7. RowOrPublication'
    BY DEF RecheckGeneratedQueue, DirectoryVerified, SqlQueueAuthority,
       CancelGeneratedQueue, RowOrPublication, BuildPc
  <1>8. Admitted'
    BY DEF RecheckGeneratedQueue, DirectoryVerified, SqlQueueAuthority,
       CancelGeneratedQueue, Admitted
  <1>q. QED
    BY <1>1, <1>2, <1>3, <1>4, <1>5, <1>6, <1>7, <1>8 DEF AtStep

LEMMA DropEmptyPlacementStep ==
  ASSUME IInv, DropEmptyPlacement PROVE IInv'
  <1>1. TypeOK'
    <2>1. res' \in Reservation
      BY DEF DropEmptyPlacement, SqlQueueAuthority, End, TypeOK, Reservation,
         Carrier, Phase
    <2>q. QED
      BY <2>1 DEF DropEmptyPlacement, SqlQueueAuthority, End,
         TypeOK, Carrier, Place
  <1>2. OnePack' /\ NoOrphanPack'
    BY DEF DropEmptyPlacement, SqlQueueAuthority, End, OnePack, NoOrphanPack,
       Reserved, TypeOK, Reservation
  <1>3. Journaled' /\ Blank'
    BY DEF DropEmptyPlacement, SqlQueueAuthority, End, Journaled, Blank, Reserved,
       NoRes, TypeOK, Reservation
  <1>4. (pc \in ResPc => Reserved)' /\ AtBuild'
    BY DEF DropEmptyPlacement, SqlQueueAuthority, End, AtStep, AtBuild, ResPc,
       BuildPc, Reserved, TypeOK, Reservation
  <1>5. AtDiscard'
    BY DEF DropEmptyPlacement, SqlQueueAuthority, End, AtStep, AtDiscard
  <1>6. AtClaim'
    BY DEF DropEmptyPlacement, SqlQueueAuthority, End, AtStep, AtClaim
  <1>7. RowOrPublication'
    BY DEF DropEmptyPlacement, SqlQueueAuthority, End, RowOrPublication, BuildPc
  <1>8. Admitted'
    BY DEF DropEmptyPlacement, SqlQueueAuthority, End, Admitted
  <1>q. QED
    BY <1>1, <1>2, <1>3, <1>4, <1>5, <1>6, <1>7, <1>8 DEF AtStep

LEMMA PromoteGeneratedQueueStep ==
  ASSUME IInv, PromoteGeneratedQueue PROVE IInv'
  <1>1. TypeOK'
    <2>1. res' \in Reservation
      BY DEF PromoteGeneratedQueue, SqlQueueAuthority, End, TypeOK, Reservation,
         Carrier, Phase
    <2>q. QED
      BY <2>1 DEF PromoteGeneratedQueue, SqlQueueAuthority, End,
         TypeOK, Carrier, Place
  <1>2. OnePack' /\ NoOrphanPack'
    BY DEF PromoteGeneratedQueue, SqlQueueAuthority, End, OnePack, NoOrphanPack,
       Reserved, TypeOK, Reservation
  <1>3. Journaled' /\ Blank'
    BY DEF PromoteGeneratedQueue, SqlQueueAuthority, End, Journaled, Blank,
       Reserved, NoRes, TypeOK, Reservation
  <1>4. (pc \in ResPc => Reserved)' /\ AtBuild'
    BY DEF PromoteGeneratedQueue, SqlQueueAuthority, End, AtStep, AtBuild, ResPc,
       BuildPc, Reserved
  <1>5. AtDiscard'
    BY DEF PromoteGeneratedQueue, SqlQueueAuthority, End, AtStep, AtDiscard
  <1>6. AtClaim'
    BY DEF PromoteGeneratedQueue, SqlQueueAuthority, End, AtStep, AtClaim
  <1>7. RowOrPublication'
    BY DEF PromoteGeneratedQueue, SqlQueueAuthority, End, RowOrPublication,
       BuildPc
  <1>8. Admitted'
    BY DEF PromoteGeneratedQueue, SqlQueueAuthority, End, Admitted
  <1>q. QED
    BY <1>1, <1>2, <1>3, <1>4, <1>5, <1>6, <1>7, <1>8 DEF AtStep

LEMMA DiscardPlacementStep ==
  ASSUME IInv, DiscardPlacement PROVE IInv'
  <1>1. TypeOK'
    <2>1. res' \in Reservation
      BY DEF DiscardPlacement, Native, PlacementProven, Refuse, End, Rmtree,
         Emptied, TypeOK, Reservation, Carrier, Phase
    <2>q. QED
      BY <2>1 DEF DiscardPlacement, Native, PlacementProven,
         Refuse, End, Rmtree, Emptied, TypeOK, Carrier, Place
  <1>2. OnePack' /\ NoOrphanPack'
    BY DEF DiscardPlacement, Native, PlacementProven, Refuse, End, Rmtree,
       Emptied, OnePack, NoOrphanPack, Reserved, TypeOK, Reservation
  <1>3. Journaled' /\ Blank'
    BY DEF DiscardPlacement, Native, PlacementProven, Refuse, End, Rmtree,
       Emptied, Journaled, Blank, Reserved, NoRes, TypeOK, Reservation
  <1>4. (pc \in ResPc => Reserved)' /\ AtBuild'
    BY DEF DiscardPlacement, Native, PlacementProven, Refuse, End, Rmtree,
       Emptied, AtStep, AtBuild, ResPc, BuildPc, Reserved, TypeOK, Reservation
  <1>5. AtDiscard'
    BY DEF DiscardPlacement, Native, PlacementProven, Refuse, End, Rmtree,
       Emptied, TypeOK, Reservation, NoRes, Reserved, OnePack, NoOrphanPack,
       Journaled, Blank, AtStep, AtBuild, AtDiscard, AtClaim, ResPc, BuildPc,
       Place, Carrier
  <1>6. AtClaim'
    BY DEF DiscardPlacement, Native, PlacementProven, Refuse, End, Rmtree,
       Emptied, AtStep, AtClaim
  <1>7. RowOrPublication'
    BY DEF DiscardPlacement, Native, PlacementProven, Refuse, End, Rmtree,
       Emptied, RowOrPublication, BuildPc
  <1>8. Admitted'
    BY DEF DiscardPlacement, Native, PlacementProven, Refuse, End, Rmtree,
       Emptied, Admitted
  <1>q. QED
    BY <1>1, <1>2, <1>3, <1>4, <1>5, <1>6, <1>7, <1>8 DEF AtStep

LEMMA RemovePlacementStep ==
  ASSUME IInv, NEW unit \in {"remove", "abandoned", "terminal"}, RemovePlacement(unit) PROVE IInv'
  <1>1. TypeOK'
    BY DEF RemovePlacement, Rmtree, Emptied, TypeOK
  <1>2. OnePack' /\ NoOrphanPack'
    BY DEF RemovePlacement, Rmtree, Emptied, OnePack, NoOrphanPack, Reserved
  <1>3. Journaled' /\ Blank'
    BY DEF RemovePlacement, Rmtree, Emptied, Journaled, Blank, Reserved
  <1>4. (pc \in ResPc => Reserved)' /\ AtBuild'
    BY DEF RemovePlacement, Rmtree, Emptied, AtStep, AtBuild, ResPc, BuildPc,
       Reserved
  <1>5. AtDiscard'
    BY DEF RemovePlacement, Rmtree, Emptied, TypeOK, Reservation, NoRes, Reserved,
       OnePack, NoOrphanPack, Journaled, Blank, AtStep, AtBuild, AtDiscard,
       AtClaim, ResPc, BuildPc, Place, Carrier
  <1>6. AtClaim'
    BY DEF RemovePlacement, Rmtree, Emptied, AtStep, AtClaim
  <1>7. RowOrPublication'
    BY DEF RemovePlacement, Rmtree, Emptied, RowOrPublication, BuildPc
  <1>8. Admitted'
    BY DEF RemovePlacement, Rmtree, Emptied, Admitted
  <1>q. QED
    BY <1>1, <1>2, <1>3, <1>4, <1>5, <1>6, <1>7, <1>8 DEF AtStep

LEMMA SavePlacementDiscardedStep ==
  ASSUME IInv, NEW unit, NEW next,
         <<unit, next>> \in {<<"remove", "release">>, <<"abandoned", "complete">>,
                             <<"terminal", "spend">>}, SavePlacementDiscarded(unit, next) PROVE IInv'
  <1>1. TypeOK'
    <2>1. res' \in Reservation
      BY DEF SavePlacementDiscarded, Emptied, TypeOK, Reservation, Carrier,
         Phase
    <2>q. QED
      BY <2>1 DEF SavePlacementDiscarded, Emptied, TypeOK,
         Carrier, Place
  <1>2. OnePack' /\ NoOrphanPack'
    BY DEF SavePlacementDiscarded, Emptied, TypeOK, Reservation, NoRes, Reserved,
       OnePack, NoOrphanPack, Journaled, Blank, AtStep, AtBuild, AtDiscard,
       AtClaim, ResPc, BuildPc, Place, Carrier
  <1>3. Journaled' /\ Blank'
    BY DEF SavePlacementDiscarded, Emptied, Journaled, Blank, Reserved, TypeOK,
       Reservation, AtStep, AtBuild, AtDiscard, ResPc, BuildPc
  <1>4. (pc \in ResPc => Reserved)' /\ AtBuild'
    BY DEF SavePlacementDiscarded, Emptied, AtStep, AtBuild, ResPc, BuildPc,
       Reserved
  <1>5. AtDiscard'
    BY DEF SavePlacementDiscarded, Emptied, AtStep, AtDiscard
  <1>6. AtClaim'
    BY DEF SavePlacementDiscarded, Emptied, AtStep, AtClaim
  <1>7. RowOrPublication'
    BY DEF SavePlacementDiscarded, Emptied, RowOrPublication, BuildPc
  <1>8. Admitted'
    BY DEF SavePlacementDiscarded, Emptied, Admitted
  <1>q. QED
    BY <1>1, <1>2, <1>3, <1>4, <1>5, <1>6, <1>7, <1>8 DEF AtStep

LEMMA NothingToRemoveStep ==
  ASSUME IInv, NothingToRemove PROVE IInv'
  <1>1. TypeOK'
    BY DEF NothingToRemove, TypeOK
  <1>2. OnePack' /\ NoOrphanPack'
    BY DEF NothingToRemove, OnePack, NoOrphanPack, Reserved
  <1>3. Journaled' /\ Blank'
    BY DEF NothingToRemove, Journaled, Blank, Reserved
  <1>4. (pc \in ResPc => Reserved)' /\ AtBuild'
    BY DEF NothingToRemove, AtStep, AtBuild, ResPc, BuildPc, Reserved
  <1>5. AtDiscard'
    BY DEF NothingToRemove, AtStep, AtDiscard
  <1>6. AtClaim'
    BY DEF NothingToRemove, AtStep, AtClaim
  <1>7. RowOrPublication'
    BY DEF NothingToRemove, RowOrPublication, BuildPc
  <1>8. Admitted'
    BY DEF NothingToRemove, Admitted
  <1>q. QED
    BY <1>1, <1>2, <1>3, <1>4, <1>5, <1>6, <1>7, <1>8 DEF AtStep

LEMMA ReleasePackQueueCreationStep ==
  ASSUME IInv, ReleasePackQueueCreation PROVE IInv'
  <1>1. TypeOK'
    <2>1. res' \in Reservation
      BY NoResTyped, FreshTyped DEF ReleasePackQueueCreation, TypeOK,
         Reservation, Carrier, Phase
    <2>q. QED
      BY <2>1 DEF ReleasePackQueueCreation, TypeOK, Carrier,
         Place
  <1>2. OnePack' /\ NoOrphanPack'
    BY DEF ReleasePackQueueCreation, OnePack, NoOrphanPack, Reserved, TypeOK,
       Reservation, Place, AtStep, AtDiscard, AtClaim, Journaled, ResPc, Carrier
  <1>3. Journaled' /\ Blank'
    BY DEF ReleasePackQueueCreation, Journaled, Blank, Reserved, NoRes, TypeOK,
       Reservation
  <1>4. (pc \in ResPc => Reserved)' /\ AtBuild'
    BY DEF ReleasePackQueueCreation, AtStep, AtBuild, ResPc, BuildPc, Reserved
  <1>5. AtDiscard'
    BY DEF ReleasePackQueueCreation, AtStep, AtDiscard
  <1>6. AtClaim'
    BY DEF ReleasePackQueueCreation, AtStep, AtClaim
  <1>7. RowOrPublication'
    BY DEF ReleasePackQueueCreation, RowOrPublication, BuildPc
  <1>8. Admitted'
    BY DEF ReleasePackQueueCreation, Admitted
  <1>q. QED
    BY <1>1, <1>2, <1>3, <1>4, <1>5, <1>6, <1>7, <1>8 DEF AtStep

LEMMA ClaimExpiredReservationStep ==
  ASSUME IInv, ClaimExpiredReservation PROVE IInv'
  <1>1. TypeOK'
    <2>1. res' \in Reservation
      BY DEF ClaimExpiredReservation, Resume, Recoverable,
         TerminalCleanupEligible, TypeOK, Reservation, Carrier, Phase
    <2>q. QED
      BY <2>1 DEF ClaimExpiredReservation, Resume, Recoverable,
         TerminalCleanupEligible, TypeOK, Carrier, Place
  <1>2. OnePack' /\ NoOrphanPack'
    BY DEF ClaimExpiredReservation, Resume, Recoverable, TerminalCleanupEligible,
       OnePack, NoOrphanPack, Reserved, TypeOK, Reservation
  <1>3. Journaled' /\ Blank'
    BY DEF ClaimExpiredReservation, Resume, Recoverable, TerminalCleanupEligible,
       Journaled, Blank, Reserved, NoRes, TypeOK, Reservation
  <1>4. (pc \in ResPc => Reserved)' /\ AtBuild'
    BY DEF ClaimExpiredReservation, Resume, Recoverable, TerminalCleanupEligible,
       AtStep, AtBuild, ResPc, BuildPc, Reserved, TypeOK, Reservation
  <1>5. AtDiscard'
    BY DEF ClaimExpiredReservation, Resume, Recoverable, TerminalCleanupEligible,
       AtStep, AtDiscard
  <1>6. AtClaim'
    BY DEF ClaimExpiredReservation, Resume, Recoverable, TerminalCleanupEligible,
       AtStep, AtClaim
  <1>7. RowOrPublication'
    BY DEF ClaimExpiredReservation, Resume, Recoverable, TerminalCleanupEligible,
       RowOrPublication, BuildPc
  <1>8. Admitted'
    BY DEF ClaimExpiredReservation, Resume, Recoverable, TerminalCleanupEligible,
       Admitted, Reserved, TypeOK, Reservation
  <1>q. QED
    BY <1>1, <1>2, <1>3, <1>4, <1>5, <1>6, <1>7, <1>8 DEF AtStep

LEMMA RecoverQueuedStep ==
  ASSUME IInv, RecoverQueued PROVE IInv'
  <1>1. TypeOK'
    <2>1. res' \in Reservation
      <3>1. [res EXCEPT !.linked = FALSE, !.phase = "retained"] \in Reservation
        BY DEF TypeOK, Reservation, Phase
      <3>2. res' \in {res, [res EXCEPT !.linked = FALSE, !.phase = "retained"]}
        BY DEF RecoverQueued, CancelGeneratedQueue
      <3>q. QED
        BY <3>1, <3>2 DEF TypeOK
    <2>2. row' \in {row, "none"} /\ gen' \in {gen, FALSE}
      BY DEF RecoverQueued, CancelGeneratedQueue
    <2>3. job' \in {job, "none"}
      BY DEF RecoverQueued, End
    <2>q. QED
      BY <2>1, <2>2, <2>3 DEF RecoverQueued, TypeOK
  <1>2. OnePack' /\ NoOrphanPack'
    BY DEF RecoverQueued, SqlQueueAuthority, DirectoryVerified,
       CancelGeneratedQueue, End, OnePack, NoOrphanPack, Reserved, TypeOK,
       Reservation
  <1>3. Journaled' /\ Blank'
    BY DEF RecoverQueued, SqlQueueAuthority, DirectoryVerified,
       CancelGeneratedQueue, End, Journaled, Blank, Reserved, NoRes, TypeOK,
       Reservation
  <1>4. (pc \in ResPc => Reserved)' /\ AtBuild'
    BY DEF RecoverQueued, SqlQueueAuthority, DirectoryVerified,
       CancelGeneratedQueue, End, AtStep, AtBuild, ResPc, BuildPc, Reserved
  <1>5. AtDiscard'
    BY DEF RecoverQueued, SqlQueueAuthority, DirectoryVerified,
       CancelGeneratedQueue, End, AtStep, AtDiscard
  <1>6. AtClaim'
    BY DEF RecoverQueued, SqlQueueAuthority, DirectoryVerified,
       CancelGeneratedQueue, End, AtStep, AtClaim
  <1>7. RowOrPublication'
    BY DEF RecoverQueued, SqlQueueAuthority, DirectoryVerified,
       CancelGeneratedQueue, End, RowOrPublication, BuildPc
  <1>8. Admitted'
    BY DEF RecoverQueued, SqlQueueAuthority, DirectoryVerified,
       CancelGeneratedQueue, End, Admitted
  <1>q. QED
    BY <1>1, <1>2, <1>3, <1>4, <1>5, <1>6, <1>7, <1>8 DEF AtStep

LEMMA ReleaseStaleFenceStep ==
  ASSUME IInv, ReleaseStaleFence PROVE IInv'
  <1>1. TypeOK'
    <2>1. res' \in Reservation
      BY NoResTyped, FreshTyped DEF ReleaseStaleFence, End, TypeOK, Reservation,
         Carrier, Phase
    <2>q. QED
      BY <2>1 DEF ReleaseStaleFence, End, TypeOK, Carrier, Place
  <1>2. OnePack' /\ NoOrphanPack'
    BY DEF ReleaseStaleFence, End, OnePack, NoOrphanPack, Reserved, TypeOK,
       Reservation, Place, AtStep, AtDiscard, AtClaim, Journaled, ResPc, Carrier
  <1>3. Journaled' /\ Blank'
    BY DEF ReleaseStaleFence, End, TypeOK, Reservation, NoRes, Reserved, OnePack,
       NoOrphanPack, Journaled, Blank, AtStep, AtBuild, AtDiscard, AtClaim, ResPc,
       BuildPc, Place, Carrier
  <1>4. (pc \in ResPc => Reserved)' /\ AtBuild'
    BY DEF ReleaseStaleFence, End, AtStep, AtBuild, ResPc, BuildPc, Reserved
  <1>5. AtDiscard'
    BY DEF ReleaseStaleFence, End, AtStep, AtDiscard
  <1>6. AtClaim'
    BY DEF ReleaseStaleFence, End, AtStep, AtClaim
  <1>7. RowOrPublication'
    BY DEF ReleaseStaleFence, End, RowOrPublication, BuildPc
  <1>8. Admitted'
    BY DEF ReleaseStaleFence, End, Admitted, Reserved, TypeOK, Reservation
  <1>q. QED
    BY <1>1, <1>2, <1>3, <1>4, <1>5, <1>6, <1>7, <1>8 DEF AtStep

LEMMA RecoverAbandonedStep ==
  ASSUME IInv, RecoverAbandoned PROVE IInv'
  <1>1. TypeOK'
    <2>1. res' \in Reservation
      <3>1. [res EXCEPT !.carrier = "none", !.private = FALSE] \in Reservation
        BY DEF TypeOK, Reservation, Carrier
      <3>q. QED
        BY <3>1, NoResTyped DEF RecoverAbandoned, CompleteMissing, TypeOK
    <2>q. QED
      BY <2>1 DEF RecoverAbandoned, CompleteMissing, End, TypeOK
  <1>2. OnePack' /\ NoOrphanPack'
    BY DEF RecoverAbandoned, CompleteMissing, Native, End, OnePack, NoOrphanPack,
       Reserved, TypeOK, Reservation, Place, AtStep, AtBuild, ResPc, BuildPc
  <1>3. Journaled' /\ Blank'
    <2>1. fs' = fs /\ claim' = claim /\ holder' = holder /\ pc = "abandoned" /\ Reserved
      BY DEF RecoverAbandoned, AtStep, ResPc
    <2>2. CASE res' = res
      BY <2>1, <2>2 DEF Journaled, Blank, Reserved
    <2>3. CASE res' = NoRes /\ holder # "res" /\ fs["placement"] # "ours"
      BY <2>1, <2>3 DEF Journaled, Blank, Reserved, NoRes
    <2>4. CASE /\ res' = [res EXCEPT !.carrier = "none", !.private = FALSE]
               /\ fs["placement"] # "ours"
      BY <2>1, <2>4 DEF Journaled, Blank, Reserved, TypeOK, Reservation
    <2>5. fs["placement"] # "ours"
      BY DEF RecoverAbandoned, Native, NoOrphanPack
    <2>6. res' = NoRes => res' = res \/ holder # "res"
      BY <2>1 DEF RecoverAbandoned, CompleteMissing, Journaled, Reserved, NoRes, TypeOK,
         Reservation
    <2>7. res' \in {res, NoRes, [res EXCEPT !.carrier = "none", !.private = FALSE]}
      BY DEF RecoverAbandoned, CompleteMissing
    <2>q. QED
      BY <2>2, <2>3, <2>4, <2>5, <2>6, <2>7
  <1>4. (pc \in ResPc => Reserved)' /\ AtBuild'
    BY DEF RecoverAbandoned, CompleteMissing, Native, End, AtStep, AtBuild, ResPc,
       BuildPc, Reserved, TypeOK, Reservation
  <1>5. AtDiscard'
    BY DEF RecoverAbandoned, CompleteMissing, Native, End, AtStep, AtDiscard
  <1>6. AtClaim'
    BY DEF RecoverAbandoned, CompleteMissing, Native, End, AtStep, AtClaim,
       Reserved, TypeOK, Reservation, Journaled, NoOrphanPack, ResPc
  <1>7. RowOrPublication'
    BY DEF RecoverAbandoned, CompleteMissing, Native, End, RowOrPublication,
       BuildPc
  <1>8. Admitted'
    BY DEF RecoverAbandoned, CompleteMissing, Native, End, Admitted
  <1>q. QED
    BY <1>1, <1>2, <1>3, <1>4, <1>5, <1>6, <1>7, <1>8 DEF AtStep

LEMMA CompleteAbandonedStep ==
  ASSUME IInv, CompleteAbandoned PROVE IInv'
  <1>1. TypeOK'
    <2>1. res' \in Reservation
      BY NoResTyped, FreshTyped DEF CompleteAbandoned, CompleteMissing, End,
         TypeOK, Reservation, Carrier, Phase
    <2>q. QED
      BY <2>1 DEF CompleteAbandoned, CompleteMissing, End,
         TypeOK, Carrier, Place
  <1>2. OnePack' /\ NoOrphanPack'
    BY DEF CompleteAbandoned, CompleteMissing, End, OnePack, NoOrphanPack,
       Reserved, TypeOK, Reservation, Place, AtStep, AtDiscard, AtClaim,
       Journaled, ResPc, Carrier
  <1>3. Journaled' /\ Blank'
    BY DEF CompleteAbandoned, CompleteMissing, End, TypeOK, Reservation, NoRes,
       Reserved, OnePack, NoOrphanPack, Journaled, Blank, AtStep, AtBuild,
       AtDiscard, AtClaim, ResPc, BuildPc, Place, Carrier
  <1>4. (pc \in ResPc => Reserved)' /\ AtBuild'
    BY DEF CompleteAbandoned, CompleteMissing, End, AtStep, AtBuild, ResPc,
       BuildPc, Reserved
  <1>5. AtDiscard'
    BY DEF CompleteAbandoned, CompleteMissing, End, AtStep, AtDiscard
  <1>6. AtClaim'
    BY DEF CompleteAbandoned, CompleteMissing, End, AtStep, AtClaim
  <1>7. RowOrPublication'
    BY DEF CompleteAbandoned, CompleteMissing, End, RowOrPublication, BuildPc
  <1>8. Admitted'
    BY DEF CompleteAbandoned, CompleteMissing, End, Admitted
  <1>q. QED
    BY <1>1, <1>2, <1>3, <1>4, <1>5, <1>6, <1>7, <1>8 DEF AtStep

LEMMA AcquireCleanupReservationStep ==
  ASSUME IInv, AcquireCleanupReservation PROVE IInv'
  <1>1. TypeOK'
    <2>1. res' \in Reservation
      <3>1. [res EXCEPT !.purpose = "cleanup", !.live = TRUE] \in Reservation
        BY DEF TypeOK, Reservation
      <3>q. QED
        BY <3>1, FreshTyped DEF AcquireCleanupReservation, TypeOK
    <2>q. QED
      BY <2>1 DEF AcquireCleanupReservation, TypeOK
  <1>2. OnePack' /\ NoOrphanPack'
    BY DEF AcquireCleanupReservation, FreshReservation, TerminalCleanupEligible,
       OnePack, NoOrphanPack, Reserved, TypeOK, Reservation
  <1>3. Journaled' /\ Blank'
    <2>1. CASE res' = res
      BY <2>1 DEF AcquireCleanupReservation, Journaled, Blank, Reserved
    <2>2. CASE Reserved /\ res' = [res EXCEPT !.purpose = "cleanup", !.live = TRUE]
      BY <2>2 DEF AcquireCleanupReservation, Journaled, Blank, Reserved, TypeOK, Reservation
    <2>3. CASE ~Reserved /\ res' = FreshReservation("cleanup", TRUE)
      BY <2>3 DEF AcquireCleanupReservation, FreshReservation, Journaled, Blank,
         Reserved, NoOrphanPack, AtStep, AtClaim
    <2>q. QED
      BY <2>1, <2>2, <2>3 DEF AcquireCleanupReservation
  <1>4. (pc \in ResPc => Reserved)' /\ AtBuild'
    <2>1. CASE pc' = "idle"
      BY <2>1 DEF AtBuild, ResPc, BuildPc
    <2>2. CASE pc' = "terminal" /\ Reserved'
      BY <2>2 DEF AtBuild, BuildPc
    <2>3. pc' = "idle" \/ (pc' = "terminal" /\ Reserved')
      <3>1. [res EXCEPT !.purpose = "cleanup", !.live = TRUE].purpose = "cleanup"
        BY DEF TypeOK, Reservation
      <3>2. FreshReservation("cleanup", TRUE).purpose = "cleanup"
        BY DEF FreshReservation
      <3>q. QED
        BY <3>1, <3>2 DEF AcquireCleanupReservation, Reserved
    <2>q. QED
      BY <2>1, <2>2, <2>3
  <1>5. AtDiscard'
    BY DEF AcquireCleanupReservation, FreshReservation, TerminalCleanupEligible,
       AtStep, AtDiscard
  <1>6. AtClaim'
    BY DEF AcquireCleanupReservation, FreshReservation, TerminalCleanupEligible,
       AtStep, AtClaim
  <1>7. RowOrPublication'
    BY DEF AcquireCleanupReservation, FreshReservation, TerminalCleanupEligible,
       RowOrPublication, BuildPc
  <1>8. Admitted'
    BY DEF AcquireCleanupReservation, FreshReservation, TerminalCleanupEligible,
       Admitted
  <1>q. QED
    BY <1>1, <1>2, <1>3, <1>4, <1>5, <1>6, <1>7, <1>8 DEF AtStep

LEMMA DetachTerminalStep ==
  ASSUME IInv, DetachTerminal PROVE IInv'
  <1>1. TypeOK'
    <2>1. res' \in Reservation
      BY NoResTyped, FreshTyped DEF DetachTerminal, CompleteMissing, End,
         TypeOK, Reservation, Carrier, Phase
    <2>q. QED
      BY <2>1 DEF DetachTerminal, CompleteMissing, End, TypeOK,
         Carrier, Place
  <1>2. OnePack' /\ NoOrphanPack'
    BY DEF DetachTerminal, CompleteMissing, End, OnePack, NoOrphanPack, Reserved
  <1>3. Journaled' /\ Blank'
    BY DEF DetachTerminal, CompleteMissing, End, TypeOK, Reservation, NoRes,
       Reserved, OnePack, NoOrphanPack, Journaled, Blank, AtStep, AtBuild,
       AtDiscard, AtClaim, ResPc, BuildPc, Place, Carrier
  <1>4. (pc \in ResPc => Reserved)' /\ AtBuild'
    BY DEF DetachTerminal, CompleteMissing, End, AtStep, AtBuild, ResPc, BuildPc,
       Reserved
  <1>5. AtDiscard'
    BY DEF DetachTerminal, CompleteMissing, End, AtStep, AtDiscard
  <1>6. AtClaim'
    BY DEF DetachTerminal, CompleteMissing, End, AtStep, AtClaim, Reserved,
       TypeOK, Reservation, Journaled, NoOrphanPack, ResPc
  <1>7. RowOrPublication'
    BY DEF DetachTerminal, CompleteMissing, End, RowOrPublication, BuildPc
  <1>8. Admitted'
    BY DEF DetachTerminal, CompleteMissing, End, Admitted
  <1>q. QED
    BY <1>1, <1>2, <1>3, <1>4, <1>5, <1>6, <1>7, <1>8 DEF AtStep

LEMMA SaveTerminalPlacementStep ==
  ASSUME IInv, SaveTerminalPlacement PROVE IInv'
  <1>1. TypeOK'
    <2>1. res' \in Reservation
      BY DEF SaveTerminalPlacement, End, TypeOK, Reservation, Carrier, Phase
    <2>q. QED
      BY <2>1 DEF SaveTerminalPlacement, End, TypeOK, Carrier,
         Place
  <1>2. OnePack' /\ NoOrphanPack'
    BY DEF SaveTerminalPlacement, End, OnePack, NoOrphanPack, Reserved, TypeOK,
       Reservation, Place, AtStep, AtDiscard, AtClaim, Journaled, ResPc, Carrier
  <1>3. Journaled' /\ Blank'
    BY DEF SaveTerminalPlacement, End, Journaled, Blank, Reserved, TypeOK,
       Reservation, AtStep, AtBuild, AtDiscard, ResPc, BuildPc
  <1>4. (pc \in ResPc => Reserved)' /\ AtBuild'
    BY DEF SaveTerminalPlacement, End, AtStep, AtBuild, ResPc, BuildPc, Reserved
  <1>5. AtDiscard'
    BY DEF SaveTerminalPlacement, End, AtStep, AtDiscard
  <1>6. AtClaim'
    BY DEF SaveTerminalPlacement, End, AtStep, AtClaim
  <1>7. RowOrPublication'
    BY DEF SaveTerminalPlacement, End, RowOrPublication, BuildPc
  <1>8. Admitted'
    BY DEF SaveTerminalPlacement, End, Admitted
  <1>q. QED
    BY <1>1, <1>2, <1>3, <1>4, <1>5, <1>6, <1>7, <1>8 DEF AtStep

LEMMA SaveClaimStep ==
  ASSUME IInv, SaveClaim PROVE IInv'
  <1>1. TypeOK'
    <2>1. res' \in Reservation
      BY DEF SaveClaim, TypeOK, Reservation, Carrier, Phase
    <2>q. QED
      BY <2>1 DEF SaveClaim, TypeOK, Carrier, Place
  <1>2. OnePack' /\ NoOrphanPack'
    BY DEF SaveClaim, OnePack, NoOrphanPack, Reserved, TypeOK, Reservation, Place,
       AtStep, AtDiscard, AtClaim, Journaled, ResPc, Carrier
  <1>3. Journaled' /\ Blank'
    BY DEF SaveClaim, Journaled, Blank, Reserved, TypeOK, Reservation,
       NoOrphanPack, OnePack, Place, AtStep, AtClaim, AtDiscard, ResPc
  <1>4. (pc \in ResPc => Reserved)' /\ AtBuild'
    BY DEF SaveClaim, AtStep, AtBuild, ResPc, BuildPc, Reserved
  <1>5. AtDiscard'
    BY DEF SaveClaim, AtStep, AtDiscard
  <1>6. AtClaim'
    BY DEF SaveClaim, AtStep, AtClaim
  <1>7. RowOrPublication'
    BY DEF SaveClaim, RowOrPublication, BuildPc
  <1>8. Admitted'
    BY DEF SaveClaim, Admitted
  <1>q. QED
    BY <1>1, <1>2, <1>3, <1>4, <1>5, <1>6, <1>7, <1>8 DEF AtStep

LEMMA SaveClaimingStep ==
  ASSUME IInv, SaveClaiming PROVE IInv'
  <1>1. TypeOK'
    <2>1. res' \in Reservation
      BY DEF SaveClaiming, TypeOK, Reservation, Carrier, Phase
    <2>q. QED
      BY <2>1 DEF SaveClaiming, TypeOK, Carrier, Place
  <1>2. OnePack' /\ NoOrphanPack'
    BY DEF SaveClaiming, OnePack, NoOrphanPack, Reserved
  <1>3. Journaled' /\ Blank'
    BY DEF SaveClaiming, Journaled, Blank, Reserved, TypeOK, Reservation,
       NoOrphanPack, OnePack, Place, AtStep, AtClaim, AtDiscard, ResPc
  <1>4. (pc \in ResPc => Reserved)' /\ AtBuild'
    BY DEF SaveClaiming, AtStep, AtBuild, ResPc, BuildPc, Reserved
  <1>5. AtDiscard'
    BY DEF SaveClaiming, AtStep, AtDiscard
  <1>6. AtClaim'
    BY DEF SaveClaiming, AtStep, AtClaim
  <1>7. RowOrPublication'
    BY DEF SaveClaiming, RowOrPublication, BuildPc
  <1>8. Admitted'
    BY DEF SaveClaiming, Admitted
  <1>q. QED
    BY <1>1, <1>2, <1>3, <1>4, <1>5, <1>6, <1>7, <1>8 DEF AtStep

LEMMA DetachDirectoryStep ==
  ASSUME IInv, DetachDirectory PROVE IInv'
  <1>1. TypeOK'
    BY DEF DetachDirectory, RenameNoreplace, End, TypeOK, Place
  <1>2. OnePack' /\ NoOrphanPack'
    BY DEF DetachDirectory, RenameNoreplace, End, OnePack, NoOrphanPack, Reserved,
       TypeOK, Reservation, Place, AtStep, AtDiscard, AtClaim, Journaled, ResPc,
       Carrier
  <1>3. Journaled' /\ Blank'
    BY DEF DetachDirectory, RenameNoreplace, End, Journaled, Blank, Reserved,
       TypeOK, Reservation, NoOrphanPack, OnePack, Place, AtStep, AtClaim,
       AtDiscard, ResPc
  <1>4. (pc \in ResPc => Reserved)' /\ AtBuild'
    BY DEF DetachDirectory, RenameNoreplace, End, AtStep, AtBuild, ResPc, BuildPc,
       Reserved
  <1>5. AtDiscard'
    BY DEF DetachDirectory, RenameNoreplace, End, AtStep, AtDiscard
  <1>6. AtClaim'
    BY DEF DetachDirectory, RenameNoreplace, End, AtStep, AtClaim
  <1>7. RowOrPublication'
    BY DEF DetachDirectory, RenameNoreplace, End, RowOrPublication, BuildPc
  <1>8. Admitted'
    BY DEF DetachDirectory, RenameNoreplace, End, Admitted
  <1>q. QED
    BY <1>1, <1>2, <1>3, <1>4, <1>5, <1>6, <1>7, <1>8 DEF AtStep

LEMMA SaveClaimedStep ==
  ASSUME IInv, SaveClaimed PROVE IInv'
  <1>1. TypeOK'
    <2>1. res' \in Reservation
      BY DEF SaveClaimed, End, TypeOK, Reservation, Carrier, Phase
    <2>q. QED
      BY <2>1 DEF SaveClaimed, End, TypeOK, Carrier, Place
  <1>2. OnePack' /\ NoOrphanPack'
    BY DEF SaveClaimed, End, OnePack, NoOrphanPack, Reserved, TypeOK, Reservation,
       Place, AtStep, AtBuild, ResPc, BuildPc
  <1>3. Journaled' /\ Blank'
    BY DEF SaveClaimed, End, Journaled, Blank, Reserved, TypeOK, Reservation,
       NoOrphanPack, OnePack, Place, AtStep, AtClaim, AtDiscard, ResPc
  <1>4. (pc \in ResPc => Reserved)' /\ AtBuild'
    BY DEF SaveClaimed, End, AtStep, AtBuild, ResPc, BuildPc, Reserved
  <1>5. AtDiscard'
    BY DEF SaveClaimed, End, AtStep, AtDiscard
  <1>6. AtClaim'
    BY DEF SaveClaimed, End, AtStep, AtClaim
  <1>7. RowOrPublication'
    BY DEF SaveClaimed, End, RowOrPublication, BuildPc
  <1>8. Admitted'
    BY DEF SaveClaimed, End, Admitted
  <1>q. QED
    BY <1>1, <1>2, <1>3, <1>4, <1>5, <1>6, <1>7, <1>8 DEF AtStep

LEMMA RecordOwnedTombstoneStep ==
  ASSUME IInv, RecordOwnedTombstone PROVE IInv'
  <1>1. TypeOK'
    <2>1. res' \in Reservation
      BY NoResTyped, FreshTyped DEF RecordOwnedTombstone, End, TypeOK,
         Reservation, Carrier, Phase
    <2>q. QED
      BY <2>1 DEF RecordOwnedTombstone, End, TypeOK, Carrier,
         Place
  <1>2. OnePack' /\ NoOrphanPack'
    BY DEF RecordOwnedTombstone, End, OnePack, NoOrphanPack, Reserved, TypeOK,
       Reservation, Place, AtStep, AtDiscard, AtClaim, Journaled, ResPc, Carrier
  <1>3. Journaled' /\ Blank'
    BY DEF RecordOwnedTombstone, End, TypeOK, Reservation, NoRes, Reserved,
       OnePack, NoOrphanPack, Journaled, Blank, AtStep, AtBuild, AtDiscard,
       AtClaim, ResPc, BuildPc, Place, Carrier
  <1>4. (pc \in ResPc => Reserved)' /\ AtBuild'
    BY DEF RecordOwnedTombstone, End, AtStep, AtBuild, ResPc, BuildPc, Reserved
  <1>5. AtDiscard'
    BY DEF RecordOwnedTombstone, End, AtStep, AtDiscard
  <1>6. AtClaim'
    BY DEF RecordOwnedTombstone, End, AtStep, AtClaim
  <1>7. RowOrPublication'
    BY DEF RecordOwnedTombstone, End, RowOrPublication, BuildPc
  <1>8. Admitted'
    BY DEF RecordOwnedTombstone, End, Admitted
  <1>q. QED
    BY <1>1, <1>2, <1>3, <1>4, <1>5, <1>6, <1>7, <1>8 DEF AtStep

LEMMA RemoveTombstonesStep ==
  ASSUME IInv, RemoveTombstones PROVE IInv'
  <1>1. TypeOK'
    BY DEF RemoveTombstones, AfterTombstones, Kept, End, TerminalCleanupEligible,
       TypeOK
  <1>2. OnePack' /\ NoOrphanPack'
    BY DEF RemoveTombstones, AfterTombstones, Kept, End, TerminalCleanupEligible,
       OnePack, NoOrphanPack, Reserved
  <1>3. Journaled' /\ Blank'
    BY DEF RemoveTombstones, AfterTombstones, Kept, End, TerminalCleanupEligible,
       Journaled, Blank, Reserved
  <1>4. (pc \in ResPc => Reserved)' /\ AtBuild'
    BY DEF RemoveTombstones, AfterTombstones, Kept, End, TerminalCleanupEligible,
       AtStep, AtBuild, ResPc, BuildPc, Reserved
  <1>5. AtDiscard'
    BY DEF RemoveTombstones, AfterTombstones, Kept, End, TerminalCleanupEligible,
       AtStep, AtDiscard
  <1>6. AtClaim'
    BY DEF RemoveTombstones, AfterTombstones, Kept, End, TerminalCleanupEligible,
       AtStep, AtClaim
  <1>7. RowOrPublication'
    BY DEF RemoveTombstones, AfterTombstones, Kept, End, TerminalCleanupEligible,
       RowOrPublication, BuildPc
  <1>8. Admitted'
    BY DEF RemoveTombstones, AfterTombstones, Kept, End, TerminalCleanupEligible,
       Admitted, Reserved, TypeOK, Reservation
  <1>q. QED
    BY <1>1, <1>2, <1>3, <1>4, <1>5, <1>6, <1>7, <1>8 DEF AtStep

LEMMA CaptureIntendedStep ==
  ASSUME IInv, CaptureIntended PROVE IInv'
  <1>1. TypeOK'
    <2>1. res' \in Reservation
      BY DEF CaptureIntended, RenameNoreplace, Kept, End, TypeOK, Reservation,
         Carrier, Phase
    <2>q. QED
      BY <2>1 DEF CaptureIntended, RenameNoreplace, Kept, End,
         TypeOK, Carrier, Place
  <1>2. OnePack' /\ NoOrphanPack'
    BY DEF CaptureIntended, RenameNoreplace, Kept, End, OnePack, NoOrphanPack,
       Reserved, TypeOK, Reservation, Place, AtStep, AtDiscard, AtClaim,
       Journaled, ResPc, Carrier
  <1>3. Journaled' /\ Blank'
    BY DEF CaptureIntended, RenameNoreplace, Kept, End, Journaled, Blank,
       Reserved, TypeOK, Reservation, NoOrphanPack, OnePack, Place, AtStep,
       AtClaim, AtDiscard, ResPc
  <1>4. (pc \in ResPc => Reserved)' /\ AtBuild'
    BY DEF CaptureIntended, RenameNoreplace, Kept, End, AtStep, AtBuild, ResPc,
       BuildPc, Reserved
  <1>5. AtDiscard'
    BY DEF CaptureIntended, RenameNoreplace, Kept, End, AtStep, AtDiscard
  <1>6. AtClaim'
    BY DEF CaptureIntended, RenameNoreplace, Kept, End, AtStep, AtClaim
  <1>7. RowOrPublication'
    BY DEF CaptureIntended, RenameNoreplace, Kept, End, RowOrPublication, BuildPc
  <1>8. Admitted'
    BY DEF CaptureIntended, RenameNoreplace, Kept, End, Admitted
  <1>q. QED
    BY <1>1, <1>2, <1>3, <1>4, <1>5, <1>6, <1>7, <1>8 DEF AtStep

LEMMA SaveDiscardingStep ==
  ASSUME IInv, SaveDiscarding PROVE IInv'
  <1>1. TypeOK'
    <2>1. res' \in Reservation
      BY DEF SaveDiscarding, ArtifactVerified, Kept, End, TypeOK, Reservation,
         Carrier, Phase
    <2>q. QED
      BY <2>1 DEF SaveDiscarding, ArtifactVerified, Kept, End,
         TypeOK, Carrier, Place
  <1>2. OnePack' /\ NoOrphanPack'
    BY DEF SaveDiscarding, ArtifactVerified, Kept, End, OnePack, NoOrphanPack,
       Reserved, TypeOK, Reservation, Place, AtStep, AtBuild, ResPc, BuildPc
  <1>3. Journaled' /\ Blank'
    BY DEF SaveDiscarding, ArtifactVerified, Kept, End, Journaled, Blank,
       Reserved, TypeOK, Reservation, NoOrphanPack, OnePack, Place, AtStep,
       AtClaim, AtDiscard, ResPc
  <1>4. (pc \in ResPc => Reserved)' /\ AtBuild'
    BY DEF SaveDiscarding, ArtifactVerified, Kept, End, AtStep, AtBuild, ResPc,
       BuildPc, Reserved
  <1>5. AtDiscard'
    BY DEF SaveDiscarding, ArtifactVerified, Kept, End, AtStep, AtDiscard
  <1>6. AtClaim'
    BY DEF SaveDiscarding, ArtifactVerified, Kept, End, AtStep, AtClaim
  <1>7. RowOrPublication'
    BY DEF SaveDiscarding, ArtifactVerified, Kept, End, RowOrPublication, BuildPc
  <1>8. Admitted'
    BY DEF SaveDiscarding, ArtifactVerified, Kept, End, Admitted
  <1>q. QED
    BY <1>1, <1>2, <1>3, <1>4, <1>5, <1>6, <1>7, <1>8 DEF AtStep

LEMMA RemoveTreeStep ==
  ASSUME IInv, RemoveTree PROVE IInv'
  <1>1. TypeOK'
    BY DEF RemoveTree, TypeOK
  <1>2. OnePack' /\ NoOrphanPack'
    BY DEF RemoveTree, OnePack, NoOrphanPack, Reserved
  <1>3. Journaled' /\ Blank'
    BY DEF RemoveTree, Journaled, Blank, Reserved
  <1>4. (pc \in ResPc => Reserved)' /\ AtBuild'
    BY DEF RemoveTree, AtStep, AtBuild, ResPc, BuildPc, Reserved
  <1>5. AtDiscard'
    BY DEF RemoveTree, AtStep, AtDiscard
  <1>6. AtClaim'
    BY DEF RemoveTree, TypeOK, Reservation, NoRes, Reserved, OnePack,
       NoOrphanPack, Journaled, Blank, AtStep, AtBuild, AtDiscard, AtClaim, ResPc,
       BuildPc, Place, Carrier
  <1>7. RowOrPublication'
    BY DEF RemoveTree, RowOrPublication, BuildPc
  <1>8. Admitted'
    BY DEF RemoveTree, Admitted
  <1>q. QED
    BY <1>1, <1>2, <1>3, <1>4, <1>5, <1>6, <1>7, <1>8 DEF AtStep

LEMMA SaveDiscardedStep ==
  ASSUME IInv, SaveDiscarded PROVE IInv'
  <1>1. TypeOK'
    <2>1. res' \in Reservation
      BY DEF SaveDiscarded, TypeOK, Reservation, Carrier, Phase
    <2>q. QED
      BY <2>1 DEF SaveDiscarded, TypeOK, Carrier, Place
  <1>2. OnePack' /\ NoOrphanPack'
    BY DEF SaveDiscarded, OnePack, NoOrphanPack, Reserved, TypeOK, Reservation,
       Place, AtStep, AtDiscard, AtClaim, Journaled, ResPc, Carrier
  <1>3. Journaled' /\ Blank'
    BY DEF SaveDiscarded, Journaled, Blank, Reserved, TypeOK, Reservation,
       NoOrphanPack, OnePack, Place, AtStep, AtClaim, AtDiscard, ResPc
  <1>4. (pc \in ResPc => Reserved)' /\ AtBuild'
    BY DEF SaveDiscarded, AtStep, AtBuild, ResPc, BuildPc, Reserved
  <1>5. AtDiscard'
    BY DEF SaveDiscarded, AtStep, AtDiscard
  <1>6. AtClaim'
    BY DEF SaveDiscarded, AtStep, AtClaim
  <1>7. RowOrPublication'
    BY DEF SaveDiscarded, RowOrPublication, BuildPc
  <1>8. Admitted'
    BY DEF SaveDiscarded, Admitted
  <1>q. QED
    BY <1>1, <1>2, <1>3, <1>4, <1>5, <1>6, <1>7, <1>8 DEF AtStep

LEMMA DropReservationClaimStep ==
  ASSUME IInv, DropReservationClaim PROVE IInv'
  <1>1. TypeOK'
    <2>1. res' \in Reservation
      BY DEF DropReservationClaim, TypeOK, Reservation, Carrier, Phase
    <2>q. QED
      BY <2>1 DEF DropReservationClaim, TypeOK, Carrier, Place
  <1>2. OnePack' /\ NoOrphanPack'
    BY DEF DropReservationClaim, OnePack, NoOrphanPack, Reserved
  <1>3. Journaled' /\ Blank'
    BY DEF DropReservationClaim, Journaled, Blank, Reserved
  <1>4. (pc \in ResPc => Reserved)' /\ AtBuild'
    BY DEF DropReservationClaim, AtStep, AtBuild, ResPc, BuildPc, Reserved,
       TypeOK, Reservation, Journaled, NoOrphanPack, OnePack
  <1>5. AtDiscard'
    BY DEF DropReservationClaim, AtStep, AtDiscard, Reserved, TypeOK, Reservation,
       Journaled, NoOrphanPack, OnePack, ResPc
  <1>6. AtClaim'
    BY DEF DropReservationClaim, AtStep, AtClaim
  <1>7. RowOrPublication'
    BY DEF DropReservationClaim, RowOrPublication, BuildPc
  <1>8. Admitted'
    BY DEF DropReservationClaim, Admitted
  <1>q. QED
    BY <1>1, <1>2, <1>3, <1>4, <1>5, <1>6, <1>7, <1>8 DEF AtStep

LEMMA SaveTerminalReceiptStep ==
  ASSUME IInv, SaveTerminalReceipt PROVE IInv'
  <1>1. TypeOK'
    <2>1. res' \in Reservation
      <3>1. [FreshReservation("queueing", TRUE) EXCEPT !.phase = "attached",
               !.canon = "canonical", !.spent = TRUE] \in Reservation
        BY DEF FreshReservation, Reservation, Carrier, Phase
      <3>q. QED
        BY <3>1 DEF SaveTerminalReceipt, TypeOK
    <2>q. QED
      BY <2>1 DEF SaveTerminalReceipt, TypeOK
  <1>2. OnePack' /\ NoOrphanPack'
    BY DEF SaveTerminalReceipt, FreshReservation, OnePack, NoOrphanPack, Reserved
  <1>3. Journaled' /\ Blank'
    BY DEF SaveTerminalReceipt, FreshReservation, Journaled, Blank, Reserved
  <1>4. (pc \in ResPc => Reserved)' /\ AtBuild'
    BY DEF SaveTerminalReceipt, FreshReservation, AtStep, AtBuild, ResPc, BuildPc,
       Reserved
  <1>5. AtDiscard'
    BY DEF SaveTerminalReceipt, FreshReservation, AtStep, AtDiscard
  <1>6. AtClaim'
    BY DEF SaveTerminalReceipt, FreshReservation, AtStep, AtClaim
  <1>7. RowOrPublication'
    BY DEF SaveTerminalReceipt, FreshReservation, RowOrPublication, BuildPc
  <1>8. Admitted'
    BY DEF SaveTerminalReceipt, FreshReservation, Admitted
  <1>q. QED
    BY <1>1, <1>2, <1>3, <1>4, <1>5, <1>6, <1>7, <1>8 DEF AtStep

LEMMA ForgetTombstoneStep ==
  ASSUME IInv, ForgetTombstone PROVE IInv'
  <1>1. TypeOK'
    <2>1. res' \in Reservation
      BY DEF ForgetTombstone, AfterTombstones, TypeOK, Reservation, Carrier,
         Phase
    <2>q. QED
      BY <2>1 DEF ForgetTombstone, AfterTombstones, TypeOK,
         Carrier, Place
  <1>2. OnePack' /\ NoOrphanPack'
    BY DEF ForgetTombstone, AfterTombstones, OnePack, NoOrphanPack, Reserved,
       TypeOK, Reservation, Place, AtStep, AtDiscard, AtClaim, Journaled, ResPc,
       Carrier
  <1>3. Journaled' /\ Blank'
    BY DEF ForgetTombstone, AfterTombstones, Journaled, Blank, Reserved
  <1>4. (pc \in ResPc => Reserved)' /\ AtBuild'
    BY DEF ForgetTombstone, AfterTombstones, AtStep, AtBuild, ResPc, BuildPc,
       Reserved
  <1>5. AtDiscard'
    BY DEF ForgetTombstone, AfterTombstones, AtStep, AtDiscard
  <1>6. AtClaim'
    BY DEF ForgetTombstone, AfterTombstones, AtStep, AtClaim
  <1>7. RowOrPublication'
    BY DEF ForgetTombstone, AfterTombstones, RowOrPublication, BuildPc
  <1>8. Admitted'
    BY DEF ForgetTombstone, AfterTombstones, Admitted
  <1>q. QED
    BY <1>1, <1>2, <1>3, <1>4, <1>5, <1>6, <1>7, <1>8 DEF AtStep

LEMMA ClaimImportStep ==
  ASSUME IInv, ClaimImport PROVE IInv'
  <1>1. TypeOK'
    BY DEF ClaimImport, TypeOK
  <1>2. OnePack' /\ NoOrphanPack'
    BY DEF ClaimImport, OnePack, NoOrphanPack, Reserved
  <1>3. Journaled' /\ Blank'
    BY DEF ClaimImport, Journaled, Blank, Reserved
  <1>4. (pc \in ResPc => Reserved)' /\ AtBuild'
    BY DEF ClaimImport, AtStep, AtBuild, ResPc, BuildPc, Reserved
  <1>5. AtDiscard'
    BY DEF ClaimImport, AtStep, AtDiscard
  <1>6. AtClaim'
    BY DEF ClaimImport, AtStep, AtClaim
  <1>7. RowOrPublication'
    BY DEF ClaimImport, RowOrPublication, BuildPc
  <1>8. Admitted'
    BY DEF ClaimImport, Admitted, Reserved, TypeOK, Reservation
  <1>q. QED
    BY <1>1, <1>2, <1>3, <1>4, <1>5, <1>6, <1>7, <1>8 DEF AtStep

LEMMA FreezePackOriginStep ==
  ASSUME IInv, FreezePackOrigin PROVE IInv'
  <1>1. TypeOK'
    BY DEF FreezePackOrigin, SourceCurrent, TypeOK
  <1>2. OnePack' /\ NoOrphanPack'
    BY DEF FreezePackOrigin, SourceCurrent, OnePack, NoOrphanPack, Reserved
  <1>3. Journaled' /\ Blank'
    BY DEF FreezePackOrigin, SourceCurrent, Journaled, Blank, Reserved
  <1>4. (pc \in ResPc => Reserved)' /\ AtBuild'
    BY DEF FreezePackOrigin, SourceCurrent, AtStep, AtBuild, ResPc, BuildPc,
       Reserved
  <1>5. AtDiscard'
    BY DEF FreezePackOrigin, SourceCurrent, AtStep, AtDiscard
  <1>6. AtClaim'
    BY DEF FreezePackOrigin, SourceCurrent, AtStep, AtClaim
  <1>7. RowOrPublication'
    BY DEF FreezePackOrigin, SourceCurrent, RowOrPublication, BuildPc
  <1>8. Admitted'
    BY DEF FreezePackOrigin, SourceCurrent, Admitted, Reserved, RowOrPublication,
       Journaled, NoOrphanPack, BuildPc, TypeOK, Reservation
  <1>q. QED
    BY <1>1, <1>2, <1>3, <1>4, <1>5, <1>6, <1>7, <1>8 DEF AtStep

LEMMA ImportCommitsStep ==
  ASSUME IInv, ImportCommits PROVE IInv'
  <1>1. TypeOK'
    BY DEF ImportCommits, TypeOK
  <1>2. OnePack' /\ NoOrphanPack'
    BY DEF ImportCommits, OnePack, NoOrphanPack, Reserved
  <1>3. Journaled' /\ Blank'
    BY DEF ImportCommits, Journaled, Blank, Reserved
  <1>4. (pc \in ResPc => Reserved)' /\ AtBuild'
    BY DEF ImportCommits, AtStep, AtBuild, ResPc, BuildPc, Reserved
  <1>5. AtDiscard'
    BY DEF ImportCommits, AtStep, AtDiscard
  <1>6. AtClaim'
    BY DEF ImportCommits, AtStep, AtClaim
  <1>7. RowOrPublication'
    BY DEF ImportCommits, RowOrPublication, BuildPc
  <1>8. Admitted'
    BY DEF ImportCommits, Admitted, Reserved, TypeOK, Reservation
  <1>q. QED
    BY <1>1, <1>2, <1>3, <1>4, <1>5, <1>6, <1>7, <1>8 DEF AtStep

LEMMA PackCleanupDelegatedStep ==
  ASSUME IInv, PackCleanupDelegated PROVE IInv'
  <1>1. TypeOK'
    BY DEF PackCleanupDelegated, TypeOK
  <1>2. OnePack' /\ NoOrphanPack'
    BY DEF PackCleanupDelegated, OnePack, NoOrphanPack, Reserved
  <1>3. Journaled' /\ Blank'
    BY DEF PackCleanupDelegated, Journaled, Blank, Reserved
  <1>4. (pc \in ResPc => Reserved)' /\ AtBuild'
    BY DEF PackCleanupDelegated, AtStep, AtBuild, ResPc, BuildPc, Reserved
  <1>5. AtDiscard'
    BY DEF PackCleanupDelegated, AtStep, AtDiscard
  <1>6. AtClaim'
    BY DEF PackCleanupDelegated, AtStep, AtClaim
  <1>7. RowOrPublication'
    BY DEF PackCleanupDelegated, RowOrPublication, BuildPc
  <1>8. Admitted'
    BY DEF PackCleanupDelegated, Admitted
  <1>q. QED
    BY <1>1, <1>2, <1>3, <1>4, <1>5, <1>6, <1>7, <1>8 DEF AtStep

LEMMA ImportFailsStep ==
  ASSUME IInv, ImportFails PROVE IInv'
  <1>1. TypeOK'
    BY DEF ImportFails, TypeOK
  <1>2. OnePack' /\ NoOrphanPack'
    BY DEF ImportFails, OnePack, NoOrphanPack, Reserved
  <1>3. Journaled' /\ Blank'
    BY DEF ImportFails, Journaled, Blank, Reserved
  <1>4. (pc \in ResPc => Reserved)' /\ AtBuild'
    BY DEF ImportFails, AtStep, AtBuild, ResPc, BuildPc, Reserved
  <1>5. AtDiscard'
    BY DEF ImportFails, AtStep, AtDiscard
  <1>6. AtClaim'
    BY DEF ImportFails, AtStep, AtClaim
  <1>7. RowOrPublication'
    BY DEF ImportFails, RowOrPublication, BuildPc
  <1>8. Admitted'
    BY DEF ImportFails, Admitted
  <1>q. QED
    BY <1>1, <1>2, <1>3, <1>4, <1>5, <1>6, <1>7, <1>8 DEF AtStep

LEMMA OperatorStep ==
  ASSUME IInv, Operator PROVE IInv'
  <1>1. TypeOK'
    BY DEF Operator, TypeOK
  <1>2. OnePack' /\ NoOrphanPack'
    BY DEF Operator, OnePack, NoOrphanPack, Reserved
  <1>3. Journaled' /\ Blank'
    BY DEF Operator, Journaled, Blank, Reserved
  <1>4. (pc \in ResPc => Reserved)' /\ AtBuild'
    BY DEF Operator, AtStep, AtBuild, ResPc, BuildPc, Reserved
  <1>5. AtDiscard'
    BY DEF Operator, AtStep, AtDiscard
  <1>6. AtClaim'
    BY DEF Operator, AtStep, AtClaim
  <1>7. RowOrPublication'
    BY DEF Operator, RowOrPublication, BuildPc
  <1>8. Admitted'
    BY DEF Operator, Admitted, Reserved, TypeOK, Reservation
  <1>q. QED
    BY <1>1, <1>2, <1>3, <1>4, <1>5, <1>6, <1>7, <1>8 DEF AtStep

LEMMA ExpireStep ==
  ASSUME IInv, Expire PROVE IInv'
  <1>1. TypeOK'
    <2>1. res' \in Reservation
      BY DEF Expire, TypeOK, Reservation, Carrier, Phase
    <2>q. QED
      BY <2>1 DEF Expire, TypeOK, Carrier, Place
  <1>2. OnePack' /\ NoOrphanPack'
    BY DEF Expire, OnePack, NoOrphanPack, Reserved
  <1>3. Journaled' /\ Blank'
    BY DEF Expire, Journaled, Blank, Reserved
  <1>4. (pc \in ResPc => Reserved)' /\ AtBuild'
    BY DEF Expire, AtStep, AtBuild, ResPc, BuildPc, Reserved
  <1>5. AtDiscard'
    BY DEF Expire, AtStep, AtDiscard
  <1>6. AtClaim'
    BY DEF Expire, AtStep, AtClaim
  <1>7. RowOrPublication'
    BY DEF Expire, RowOrPublication, BuildPc
  <1>8. Admitted'
    BY DEF Expire, Admitted, Reserved, TypeOK, Reservation
  <1>q. QED
    BY <1>1, <1>2, <1>3, <1>4, <1>5, <1>6, <1>7, <1>8 DEF AtStep

LEMMA StopStep ==
  ASSUME IInv, Stop PROVE IInv'
  <1>1. TypeOK'
    BY DEF Stop, TypeOK, Place
  <1>2. OnePack' /\ NoOrphanPack'
    BY DEF Stop, OnePack, NoOrphanPack, Reserved
  <1>3. Journaled' /\ Blank'
    BY DEF Stop, Journaled, Blank, Reserved
  <1>4. (pc \in ResPc => Reserved)' /\ AtBuild'
    BY DEF Stop, AtStep, AtBuild, ResPc, BuildPc, Reserved
  <1>5. AtDiscard'
    BY DEF Stop, AtStep, AtDiscard
  <1>6. AtClaim'
    BY DEF Stop, AtStep, AtClaim
  <1>7. RowOrPublication'
    BY DEF Stop, RowOrPublication, BuildPc
  <1>8. Admitted'
    BY DEF Stop, Admitted, Reserved, TypeOK, Reservation
  <1>q. QED
    BY <1>1, <1>2, <1>3, <1>4, <1>5, <1>6, <1>7, <1>8 DEF AtStep

LEMMA ForeignStep ==
  ASSUME IInv, Foreign PROVE IInv'
  <1>1. TypeOK'
    BY DEF Foreign, TypeOK, Place
  <1>2. OnePack' /\ NoOrphanPack'
    BY DEF Foreign, OnePack, NoOrphanPack, Reserved
  <1>3. Journaled' /\ Blank'
    BY DEF Foreign, Journaled, Blank, Reserved
  <1>4. (pc \in ResPc => Reserved)' /\ AtBuild'
    BY DEF Foreign, AtStep, AtBuild, ResPc, BuildPc, Reserved
  <1>5. AtDiscard'
    BY DEF Foreign, AtStep, AtDiscard
  <1>6. AtClaim'
    BY DEF Foreign, AtStep, AtClaim
  <1>7. RowOrPublication'
    BY DEF Foreign, RowOrPublication, BuildPc
  <1>8. Admitted'
    BY DEF Foreign, Admitted, Reserved, TypeOK, Reservation
  <1>q. QED
    BY <1>1, <1>2, <1>3, <1>4, <1>5, <1>6, <1>7, <1>8 DEF AtStep

-----------------------------------------------------------------------------
(* The theorems *)

LEMMA UnitStepIInv ==
  ASSUME IInv, UnitStep PROVE IInv'
  BY ReservePackQueueCreationStep, PackImageDirectoriesStep, ExtractSplitRarsStep,
     ScanPlainStep, SaveCreatingStep, SavePlacementCarrierStep, CreatePackDirectoryStep,
     SavePrivateDirectoryStep, MapPackFilesStep, BeginPackQueueAttachmentStep,
     InsertPlainQueueStep, SaveAttachingStep, RenameToCanonicalStep, KeepInPlacementStep,
     SaveReadyStep, CommitGeneratedQueueStep, RecheckGeneratedQueueStep,
     DropEmptyPlacementStep, PromoteGeneratedQueueStep, DiscardPlacementStep,
     RemovePlacementStep, SavePlacementDiscardedStep, NothingToRemoveStep,
     ReleasePackQueueCreationStep, ClaimExpiredReservationStep, RecoverQueuedStep,
     ReleaseStaleFenceStep, RecoverAbandonedStep, CompleteAbandonedStep,
     AcquireCleanupReservationStep, DetachTerminalStep, SaveTerminalPlacementStep,
     SaveClaimStep, SaveClaimingStep, DetachDirectoryStep, SaveClaimedStep,
     RecordOwnedTombstoneStep, RemoveTombstonesStep, CaptureIntendedStep,
     SaveDiscardingStep, RemoveTreeStep, SaveDiscardedStep, DropReservationClaimStep,
     SaveTerminalReceiptStep, ForgetTombstoneStep
     DEF UnitStep

LEMMA NextIInv ==
  ASSUME IInv, [Next]_vars PROVE IInv'
  <1>1. CASE UNCHANGED vars
    BY <1>1 DEF vars, TypeOK, OnePack, NoOrphanPack, Journaled, Blank, AtStep, AtBuild,
       AtDiscard, AtClaim, RowOrPublication, Admitted, Reserved
  <1>q. QED
    BY <1>1, UnitStepIInv, StartQueueStep, StartCleanupStep, StartRecoveryStep,
       ClaimImportStep, FreezePackOriginStep, ImportCommitsStep, PackCleanupDelegatedStep,
       ImportFailsStep, OperatorStep, ExpireStep, StopStep, ForeignStep DEF Next

LEMMA InitIInv ==
  ASSUME Init PROVE IInv
  <1>1. TypeOK
    <2>1. res \in Reservation /\ fs \in [Place -> {"none", "ours", "foreign"}]
      BY NoResTyped DEF Init
    <2>2. stops \in Nat /\ foreign \in Nat
      BY DEF Init
    <2>3. /\ claim \in Carrier /\ holder \in {"none", "res", "tomb"}
          /\ row \in {"none", "pending", "importing", "failed", "kept", "skipped"}
          /\ pub \in {"none", "active", "final", "complete"}
          /\ job \in {"none", "queue", "cleanup", "recover", "build"}
      BY DEF Init, Carrier
    <2>4. gen \in BOOLEAN /\ admitted \in BOOLEAN /\ exposed \in BOOLEAN
      BY DEF Init
    <2>q. QED
      BY <2>1, <2>2, <2>3, <2>4 DEF TypeOK
  <1>2. OnePack /\ NoOrphanPack /\ Journaled /\ Blank
    BY DEF Init, OnePack, NoOrphanPack, Journaled, Blank, NoRes, Place, Reserved
  <1>3. AtStep /\ RowOrPublication /\ Admitted
    BY DEF Init, AtStep, AtBuild, AtDiscard, AtClaim, RowOrPublication, Admitted,
       BuildPc, ResPc
  <1>q. QED
    BY <1>1, <1>2, <1>3

\* What every unit of the pack cleanup relies on holds at every step, wherever the
\* units before it stopped.
THEOREM PackInvariant == Spec => []IInv
  <1>1. Init => IInv
    BY InitIInv
  <1>2. IInv /\ [Next]_vars => IInv'
    BY NextIInv
  <1>q. QED
    BY <1>1, <1>2, PTL DEF Spec

\* No pack directory of ours is ever on disk without a reservation or a tombstone
\* that names its place, so a later recovery pass can find and remove it
\* (_recover_pack_cleanup_with_guard), after any number of stops.
THEOREM NoPackLeaks == Spec => []NoOrphanPack
  <1>1. IInv => NoOrphanPack
    OBVIOUS
  <1>q. QED
    BY <1>1, PackInvariant, PTL

\* A pack whose files an attempt has admitted is not taken away by a cleanup before
\* its import is over: the fences of _terminal_cleanup_eligible, of the reservation's
\* purpose and of the recovery pass together suffice.
THEOREM AdmittedSourcesStay == Spec => []SourcesKept
  <1>1. IInv => SourcesKept
    BY DEF Admitted, SourcesKept
  <1>q. QED
    BY <1>1, PackInvariant, PTL

\* Only proven packs are removed: a directory somebody else put at the canonical name
\* is at most moved into a carrier that is kept (verify_directory before the rmtree).
THEOREM ForeignStays == Spec => ForeignKept
  <1> DEFINE Stays(p) == fs[p] = "foreign" /\ fs'[p] # "foreign" =>
               \/ foreign' # foreign
               \/ p = "canonical" /\ fs'["claim"] = "foreign"
  <1>1. ASSUME IInv, Next PROVE \A p \in Place : Stays(p)
    <2> SUFFICES Stays("placement") /\ Stays("canonical") /\ Stays("claim")
      BY DEF Place
    <2>p. fs["placement"] # "foreign" /\ fs \in [Place -> {"none", "ours", "foreign"}]
      BY <1>1 DEF OnePack, TypeOK
    <2>1. CASE fs' = fs
      BY <2>1
    <2>2. CASE CreatePackDirectory \/ \E unit \in {"remove", "abandoned", "terminal"} :
                 RemovePlacement(unit)
      <3>1. fs'["canonical"] = fs["canonical"] /\ fs'["claim"] = fs["claim"]
        BY <2>2, <2>p DEF CreatePackDirectory, RemovePlacement, Place
      <3>q. QED
        BY <3>1, <2>p
    <2>3. CASE RenameToCanonical
      <3>1. fs' = fs \/ (fs["canonical"] = "none" /\ fs'["claim"] = fs["claim"])
        BY <2>3, <2>p DEF RenameToCanonical, RenameNoreplace, Place
      <3>q. QED
        BY <3>1, <2>p
    <2>4. CASE DetachDirectory
      <3>1. \/ fs' = fs
            \/ /\ fs["claim"] = "none"
               /\ fs' = [fs EXCEPT !["claim"] = fs["canonical"], !["canonical"] = "none"]
        BY <2>4 DEF DetachDirectory, RenameNoreplace
      <3>2. ASSUME fs' # fs PROVE fs'["claim"] = fs["canonical"]
        BY <3>1, <3>2, <2>p DEF Place
      <3>3. fs' = fs \/ fs'["placement"] = fs["placement"]
        BY <3>1, <2>p DEF Place
      <3>q. QED
        BY <3>1, <3>2, <3>3, <2>p
    <2>5. CASE CaptureIntended
      <3>1. \/ fs' = fs
            \/ /\ fs["claim"] = "none"
               /\ fs' = [fs EXCEPT !["claim"] = fs["canonical"], !["canonical"] = "none"]
        BY <2>5 DEF CaptureIntended, RenameNoreplace
      <3>2. ASSUME fs' # fs PROVE fs'["claim"] = fs["canonical"]
        BY <3>1, <3>2, <2>p DEF Place
      <3>3. fs' = fs \/ fs'["placement"] = fs["placement"]
        BY <3>1, <2>p DEF Place
      <3>q. QED
        BY <3>1, <3>2, <3>3, <2>p
    <2>6. CASE RemoveTree
      <3>1. fs["claim"] = "ours" /\ fs'["canonical"] = fs["canonical"]
        BY <1>1, <2>6, <2>p DEF RemoveTree, AtStep, AtClaim, Place
      <3>q. QED
        BY <3>1, <2>p
    <2>7. CASE Foreign
      <3>1. foreign' # foreign
        BY <1>1, <2>7 DEF Foreign, TypeOK
      <3>q. QED
        BY <3>1
    <2>8. \/ fs' = fs \/ CreatePackDirectory \/ RenameToCanonical \/ DetachDirectory
          \/ CaptureIntended \/ RemoveTree \/ Foreign
          \/ \E unit \in {"remove", "abandoned", "terminal"} : RemovePlacement(unit)
      <3>2. CASE UnitStep
        BY <3>2 DEF UnitStep, ReservePackQueueCreation, PackImageDirectories,
           ExtractSplitRars, ScanPlain, Heartbeat, SaveCreating, SavePlacementCarrier,
           SavePrivateDirectory, MapPackFiles, BeginPackQueueAttachment, InsertPlainQueue,
           SaveAttaching, KeepInPlacement, SaveReady, CommitGeneratedQueue,
           RecheckGeneratedQueue, DropEmptyPlacement, PromoteGeneratedQueue,
           DiscardPlacement, SavePlacementDiscarded, NothingToRemove,
           ReleasePackQueueCreation, ClaimExpiredReservation, RecoverQueued,
           ReleaseStaleFence, RecoverAbandoned, CompleteAbandoned,
           AcquireCleanupReservation, DetachTerminal, SaveTerminalPlacement, SaveClaim,
           SaveClaiming, SaveClaimed, RecordOwnedTombstone, RemoveTombstones,
           SaveDiscarding, SaveDiscarded, DropReservationClaim, SaveTerminalReceipt,
           ForgetTombstone
      <3>3. CASE StartQueue \/ StartCleanup \/ StartRecovery \/ ClaimImport
                 \/ FreezePackOrigin \/ ImportCommits \/ PackCleanupDelegated
                 \/ ImportFails \/ Operator \/ Expire \/ Stop
        BY <3>3 DEF StartQueue, StartCleanup, StartRecovery, ClaimImport,
           FreezePackOrigin, ImportCommits, PackCleanupDelegated, ImportFails, Operator,
           Expire, Stop
      <3>q. QED
        BY <1>1, <3>2, <3>3 DEF Next
    <2>q. QED
      BY <2>1, <2>2, <2>3, <2>4, <2>5, <2>6, <2>7, <2>8
  <1>2. IInv /\ [Next]_vars => [ForeignUntouched]_vars
    BY <1>1 DEF ForeignUntouched
  <1>q. QED
    BY <1>2, PackInvariant, PTL DEF Spec, ForeignKept
=============================================================================
