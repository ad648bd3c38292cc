----------------------- MODULE PublicationFilesProofs -----------------------
(***************************************************************************)
(* Proofs, for every number of files, of interruptions and of changes by   *)
(* others, that a publication loses no file, that its journal accounts for *)
(* the whole batch, and that it implements AtomicBatch.                    *)
(*                                                                         *)
(* FileInv(f) speaks of one file: what each place may hold, given the      *)
(* journal of that file and the decision.  It mentions neither the unit at *)
(* work nor the allocation intent, so a step for one file keeps it for all *)
(* others.  UnitInv relates the position of the unit to the files it has   *)
(* behind it.                                                              *)
(***************************************************************************)
EXTENDS PublicationRefinement, TLAPS

Early == {"none", "allocated", "claiming"}
Late  == {"restoring", "restored", "discarding", "discarded"}
Undoing == decision \in {"compensate", "compensated"}
OriginOf(f, p) == carrier[f][p].origin

\* The journal of a carrier is ahead of the carrier.
CarrierInv(f) == \A p \in Purpose :
  /\ PhaseOf(f, p) \in Early <=> Captured(f, p) = "none"
  /\ At(f, p) # "none" => PhaseOf(f, p) \notin {"none", "allocated", "discarded"}
  /\ At(f, p) # "none" /\ PhaseOf(f, p) # "claiming" => Captured(f, p) = At(f, p)
  /\ p # "publication" /\ PhaseOf(f, p) \in {"claimed", "restoring", "restored"} =>
       At(f, p) = Captured(f, p)

\* Whose content may be where.
ContentInv(f) ==
  /\ At(f, "final") # "srcdata" /\ At(f, "stage") \in {"none", "new"}
  /\ \A l \in {"flat", "original"} : At(f, l) \in {"none", "old", "foreign"}
  /\ \A l \in {"src", "srcflat", "source"} : At(f, l) \in {"none", "srcdata", "foreign"}
  /\ At(f, "publication") \in {"none", "new"}
  /\ At(f, "rollback") \in {"none", "new", "foreign"}
  /\ f \notin outside => \A l \in Place : At(f, l) # "foreign"
  /\ decision # "commit" /\ f \notin outside => At(f, "src") = "srcdata"
  /\ <<f, "old">> \in taken => f \in outside

\* Our publication is not, or no longer, at the public name.
Gone(f) ==
  \/ ~receipt[f] /\ PhaseOf(f, "publication") # "restoring"
  \/ Captured(f, "rollback") = "new"

PublicationInv(f) ==
  /\ PhaseOf(f, "publication") = "restoring" \/ receipt[f] => OldKept(f) /\ Copied(f)
  /\ receipt[f] => PhaseOf(f, "publication") \in {"restored", "discarding", "discarded"}
  /\ At(f, "final") = "new" =>
       /\ PhaseOf(f, "publication") = "restoring" \/ receipt[f]
       /\ Captured(f, "rollback") = "none" /\ At(f, "rollback") = "none"

OriginalInv(f) ==
  /\ f \notin setup.overwrite => PhaseOf(f, "original") = "none" /\ At(f, "flat") = "none"
  /\ ~setup.native => At(f, "flat") = "none"
  /\ PhaseOf(f, "original") \in {"allocated", "claiming"} =>
       OriginOf(f, "original") = "flat" \/ (OriginOf(f, "original") = "final" /\ ~setup.native)
  /\ At(f, "original") # "none" \/ PhaseOf(f, "original") \notin Early => At(f, "flat") = "none"
  /\ PhaseOf(f, "original") # "none" \/ At(f, "flat") # "none" => Copied(f)
  /\ PhaseOf(f, "original") \in {"discarding", "discarded"} => Captured(f, "original") = "old"
  /\ PhaseOf(f, "original") \in Late =>
       decision = "commit" \/ (decision # "pending" /\ Gone(f))
  /\ At(f, "final") = "old" =>
       /\ f \in setup.overwrite /\ At(f, "flat") = "none"
       /\ At(f, "original") = "none" \/ PhaseOf(f, "original") \in Late
       /\ PhaseOf(f, "original") # "claimed"

\* Where the replaced file is, unless somebody took it away.
OldInv(f) ==
  f \in setup.overwrite /\ decision # "commit" /\ <<f, "old">> \notin taken =>
    /\ PhaseOf(f, "original") = "none" =>
         At(f, "flat") = "old" \/ (At(f, "flat") = "none" /\ At(f, "final") = "old")
    /\ PhaseOf(f, "original") = "allocated" => At(f, OriginOf(f, "original")) = "old"
    /\ PhaseOf(f, "original") = "claiming" =>
         \/ At(f, "original") = "old"
         \/ At(f, "original") = "none" /\ At(f, OriginOf(f, "original")) = "old"
    /\ PhaseOf(f, "original") \in {"claimed", "restoring"} => At(f, "original") = "old"
    /\ PhaseOf(f, "original") \in {"restored", "discarding", "discarded"} =>
         At(f, "final") = "old"

RollbackInv(f) ==
  /\ PhaseOf(f, "rollback") # "none" => receipt[f] /\ Undoing
  /\ PhaseOf(f, "rollback") \in {"allocated", "claiming"} => OriginOf(f, "rollback") = "final"
  /\ PhaseOf(f, "rollback") \in {"discarding", "discarded"} => Captured(f, "rollback") = "new"
  /\ PhaseOf(f, "rollback") \in {"restoring", "restored"} => Captured(f, "rollback") = "foreign"

SourceInv(f) ==
  /\ decision # "commit" \/ ~setup.move =>
       PhaseOf(f, "source") = "none" /\ At(f, "srcflat") = "none"
  /\ ~setup.native => At(f, "srcflat") = "none"
  /\ PhaseOf(f, "source") \in {"allocated", "claiming"} =>
       OriginOf(f, "source") = "srcflat" \/ (OriginOf(f, "source") = "src" /\ ~setup.native)
  /\ At(f, "source") # "none" \/ PhaseOf(f, "source") \notin Early => At(f, "srcflat") = "none"

\* A version of somebody else is at a place that is not being discarded.
BroughtInv(f) ==
  f \in brought => \E l \in Place : /\ At(f, l) = "foreign"
                                    /\ l = "source" => PhaseOf(f, "source") # "discarding"

FileInv(f) ==
  /\ CarrierInv(f) /\ ContentInv(f) /\ PublicationInv(f) /\ OriginalInv(f) /\ OldInv(f)
  /\ RollbackInv(f) /\ SourceInv(f) /\ BroughtInv(f)
  /\ decision = "commit" => receipt[f]
  /\ decision = "commit" /\ outside = {} => At(f, "final") = "new"

\* The one allocation intent, and the origin the unit has in hand for it.
IntentInv == \A f \in File, p \in Purpose : allocating = <<f, p>> =>
  /\ PhaseOf(f, p) = "none"
  /\ p = "original" =>
       /\ f \in setup.overwrite /\ Copied(f)
       /\ run.hand \in Origin => \/ run.hand = "flat" /\ At(f, "flat") # "none"
                                 \/ run.hand = "final" /\ ~setup.native
  /\ p = "rollback" => receipt[f] /\ Undoing /\ (run.hand \in Origin => run.hand = "final")
  /\ p = "source" =>
       /\ decision = "commit" /\ setup.move
       /\ run.hand \in Origin => \/ run.hand = "srcflat" /\ At(f, "srcflat") # "none"
                                 \/ run.hand = "src" /\ ~setup.native

\* What the unit has in hand.
HandInv ==
  /\ run.hand = "armed" => run.task = "publish" /\ run.at \in File
                           /\ PhaseOf(run.at, "publication") = "restoring"
  /\ run.hand = "proved" /\ run.task = "source" /\ run.at \in File =>
       /\ PhaseOf(run.at, "source") = "restored"
       /\ run.at \in brought => \E l \in Place \ {"source"} : At(run.at, l) = "foreign"
  /\ run.hand = "verified" =>
       /\ run.task = "commit"
       /\ \A f \in File : receipt[f] /\ (f \notin outside => At(f, "final") = "new")

\* A file whose compensation is over, its evidence discarded or not.
Settled(f) ==
  /\ Gone(f) /\ At(f, "flat") = "none"
  /\ PhaseOf(f, "original") \in {"none", "restored", "discarding", "discarded"}
  /\ Captured(f, "original") \in {"none", "old"}
CleanDropped(f) == Dropped(f, "original") /\ Dropped(f, "publication")
UndoDropped(f) == CleanDropped(f) /\ Dropped(f, "rollback")
SourceDone(f) ==
  PhaseOf(f, "source") = "discarded" \/ (PhaseOf(f, "source") = "none" /\ At(f, "srcflat") = "none")

\* The files are published in order; a published file that changed blocks the
\* compensation for ever, and only behind one can a copy be half made.
OrderInv ==
  /\ \A f, g \in File : f < g /\ PhaseOf(g, "publication") # "none" => receipt[f]
  /\ decision = "pending" /\ stagePhase # "ready" =>
       \A f \in File : PhaseOf(f, "publication") = "none"
  /\ stagePhase = "discarded" => \A f \in File : At(f, "stage") = "none"
Stuck(f) == receipt[f] /\ PhaseOf(f, "rollback") = "none" /\ At(f, "final") # "new"
            /\ allocating # <<f, "rollback">>
StuckInv ==
  Undoing => \A g \in File : PhaseOf(g, "publication") \in {"allocated", "claiming"} =>
    \E f \in File : Stuck(f)

\* What the unit at work has behind it.
UnitInv ==
  /\ run.task = "idle" => run = Idle
  /\ run.task = "publish" => /\ decision = "pending" /\ state = "publishing"
                             /\ \A g \in File : g < run.at => receipt[g]
  /\ run.task = "commit" => decision = "pending" /\ state = "published"
  /\ run.task = "restore" => /\ decision = "compensate" /\ run.at \in File
                             /\ \A g \in File : g > run.at => Settled(g)
  /\ run.task = "drop" => /\ decision = "compensate" /\ run.at \in File
                          /\ \A g \in File : Settled(g)
                          /\ \A g \in File : g < run.at => UndoDropped(g)
  /\ run.task = "source" => /\ decision = "commit" /\ setup.move
                            /\ \A g \in File : g < run.at => run.blocked \/ SourceDone(g)
  /\ run.task = "clean" => /\ decision = "commit" /\ run.at \in File
                           /\ \A g \in File : g < run.at => CleanDropped(g)
                           /\ \A g \in File : run.blocked \/ SourceDone(g)
  /\ run.task \in {"stage", "finish"} =>
       /\ decision \in {"compensate", "compensated"} =>
            \A g \in File : Settled(g) /\ UndoDropped(g)
       /\ decision = "commit" =>
            \A g \in File : CleanDropped(g) /\ (run.blocked \/ SourceDone(g))
       /\ decision # "pending"
  /\ run.task = "finish" => stagePhase = "discarded"

\* What the decision and the state of the row say together.
DecisionInv ==
  /\ decision = "commit" <=> state \in {"db_committed", "cleaning"}
                             \/ (state = "finalized" /\ decision # "compensated")
  /\ decision = "compensated" => \A g \in File : Settled(g) /\ UndoDropped(g)
  /\ state = "finalized" =>
       /\ run = Idle /\ decision \in {"commit", "compensated"} /\ stagePhase = "discarded"
       /\ decision = "commit" => \A g \in File : CleanDropped(g) /\ SourceDone(g)

IInv == /\ TypeOK
        /\ \A f \in File : FileInv(f)
        /\ IntentInv /\ HandInv /\ OrderInv /\ StuckInv /\ UnitInv /\ DecisionInv

-----------------------------------------------------------------------------
(* The operations on one place and on one carrier.                         *)

USE DEF At, PhaseOf, Captured, OriginOf

LEMMA Typed ==
  ASSUME TypeOK, NEW f \in File
  PROVE  /\ place[f] \in [Place -> Content]
         /\ carrier[f] \in [Purpose -> CarrierRow]
         /\ receipt[f] \in BOOLEAN
  BY DEF TypeOK

LEMMA PutEffect ==
  ASSUME TypeOK, NEW f \in File, NEW l \in Place, NEW c \in Content, Put(f, l, c)
  PROVE  /\ place' \in [File -> [Place -> Content]]
         /\ \A g \in File : g # f => place'[g] = place[g]
         /\ place'[f] = [place[f] EXCEPT ![l] = c]
  BY DEF TypeOK, Put

LEMMA MoveEffect ==
  ASSUME TypeOK, NEW f \in File, NEW from \in Place, NEW to \in Place, Move(f, from, to)
  PROVE  /\ place' \in [File -> [Place -> Content]]
         /\ \A g \in File : g # f => place'[g] = place[g]
         /\ place'[f] = [place[f] EXCEPT ![to] = place[f][from], ![from] = "none"]
  <1> DEFINE moved == [place[f] EXCEPT ![to] = place[f][from], ![from] = "none"]
  <1>1. place[f] \in [Place -> Content] /\ "none" \in Content
    BY Typed DEF Content
  <1>2. moved \in [Place -> Content]
    BY <1>1
  <1>3. place' = [place EXCEPT ![f] = moved]
    BY DEF Move, TypeOK
  <1> HIDE DEF moved
  <1>4. /\ place' \in [File -> [Place -> Content]]
        /\ \A g \in File : g # f => place'[g] = place[g]
        /\ place'[f] = moved
    BY <1>2, <1>3 DEF TypeOK
  <1>q. QED
    BY <1>4 DEF moved

LEMMA PhaseEffect ==
  ASSUME TypeOK, NEW f \in File, NEW p \in Purpose, NEW ph \in Phase, SetPhase(f, p, ph)
  PROVE  /\ carrier' \in [File -> [Purpose -> CarrierRow]]
         /\ \A g \in File : g # f => carrier'[g] = carrier[g]
         /\ carrier'[f] = [carrier[f] EXCEPT ![p].phase = ph]
  <1> DEFINE row == [carrier[f][p] EXCEPT !.phase = ph]
             rows == [carrier[f] EXCEPT ![p] = row]
  <1>1. carrier[f] \in [Purpose -> CarrierRow]
    BY Typed
  <1>2. row \in CarrierRow
    BY <1>1 DEF CarrierRow
  <1>3. carrier' = [carrier EXCEPT ![f] = rows] /\ rows = [carrier[f] EXCEPT ![p].phase = ph]
    BY DEF SetPhase, TypeOK
  <1> HIDE DEF row
  <1>4. rows \in [Purpose -> CarrierRow]
    BY <1>1, <1>2
  <1> HIDE DEF rows
  <1>5. /\ carrier' \in [File -> [Purpose -> CarrierRow]]
        /\ \A g \in File : g # f => carrier'[g] = carrier[g]
        /\ carrier'[f] = rows
    BY <1>3, <1>4 DEF TypeOK
  <1>q. QED
    BY <1>3, <1>5

-----------------------------------------------------------------------------
(* A step for one file.                                                    *)

Same(g) == place'[g] = place[g] /\ carrier'[g] = carrier[g] /\ receipt'[g] = receipt[g]

LEMMA SameFile ==
  ASSUME NEW g \in File, FileInv(g), Same(g), UNCHANGED <<setup, decision, history>>
  PROVE  FileInv(g)'
  <1>1. CarrierInv(g)' /\ ContentInv(g)' /\ PublicationInv(g)'
    BY DEF FileInv, CarrierInv, ContentInv, PublicationInv, OldKept, Copied, Same, history
  <1>2. OriginalInv(g)' /\ OldInv(g)'
    BY DEF FileInv, OriginalInv, OldInv, Gone, Copied, Same, history
  <1>3. RollbackInv(g)' /\ SourceInv(g)' /\ BroughtInv(g)'
    BY DEF FileInv, RollbackInv, SourceInv, BroughtInv, Undoing, Same, history
  <1>q. QED
    BY <1>1, <1>2, <1>3 DEF FileInv, Same, history

FileTask == {"publish", "restore", "drop", "source", "clean"}
MoveTask == {"publish", "restore", "source"}

\* A step of the unit for its file f leaves the other files and the place of the
\* unit alone.
Local(f) ==
  /\ \A g \in File : g # f => Same(g)
  /\ UNCHANGED <<setup, state, decision, stagePhase, history>>
  /\ run'.task = run.task /\ run'.at = run.at /\ run'.blocked = run.blocked

\* What such a step does to its file, as far as the other invariants depend on it.
Onward(f) ==
  /\ receipt[f] => receipt'[f]
  /\ place'[f]["stage"] = place[f]["stage"]
  /\ \/ PhaseOf(f, "publication")' = PhaseOf(f, "publication")
     \/ run.task = "publish" /\ stagePhase = "ready"
     \/ run.task # "publish" /\ PhaseOf(f, "publication")' \notin Early
        /\ PhaseOf(f, "publication") # "none"
  /\ Undoing /\ Stuck(f) => Stuck(f)'
  /\ \A g \in File : g # f /\ allocating' = <<g, "rollback">> => allocating = <<g, "rollback">>
  /\ run.task = "drop" => Settled(f)'
  /\ run.task = "clean" /\ SourceDone(f) => SourceDone(f)'

LEMMA LocalStep ==
  ASSUME IInv, NEW f \in File, run.at = f, run.task \in FileTask, Local(f), TypeOK',
         FileInv(f)', IntentInv', HandInv', Onward(f)
  PROVE  IInv'
  <1>1. \A g \in File : FileInv(g)'
    BY SameFile DEF IInv, Local
  <1>2. OrderInv'
    <2>1. ASSUME NEW g \in File, NEW h \in File, g < h, PhaseOf(h, "publication")' # "none"
          PROVE  receipt'[g]
      <3>1. receipt[g]
        BY <2>1 DEF IInv, OrderInv, UnitInv, Onward, Local, Same, FileTask, Early
      <3>q. QED
        BY <3>1 DEF Onward, Local, Same
    <2>2. ASSUME decision' = "pending", stagePhase' # "ready", NEW g \in File
          PROVE  PhaseOf(g, "publication")' = "none"
      BY <2>2 DEF IInv, OrderInv, UnitInv, Onward, Local, Same, FileTask
    <2>3. ASSUME stagePhase' = "discarded", NEW g \in File PROVE At(g, "stage")' = "none"
      BY <2>3 DEF IInv, OrderInv, Onward, Local, Same
    <2>q. QED
      BY <2>1, <2>2, <2>3 DEF OrderInv
  <1>3. StuckInv'
    <2> SUFFICES ASSUME Undoing', NEW g \in File,
                        PhaseOf(g, "publication")' \in {"allocated", "claiming"}
                 PROVE  \E h \in File : Stuck(h)'
      BY DEF StuckInv
    <2>1. Undoing /\ run.task # "publish"
      BY DEF Undoing, Local, IInv, UnitInv
    <2>2. PhaseOf(g, "publication") \in {"allocated", "claiming"}
      BY <2>1 DEF Onward, Local, Same, Early
    <2>3. PICK h \in File : Stuck(h)
      BY <2>1, <2>2 DEF IInv, StuckInv
    <2>4. Stuck(h)'
      BY <2>1, <2>3 DEF Stuck, Onward, Local, Same
    <2>q. QED
      BY <2>4
  <1>4. \A g \in File : g # f => /\ Settled(g)' <=> Settled(g)
                                 /\ CleanDropped(g)' <=> CleanDropped(g)
                                 /\ UndoDropped(g)' <=> UndoDropped(g)
                                 /\ SourceDone(g)' <=> SourceDone(g)
    BY DEF Local, Same, Settled, CleanDropped, UndoDropped, SourceDone, Gone, Dropped
  <1>5. UnitInv'
    <2>1. run.at \in Nat /\ f \in Nat
      BY FilesAssumption DEF IInv, TypeOK, Unit, File
    <2>2. CASE run.task = "publish"
      BY <2>1, <2>2 DEF IInv, UnitInv, Local, Same
    <2>3. CASE run.task = "restore"
      BY <1>4, <2>1, <2>3 DEF IInv, UnitInv, Local
    <2>4. CASE run.task = "drop"
      BY <1>4, <2>1, <2>4 DEF IInv, UnitInv, Local, Onward
    <2>5. CASE run.task = "source"
      BY <1>4, <2>1, <2>5 DEF IInv, UnitInv, Local
    <2>6. CASE run.task = "clean"
      BY <1>4, <2>1, <2>6 DEF IInv, UnitInv, Local, Onward
    <2>q. QED
      BY <2>2, <2>3, <2>4, <2>5, <2>6 DEF FileTask
  <1>6. DecisionInv'
    <2>1. decision # "compensated" /\ state # "finalized"
      BY DEF IInv, UnitInv, DecisionInv, FileTask, Idle
    <2>q. QED
      BY <2>1 DEF IInv, DecisionInv, Local
  <1>q. QED
    BY <1>1, <1>2, <1>3, <1>5, <1>6 DEF IInv

LEMMA HandTyped ==
  ASSUME TypeOK, NEW h, h \in {"none", "armed", "linked", "proved", "verified"} \/ h \in Origin,
         Hand(h)
  PROVE  /\ run' \in Unit /\ run'.hand = h
         /\ run'.task = run.task /\ run'.at = run.at /\ run'.blocked = run.blocked
  BY DEF TypeOK, Hand, Unit

LEMMA AllocateStep ==
  ASSUME IInv, NEW f \in File, NEW p \in Purpose, NEW o \in Origin, run.at = f,
         run.task \in FileTask, Allocate(f, p, o),
         p = "original" => /\ f \in setup.overwrite /\ Copied(f)
                           /\ \/ o = "flat" /\ At(f, "flat") # "none"
                              \/ o = "final" /\ ~setup.native,
         p = "rollback" => receipt[f] /\ Undoing /\ o = "final" /\ At(f, "final") = "new",
         p = "source" => /\ decision = "commit" /\ setup.move
                         /\ \/ o = "srcflat" /\ At(f, "srcflat") # "none"
                            \/ o = "src" /\ ~setup.native
  PROVE  IInv'
  <1>1. /\ run' \in Unit /\ run'.hand = o
        /\ run'.task = run.task /\ run'.at = run.at /\ run'.blocked = run.blocked
    BY HandTyped DEF Allocate, IInv
  <1>2. UNCHANGED <<setup, state, decision, carrier, receipt, stagePhase, place, exposed,
                    history, interrupts>> /\ allocating' = <<f, p>>
    BY DEF Allocate
  <1>3. TypeOK'
    BY <1>1, <1>2 DEF IInv, TypeOK, history
  <1>4. Local(f) /\ Same(f)
    BY <1>1, <1>2 DEF Local, Same
  <1>5. FileInv(f)'
    BY <1>4, SameFile DEF IInv, Local
  <1>6. IntentInv'
    <2> SUFFICES ASSUME NEW g \in File, NEW r \in Purpose, allocating' = <<g, r>>
                 PROVE  /\ g = f /\ r = p /\ PhaseOf(f, p)' = "none"
                        /\ p = "rollback" => Undoing'
      BY <1>1, <1>2 DEF IntentInv, Copied
    <2>q. QED
      BY <1>2 DEF Allocate, Undoing
  <1>7. HandInv'
    BY <1>1 DEF HandInv, Origin
  <1>8. Onward(f)
    <2>1. run.task = "drop" => Settled(f)'
      BY <1>2 DEF IInv, UnitInv, Settled, Gone
    <2>2. Undoing /\ Stuck(f) => Stuck(f)'
      BY <1>2 DEF Stuck
    <2>3. SourceDone(f) => SourceDone(f)'
      BY <1>2 DEF SourceDone
    <2>4. ASSUME NEW g \in File, g # f, allocating' = <<g, "rollback">> PROVE FALSE
      BY <1>2, <2>4
    <2>q. QED
      BY <1>2, <2>1, <2>2, <2>3, <2>4 DEF Onward
  <1>q. QED
    BY <1>3, <1>4, <1>5, <1>6, <1>7, <1>8, LocalStep

LEMMA BindStep ==
  ASSUME IInv, NEW f \in File, NEW p \in Purpose, run.at = f, run.task \in MoveTask,
         Bind(f, p), p = "publication" => run.task = "publish" /\ stagePhase = "ready"
  PROVE  IInv'
  <1> DEFINE row == [phase |-> "allocated", origin |-> run.hand, captured |-> "none"]
  <1>1. /\ run' \in Unit /\ run'.hand = "none"
        /\ run'.task = run.task /\ run'.at = run.at /\ run'.blocked = run.blocked
    BY HandTyped DEF Bind, IInv
  <1>2. /\ UNCHANGED <<setup, state, decision, receipt, stagePhase, place, exposed, history,
                       interrupts>>
        /\ allocating' = NoIntent
        /\ carrier' = [carrier EXCEPT ![f] = [carrier[f] EXCEPT ![p] = row]]
    BY DEF Bind, IInv, TypeOK
  <1>3. carrier[f] \in [Purpose -> CarrierRow] /\ row \in CarrierRow
    BY Typed DEF Bind, IInv, CarrierRow, Phase, Content
  <1>4. PhaseOf(f, p) = "none" /\ allocating = <<f, p>> /\ run.hand \in Origin
    BY DEF Bind, IInv, IntentInv
  <1> HIDE DEF row
  <1>5. carrier' \in [File -> [Purpose -> CarrierRow]]
        /\ carrier'[f] = [carrier[f] EXCEPT ![p] = row]
        /\ \A g \in File : g # f => carrier'[g] = carrier[g]
    BY <1>2, <1>3 DEF IInv, TypeOK
  <1>6. \A r \in Purpose : carrier'[f][r] = IF r = p THEN row ELSE carrier[f][r]
    BY <1>3, <1>5
  <1>7. row.phase = "allocated" /\ row.origin = run.hand /\ row.captured = "none"
    BY DEF row
  <1>8. TypeOK'
    BY <1>1, <1>2, <1>5 DEF IInv, TypeOK, history
  <1>9. Local(f)
    BY <1>1, <1>2, <1>5 DEF Local, Same
  <1>10. FileInv(f)'
    <2>0. FileInv(f) /\ "publication" \in Purpose /\ "original" \in Purpose
          /\ "rollback" \in Purpose /\ "source" \in Purpose
      BY DEF IInv, Purpose
    <2>1. CarrierInv(f)'
      BY <1>2, <1>4, <1>6, <1>7, <2>0 DEF FileInv, CarrierInv, Early
    <2>2. ContentInv(f)'
      BY <1>2, <2>0 DEF FileInv, ContentInv, history
    <2>3. PublicationInv(f)'
      BY <1>2, <1>4, <1>6, <1>7, <2>0 DEF FileInv, PublicationInv, OldKept, Copied,
         CarrierInv, Early
    <2>4. OriginalInv(f)'
      BY <1>2, <1>4, <1>6, <1>7, <2>0 DEF FileInv, OriginalInv, Gone, Copied,
         CarrierInv, Early, Late, IInv, IntentInv
    <2>5. OldInv(f)'
      BY <1>2, <1>4, <1>6, <1>7, <2>0 DEF FileInv, OldInv, OriginalInv,
         IInv, IntentInv, history
    <2>6. RollbackInv(f)'
      BY <1>2, <1>4, <1>6, <1>7, <2>0 DEF FileInv, RollbackInv, Undoing, IInv, IntentInv
    <2>7. SourceInv(f)'
      BY <1>2, <1>4, <1>6, <1>7, <2>0 DEF FileInv, SourceInv, Early, IInv, IntentInv
    <2>8. BroughtInv(f)'
      BY <1>2, <1>4, <1>6, <1>7, <2>0 DEF FileInv, BroughtInv, history
    <2>q. QED
      BY <1>2, <2>0, <2>1, <2>2, <2>3, <2>4, <2>5, <2>6, <2>7, <2>8 DEF FileInv, history
  <1>11. IntentInv'
    BY <1>2 DEF IntentInv, NoIntent, File
  <1>12. HandInv'
    BY <1>1 DEF HandInv
  <1>13. Onward(f)
    <2>0. "publication" \in Purpose /\ "original" \in Purpose
          /\ "rollback" \in Purpose /\ "source" \in Purpose
      BY DEF Purpose
    <2>1. run.task \in FileTask \ {"drop", "clean"}
      BY DEF MoveTask, FileTask
    <2>2. Undoing /\ Stuck(f) => Stuck(f)'
      BY <1>2, <1>4, <1>6, <2>0 DEF Stuck, NoIntent
    <2>q. QED
      BY <1>2, <1>4, <1>6, <2>0, <2>1, <2>2 DEF Onward, NoIntent
  <1>14. run.task \in FileTask
    BY DEF MoveTask, FileTask
  <1>q. QED
    BY <1>14, <1>8, <1>9, <1>10, <1>11, <1>12, <1>13, LocalStep

LEMMA Purposes ==
  /\ "publication" \in Purpose /\ "original" \in Purpose
  /\ "rollback" \in Purpose /\ "source" \in Purpose
  BY DEF Purpose

LEMMA PhaseAt ==
  ASSUME TypeOK, NEW f \in File, NEW p \in Purpose, NEW ph \in Phase, SetPhase(f, p, ph)
  PROVE  \A r \in Purpose :
           /\ PhaseOf(f, r)' = IF r = p THEN ph ELSE PhaseOf(f, r)
           /\ Captured(f, r)' = Captured(f, r) /\ OriginOf(f, r)' = OriginOf(f, r)
  <1> DEFINE row == [carrier[f][p] EXCEPT !.phase = ph]
  <1>1. carrier[f] \in [Purpose -> CarrierRow]
    BY Typed
  <1>2. carrier'[f] = [carrier[f] EXCEPT ![p] = row]
    BY PhaseEffect
  <1>3. /\ row.phase = ph /\ row.captured = Captured(f, p)
        /\ row.origin = OriginOf(f, p)
    BY <1>1 DEF CarrierRow
  <1> HIDE DEF row
  <1>4. \A r \in Purpose : carrier'[f][r] = IF r = p THEN row ELSE carrier[f][r]
    BY <1>1, <1>2
  <1>q. QED
    BY <1>3, <1>4

LEMMA ClaimingStep ==
  ASSUME IInv, NEW f \in File, NEW p \in Purpose, run.at = f, run.task \in MoveTask,
         Claiming(f, p), p = "publication" => run.task = "publish" /\ stagePhase = "ready"
  PROVE  IInv'
  <1>1. /\ UNCHANGED <<setup, state, decision, allocating, receipt, stagePhase, place, run,
                       exposed, history, interrupts>>
        /\ SetPhase(f, p, "claiming") /\ PhaseOf(f, p) = "allocated"
    BY DEF Claiming, OnlyCarrier
  <1>2. TypeOK /\ "claiming" \in Phase
    BY DEF IInv, Phase
  <1>3. /\ carrier' \in [File -> [Purpose -> CarrierRow]]
        /\ \A g \in File : g # f => carrier'[g] = carrier[g]
    BY <1>1, <1>2, PhaseEffect
  <1>4. \A r \in Purpose :
           /\ PhaseOf(f, r)' = IF r = p THEN "claiming" ELSE PhaseOf(f, r)
           /\ Captured(f, r)' = Captured(f, r) /\ OriginOf(f, r)' = OriginOf(f, r)
    BY <1>1, <1>2, PhaseAt
  <1>5. TypeOK'
    BY <1>1, <1>2, <1>3 DEF TypeOK, history
  <1>6. Local(f)
    BY <1>1, <1>3 DEF Local, Same
  <1>7. FileInv(f)'
    <2>0. FileInv(f)
      BY DEF IInv
    <2>1. CarrierInv(f)'
      BY <1>1, <1>4, <2>0 DEF FileInv, CarrierInv, Early
    <2>2. ContentInv(f)'
      BY <1>1, <2>0 DEF FileInv, ContentInv, history
    <2>3. PublicationInv(f)'
      BY <1>1, <1>4, <2>0, Purposes DEF FileInv, PublicationInv, OldKept, Copied
    <2>4. OriginalInv(f)'
      BY <1>1, <1>4, <2>0, Purposes DEF FileInv, OriginalInv, Gone, Copied, Early, Late
    <2>5. OldInv(f)'
      BY <1>1, <1>4, <2>0, Purposes DEF FileInv, OldInv, CarrierInv, history
    <2>6. RollbackInv(f)'
      BY <1>1, <1>4, <2>0, Purposes DEF FileInv, RollbackInv, Undoing
    <2>7. SourceInv(f)'
      BY <1>1, <1>4, <2>0, Purposes DEF FileInv, SourceInv, Early
    <2>8. BroughtInv(f)'
      BY <1>1, <1>4, <2>0, Purposes DEF FileInv, BroughtInv, history
    <2>q. QED
      BY <1>1, <2>0, <2>1, <2>2, <2>3, <2>4, <2>5, <2>6, <2>7, <2>8 DEF FileInv, history
  <1>8. IntentInv'
    BY <1>1, <1>3, <1>4, Purposes DEF IInv, IntentInv, Copied, Undoing
  <1>9. HandInv'
    BY <1>1, <1>4, Purposes DEF IInv, HandInv, MoveTask, history
  <1>10. Onward(f)
    <2>1. run.task \in FileTask \ {"drop", "clean"}
      BY DEF MoveTask, FileTask
    <2>2. Undoing /\ Stuck(f) => Stuck(f)'
      BY <1>1, <1>4, Purposes DEF Stuck
    <2>q. QED
      BY <1>1, <1>4, <2>1, <2>2, Purposes DEF Onward
  <1>11. run.task \in FileTask
    BY DEF MoveTask, FileTask
  <1>q. QED
    BY <1>5, <1>6, <1>7, <1>8, <1>9, <1>10, <1>11, LocalStep

LEMMA RecordStep ==
  ASSUME IInv, NEW f \in File, NEW p \in Purpose, run.at = f, run.task \in MoveTask,
         RecordCapture(f, p), p = "publication" => run.task = "publish" /\ stagePhase = "ready"
  PROVE  IInv'
  <1> DEFINE row == [carrier[f][p] EXCEPT !.phase = "claimed", !.captured = At(f, p)]
  <1>1. /\ UNCHANGED <<setup, state, decision, allocating, receipt, stagePhase, place, run,
                       exposed, history, interrupts>>
        /\ PhaseOf(f, p) = "claiming" /\ At(f, p) # "none"
        /\ carrier' = [carrier EXCEPT ![f] = [carrier[f] EXCEPT ![p] = row]]
    BY DEF RecordCapture, OnlyCarrier, IInv, TypeOK
  <1>2. /\ carrier[f] \in [Purpose -> CarrierRow] /\ row \in CarrierRow
        /\ row.phase = "claimed" /\ row.captured = At(f, p) /\ row.origin = OriginOf(f, p)
    <2>1. carrier[f] \in [Purpose -> CarrierRow] /\ At(f, p) \in Content
      BY Typed DEF IInv, Place
    <2>q. QED
      BY <2>1 DEF CarrierRow, Phase
  <1> HIDE DEF row
  <1>3. /\ carrier' \in [File -> [Purpose -> CarrierRow]]
        /\ \A g \in File : g # f => carrier'[g] = carrier[g]
        /\ carrier'[f] = [carrier[f] EXCEPT ![p] = row]
    BY <1>1, <1>2 DEF IInv, TypeOK
  <1>4. \A r \in Purpose :
           /\ PhaseOf(f, r)' = IF r = p THEN "claimed" ELSE PhaseOf(f, r)
           /\ Captured(f, r)' = IF r = p THEN At(f, p) ELSE Captured(f, r)
           /\ OriginOf(f, r)' = OriginOf(f, r)
    BY <1>2, <1>3
  <1>5. TypeOK'
    BY <1>1, <1>3 DEF IInv, TypeOK, history
  <1>6. Local(f)
    BY <1>1, <1>3 DEF Local, Same
  <1>7. FileInv(f)'
    <2>0. FileInv(f) /\ Captured(f, p) = "none"
      BY <1>1 DEF IInv, FileInv, CarrierInv, Early
    <2>1. CarrierInv(f)'
      BY <1>1, <1>4, <2>0 DEF FileInv, CarrierInv, Early
    <2>2. ContentInv(f)'
      BY <1>1, <2>0 DEF FileInv, ContentInv, history
    <2>3. PublicationInv(f)'
      BY <1>1, <1>4, <2>0, Purposes DEF FileInv, PublicationInv, OldKept, Copied
    <2>4. OriginalInv(f)'
      BY <1>1, <1>4, <2>0, Purposes DEF FileInv, OriginalInv, ContentInv, Gone, Copied, Early,
         Late
    <2>5. OldInv(f)'
      BY <1>1, <1>4, <2>0, Purposes DEF FileInv, OldInv, CarrierInv, history
    <2>6. RollbackInv(f)'
      BY <1>1, <1>4, <2>0, Purposes DEF FileInv, RollbackInv, Undoing
    <2>7. SourceInv(f)'
      BY <1>1, <1>4, <2>0, Purposes DEF FileInv, SourceInv, Early
    <2>8. BroughtInv(f)'
      BY <1>1, <1>4, <2>0, Purposes DEF FileInv, BroughtInv, history
    <2>q. QED
      BY <1>1, <2>0, <2>1, <2>2, <2>3, <2>4, <2>5, <2>6, <2>7, <2>8 DEF FileInv, history
  <1>8. IntentInv'
    <2>1. Captured(f, p) = "none"
      BY <1>1 DEF IInv, FileInv, CarrierInv, Early
    <2>q. QED
      BY <1>1, <1>3, <1>4, <2>1, Purposes DEF IInv, IntentInv, Copied, Undoing
  <1>9. HandInv'
    BY <1>1, <1>4, Purposes DEF IInv, HandInv, MoveTask, history
  <1>10. Onward(f)
    <2>1. run.task \in FileTask \ {"drop", "clean"}
      BY DEF MoveTask, FileTask
    <2>2. Undoing /\ Stuck(f) => Stuck(f)'
      BY <1>1, <1>4, Purposes DEF Stuck
    <2>q. QED
      BY <1>1, <1>4, <2>1, <2>2, Purposes DEF Onward
  <1>11. run.task \in FileTask
    BY DEF MoveTask, FileTask
  <1>q. QED
    BY <1>5, <1>6, <1>7, <1>8, <1>9, <1>10, <1>11, LocalStep

LEMMA Places ==
  /\ \A l \in {"final", "flat", "src", "srcflat", "stage", "publication", "original",
               "rollback", "source"} : l \in Place
  /\ Place = {"final", "flat", "src", "srcflat", "stage", "publication", "original",
              "rollback", "source"}
  /\ Origin \subseteq Place /\ Purpose \subseteq Place
  BY DEF Place, Origin, Purpose

LEMMA MoveAt ==
  ASSUME TypeOK, NEW f \in File, NEW from \in Place, NEW to \in Place, from # to,
         Move(f, from, to)
  PROVE  \A l \in Place : At(f, l)' = IF l = from THEN "none"
                                     ELSE IF l = to THEN At(f, from) ELSE At(f, l)
  <1>1. place[f] \in [Place -> Content]
    BY Typed
  <1>2. place'[f] = [place[f] EXCEPT ![to] = place[f][from], ![from] = "none"]
    BY MoveEffect
  <1>q. QED
    BY <1>1, <1>2

LEMMA PutAt ==
  ASSUME TypeOK, NEW f \in File, NEW m \in Place, NEW c \in Content, Put(f, m, c)
  PROVE  \A l \in Place : At(f, l)' = IF l = m THEN c ELSE At(f, l)
  <1>1. place[f] \in [Place -> Content]
    BY Typed
  <1>2. place'[f] = [place[f] EXCEPT ![m] = c]
    BY PutEffect
  <1>q. QED
    BY <1>1, <1>2

LEMMA TakeStep ==
  ASSUME IInv, NEW f \in File, NEW p \in {"original", "rollback", "source"}, run.at = f,
         run.task \in MoveTask, Take(f, p), run.task = "source" <=> p = "source"
  PROVE  IInv'
  <1> DEFINE from == OriginOf(f, p)
  <1>1. /\ UNCHANGED <<setup, state, decision, allocating, carrier, receipt, stagePhase, run,
                       exposed, history, interrupts>>
        /\ PhaseOf(f, p) = "claiming" /\ At(f, p) = "none" /\ At(f, from) # "none"
        /\ Move(f, from, p)
    BY DEF Take, journal
  <1>2. TypeOK /\ FileInv(f) /\ Captured(f, p) = "none"
    BY <1>1 DEF IInv, FileInv, CarrierInv, Early, Purpose
  <1>3. /\ p = "original" => from = "flat" \/ (from = "final" /\ ~setup.native)
        /\ p = "rollback" => from = "final"
        /\ p = "source" => from = "srcflat" \/ (from = "src" /\ ~setup.native)
    BY <1>1, <1>2 DEF FileInv, OriginalInv, RollbackInv, SourceInv
  <1>4. from \in Origin /\ from \in Place /\ p \in Place /\ from # p
    BY <1>3, Places DEF Origin
  <1> HIDE DEF from
  <1>5. /\ place' \in [File -> [Place -> Content]]
        /\ \A g \in File : g # f => place'[g] = place[g]
    BY <1>1, <1>2, <1>4, MoveEffect
  <1>6. \A l \in Place : At(f, l)' = IF l = from THEN "none"
                                     ELSE IF l = p THEN At(f, from) ELSE At(f, l)
    BY <1>1, <1>2, <1>4, MoveAt
  <1>7. TypeOK'
    BY <1>1, <1>2, <1>5 DEF TypeOK, history
  <1>8. Local(f)
    BY <1>1, <1>5 DEF Local, Same
  <1>9. p = "original" => /\ decision # "commit" /\ At(f, "final") # "new"
                          /\ f \in setup.overwrite
    BY <1>1, <1>2, Purposes DEF FileInv, PublicationInv, OldKept, OriginalInv
  <1>10. p = "rollback" => /\ receipt[f] /\ Undoing /\ At(f, "final") # "old"
                           /\ PhaseOf(f, "original") \notin Late
                           /\ f \in setup.overwrite => PhaseOf(f, "original") = "claimed"
    <2>1. PhaseOf(f, "original") \in Phase
      BY <1>2, Typed, Purposes DEF CarrierRow
    <2>q. QED
      BY <1>1, <1>2, <2>1, Purposes DEF FileInv, PublicationInv, OldKept, OriginalInv,
         RollbackInv, CarrierInv, Undoing, Gone, Early, Late, Phase
  <1>11. p = "source" => decision = "commit"
    BY <1>1, <1>2 DEF FileInv, SourceInv
  <1>12. FileInv(f)'
    <2>1. CarrierInv(f)'
      BY <1>1, <1>2, <1>4, <1>6, Places DEF FileInv, CarrierInv, Early, Purpose, Origin
    <2>2. ContentInv(f)'
      <3>1. CASE p = "original"
        <4>1. At(f, "final") \in Content
          BY <1>2, Typed, Places
        <4>2. At(f, "original")' \in {"none", "old", "foreign"}
          BY <1>2, <1>3, <1>6, <1>9, <3>1, <4>1, Places DEF FileInv, ContentInv, Content
        <4>q. QED
          BY <1>1, <1>2, <1>3, <1>6, <3>1, <4>2, Places DEF FileInv, ContentInv, history
      <3>2. CASE p = "rollback"
        <4>1. At(f, "final") \in Content
          BY <1>2, Typed, Places
        <4>2. At(f, "rollback")' \in {"none", "new", "foreign"}
          BY <1>2, <1>3, <1>6, <1>10, <3>2, <4>1, Places DEF FileInv, ContentInv, Content
        <4>q. QED
          BY <1>1, <1>2, <1>3, <1>6, <3>2, <4>2, Places DEF FileInv, ContentInv, history
      <3>3. CASE p = "source"
        BY <1>1, <1>2, <1>3, <1>6, <1>11, <3>3, Places DEF FileInv, ContentInv, history
      <3>q. QED
        BY <3>1, <3>2, <3>3
    <2>3. PublicationInv(f)'
      BY <1>1, <1>2, <1>3, <1>6, <1>9, Places DEF FileInv, PublicationInv, OldKept, Copied
    <2>4. OriginalInv(f)'
      BY <1>1, <1>2, <1>3, <1>6, <1>9, <1>10, Places DEF FileInv, OriginalInv, Gone, Copied, Early,
         Late, from
    <2>5. OldInv(f)'
      <3>1. CASE p = "original"
        BY <1>1, <1>2, <1>3, <1>6, <1>9, <3>1, Places DEF FileInv, OldInv, history, from
      <3>2. CASE p = "rollback"
        BY <1>1, <1>2, <1>3, <1>6, <1>10, <3>2, Places DEF FileInv, OldInv, history
      <3>3. CASE p = "source"
        <4>1. PhaseOf(f, "original") = "allocated" \/ PhaseOf(f, "original") = "claiming" =>
                OriginOf(f, "original") \in {"flat", "final"}
          BY <1>2 DEF FileInv, OriginalInv
        <4>q. QED
          BY <1>1, <1>2, <1>3, <1>6, <1>11, <3>3, <4>1, Places DEF FileInv, OldInv, history
      <3>q. QED
        BY <3>1, <3>2, <3>3
    <2>6. RollbackInv(f)'
      BY <1>1, <1>2 DEF FileInv, RollbackInv, Undoing
    <2>7. SourceInv(f)'
      BY <1>1, <1>2, <1>3, <1>6, Places DEF FileInv, SourceInv, Early
    <2>8. BroughtInv(f)'
      <3> SUFFICES ASSUME f \in brought'
                   PROVE  \E l \in Place :
                            /\ At(f, l)' = "foreign"
                            /\ l = "source" => PhaseOf(f, "source")' # "discarding"
        BY DEF BroughtInv
      <3>1. PICK l \in Place : /\ At(f, l) = "foreign"
                               /\ l = "source" => PhaseOf(f, "source") # "discarding"
        BY <1>1, <1>2 DEF FileInv, BroughtInv, history
      <3>2. CASE l = from
        BY <1>1, <1>4, <1>6, <3>1, <3>2
      <3>3. CASE l # from
        BY <1>1, <1>4, <1>6, <3>1, <3>3
      <3>q. QED
        BY <3>2, <3>3
    <2>9. decision' = "commit" => p = "source"
      BY <1>1, <1>9, <1>10 DEF Undoing
    <2>q. QED
      BY <1>1, <1>2, <1>3, <1>6, <2>1, <2>2, <2>3, <2>4, <2>5, <2>6, <2>7, <2>8, <2>9, Places
         DEF FileInv, history
  <1>13. IntentInv'
    BY <1>1, <1>3, <1>5, <1>6, Places DEF IInv, IntentInv, Copied, Undoing
  <1>14. HandInv'
    BY <1>1 DEF IInv, HandInv, MoveTask, history
  <1>15. Onward(f)
    <2>1. run.task \in FileTask \ {"drop", "clean"}
      BY DEF MoveTask, FileTask
    <2>2. Undoing /\ Stuck(f) => Stuck(f)'
      BY <1>1, <1>3, <1>6, Places DEF Stuck
    <2>q. QED
      BY <1>1, <1>3, <1>6, <2>1, <2>2, Places DEF Onward
  <1>16. run.task \in FileTask
    BY DEF MoveTask, FileTask
  <1>q. QED
    BY <1>7, <1>8, <1>12, <1>13, <1>14, <1>15, <1>16, LocalStep

\* The public file goes to its recovery name, before an intent is recorded.
LEMMA StashStep ==
  ASSUME IInv, NEW f \in File, NEW p \in {"original", "source"}, NEW from, NEW to, run.at = f,
         p = "original" => /\ from = "final" /\ to = "flat" /\ run.task = "publish"
                           /\ f \in setup.overwrite /\ Copied(f),
         p = "source" => from = "src" /\ to = "srcflat" /\ run.task = "source",
         PhaseOf(f, p) = "none", setup.native, At(f, to) = "none", Move(f, from, to),
         UNCHANGED <<setup, journal, run, exposed, history, interrupts>>
  PROVE  IInv'
  <1>1. UNCHANGED <<setup, state, decision, allocating, carrier, receipt, stagePhase, run,
                    exposed, history, interrupts>>
    BY DEF journal
  <1>2. TypeOK /\ FileInv(f) /\ Captured(f, p) = "none" /\ At(f, p) = "none"
    BY DEF IInv, FileInv, CarrierInv, Early, Purpose
  <1>3. from \in Place /\ to \in Place /\ from # to
    BY Places
  <1>4. /\ place' \in [File -> [Place -> Content]]
        /\ \A g \in File : g # f => place'[g] = place[g]
    BY <1>2, <1>3, MoveEffect
  <1>5. \A l \in Place : At(f, l)' = IF l = from THEN "none"
                                     ELSE IF l = to THEN At(f, from) ELSE At(f, l)
    BY <1>2, <1>3, MoveAt
  <1>6. TypeOK'
    BY <1>1, <1>2, <1>4 DEF TypeOK, history
  <1>7. Local(f)
    BY <1>1, <1>4 DEF Local, Same
  <1>8. p = "original" => decision = "pending" /\ At(f, "final") \in {"none", "old", "foreign"}
    <2>1. At(f, "final") \in Content
      BY <1>2, Typed, Places
    <2>q. QED
      BY <1>2, <2>1 DEF IInv, UnitInv, FileInv, PublicationInv, OldKept, ContentInv, Content
  <1>9. p = "source" => decision = "commit" /\ setup.move
    BY DEF IInv, UnitInv
  <1>10. FileInv(f)'
    <2>1. CarrierInv(f)'
      BY <1>1, <1>2, <1>5, Places DEF FileInv, CarrierInv, Purpose
    <2>2. ContentInv(f)'
      BY <1>1, <1>2, <1>5, <1>8, <1>9, Places DEF FileInv, ContentInv, history
    <2>3. PublicationInv(f)'
      BY <1>1, <1>2, <1>5, Places DEF FileInv, PublicationInv, OldKept, Copied
    <2>4. OriginalInv(f)'
      BY <1>1, <1>2, <1>5, Places DEF FileInv, OriginalInv, Gone, Copied, Early, Late
    <2>5. OldInv(f)'
      <3>1. PhaseOf(f, "original") \in {"allocated", "claiming"} =>
                OriginOf(f, "original") \in {"flat", "final"}
        BY <1>2 DEF FileInv, OriginalInv
      <3>q. QED
        BY <1>1, <1>2, <1>5, <1>9, <3>1, Places DEF FileInv, OldInv, history
    <2>6. RollbackInv(f)'
      BY <1>1, <1>2 DEF FileInv, RollbackInv, Undoing
    <2>7. SourceInv(f)'
      BY <1>1, <1>2, <1>5, <1>9, Places DEF FileInv, SourceInv, Early
    <2>8. BroughtInv(f)'
      <3> SUFFICES ASSUME f \in brought'
                   PROVE  \E l \in Place :
                            /\ At(f, l)' = "foreign"
                            /\ l = "source" => PhaseOf(f, "source")' # "discarding"
        BY DEF BroughtInv
      <3>1. PICK l \in Place : /\ At(f, l) = "foreign"
                               /\ l = "source" => PhaseOf(f, "source") # "discarding"
        BY <1>1, <1>2 DEF FileInv, BroughtInv, history
      <3>2. CASE l = from
        BY <1>1, <1>3, <1>5, <3>1, <3>2
      <3>3. CASE l # from
        BY <1>1, <1>3, <1>5, <3>1, <3>3
      <3>q. QED
        BY <3>2, <3>3
    <2>q. QED
      BY <1>1, <1>2, <1>5, <1>8, <2>1, <2>2, <2>3, <2>4, <2>5, <2>6, <2>7, <2>8, Places
         DEF FileInv, history
  <1>11. IntentInv'
    BY <1>1, <1>4, <1>5, Places DEF IInv, IntentInv, Copied, Undoing
  <1>12. HandInv'
    BY <1>1 DEF IInv, HandInv, history
  <1>13. Onward(f)
    <2>1. Undoing /\ Stuck(f) => Stuck(f)'
      BY <1>1, <1>5, Places DEF Stuck
    <2>q. QED
      BY <1>1, <1>5, <2>1, Places DEF Onward
  <1>14. run.task \in FileTask
    BY DEF FileTask
  <1>q. QED
    BY <1>6, <1>7, <1>10, <1>11, <1>12, <1>13, <1>14, LocalStep

\* The private copy: a link of the staged file.
LEMMA CopyStep ==
  ASSUME IInv, NEW f \in File, run.at = f, run.task = "publish", stagePhase = "ready",
         PhaseOf(f, "publication") = "claiming", At(f, "publication") = "none",
         Put(f, "publication", "new"),
         UNCHANGED <<setup, journal, run, exposed, history, interrupts>>
  PROVE  IInv'
  <1>1. UNCHANGED <<setup, state, decision, allocating, carrier, receipt, stagePhase, run,
                    exposed, history, interrupts>>
    BY DEF journal
  <1>2. TypeOK /\ FileInv(f) /\ "new" \in Content
    BY DEF IInv, Content
  <1>3. /\ place' \in [File -> [Place -> Content]]
        /\ \A g \in File : g # f => place'[g] = place[g]
    BY <1>2, PutEffect, Places
  <1>4. \A l \in Place : At(f, l)' = IF l = "publication" THEN "new" ELSE At(f, l)
    BY <1>2, PutAt, Places
  <1>5. TypeOK'
    BY <1>1, <1>2, <1>3 DEF TypeOK, history
  <1>6. Local(f)
    BY <1>1, <1>3 DEF Local, Same
  <1>7. FileInv(f)'
    <2>1. CarrierInv(f)'
      BY <1>1, <1>2, <1>4, Places DEF FileInv, CarrierInv, Purpose
    <2>2. ContentInv(f)'
      BY <1>1, <1>2, <1>4, Places DEF FileInv, ContentInv, history
    <2>3. PublicationInv(f)' /\ OriginalInv(f)'
      BY <1>1, <1>2, <1>4, Places DEF FileInv, PublicationInv, OldKept, Copied, OriginalInv, Gone
    <2>5. OldInv(f)'
      <3>1. PhaseOf(f, "original") \in {"allocated", "claiming"} =>
                OriginOf(f, "original") \in {"flat", "final"}
        BY <1>2 DEF FileInv, OriginalInv
      <3>q. QED
        BY <1>1, <1>2, <1>4, <3>1, Places DEF FileInv, OldInv, history
    <2>6. RollbackInv(f)' /\ SourceInv(f)'
      BY <1>1, <1>2, <1>4, Places DEF FileInv, RollbackInv, SourceInv, Undoing
    <2>7. BroughtInv(f)'
      BY <1>1, <1>2, <1>4 DEF FileInv, BroughtInv, history
    <2>q. QED
      BY <1>1, <1>2, <1>4, <2>1, <2>2, <2>3, <2>5, <2>6, <2>7, Places DEF FileInv, history
  <1>8. IntentInv'
    BY <1>1, <1>3, <1>4, Places DEF IInv, IntentInv, Copied, Undoing
  <1>9. HandInv'
    BY <1>1 DEF IInv, HandInv, history
  <1>10. Onward(f)
    <2>1. Undoing /\ Stuck(f) => Stuck(f)'
      BY <1>1, <1>4, Places DEF Stuck
    <2>q. QED
      BY <1>1, <1>4, <2>1, Places DEF Onward
  <1>11. run.task \in FileTask
    BY DEF FileTask
  <1>q. QED
    BY <1>5, <1>6, <1>7, <1>8, <1>9, <1>10, <1>11, LocalStep

\* The copy is about to get the public name.
LEMMA ArmStep ==
  ASSUME IInv, NEW f \in File, PublishReady(f), At(f, "publication") # "none",
         SetPhase(f, "publication", "restoring"), Hand("armed"),
         UNCHANGED <<setup, state, decision, allocating, receipt, stagePhase, place, exposed,
                     history, interrupts>>
  PROVE  IInv'
  <1>1. /\ run.at = f /\ run.task = "publish" /\ stagePhase = "ready" /\ ~receipt[f]
        /\ Copied(f) /\ OldKept(f) /\ decision = "pending"
    BY DEF PublishReady, Doing, IInv, UnitInv
  <1>2. TypeOK /\ FileInv(f) /\ "restoring" \in Phase
    BY DEF IInv, Phase
  <1>3. /\ run' \in Unit /\ run'.hand = "armed"
        /\ run'.task = run.task /\ run'.at = run.at /\ run'.blocked = run.blocked
    BY <1>2, HandTyped
  <1>4. /\ carrier' \in [File -> [Purpose -> CarrierRow]]
        /\ \A g \in File : g # f => carrier'[g] = carrier[g]
    BY <1>2, PhaseEffect, Purposes
  <1>5. \A r \in Purpose :
           /\ PhaseOf(f, r)' = IF r = "publication" THEN "restoring" ELSE PhaseOf(f, r)
           /\ Captured(f, r)' = Captured(f, r) /\ OriginOf(f, r)' = OriginOf(f, r)
    BY <1>2, PhaseAt, Purposes
  <1>6. TypeOK'
    BY <1>2, <1>3, <1>4 DEF TypeOK, history
  <1>7. Local(f)
    BY <1>3, <1>4 DEF Local, Same
  <1>8. FileInv(f)'
    <2>1. CarrierInv(f)'
      BY <1>1, <1>2, <1>5, Purposes DEF FileInv, CarrierInv, Early, Copied
    <2>2. ContentInv(f)'
      BY <1>2 DEF FileInv, ContentInv, history
    <2>3. PublicationInv(f)'
      BY <1>1, <1>2, <1>5, Purposes DEF FileInv, PublicationInv, OldKept, Copied
    <2>4. OriginalInv(f)'
      BY <1>1, <1>2, <1>5, Purposes DEF FileInv, OriginalInv, Copied, Early, Late
    <2>5. OldInv(f)'
      BY <1>2, <1>5, Purposes DEF FileInv, OldInv, history
    <2>6. RollbackInv(f)' /\ SourceInv(f)'
      BY <1>2, <1>5, Purposes DEF FileInv, RollbackInv, SourceInv, Undoing, Early
    <2>7. BroughtInv(f)'
      BY <1>2, <1>5, Purposes DEF FileInv, BroughtInv, history
    <2>q. QED
      BY <1>1, <1>2, <2>1, <2>2, <2>3, <2>4, <2>5, <2>6, <2>7 DEF FileInv, history
  <1>9. IntentInv'
    <2>1. allocating # <<f, "publication">> /\ run'.hand \notin Origin
      BY <1>1, <1>2, <1>3, Purposes DEF IInv, IntentInv, FileInv, CarrierInv, Early, Copied,
         Origin
    <2>q. QED
      BY <1>4, <1>5, <2>1, Purposes DEF IInv, IntentInv, Copied, Undoing
  <1>10. HandInv'
    BY <1>1, <1>3, <1>5, Purposes DEF HandInv
  <1>11. Onward(f)
    <2>1. Undoing /\ Stuck(f) => Stuck(f)'
      BY <1>1, <1>5, Purposes DEF Stuck
    <2>q. QED
      BY <1>1, <2>1 DEF Onward
  <1>12. run.task \in FileTask
    BY <1>1 DEF FileTask
  <1>q. QED
    BY <1>1, <1>6, <1>7, <1>8, <1>9, <1>10, <1>11, <1>12, LocalStep

\* The rename, or the link, to the public name.
LEMMA PublishStep ==
  ASSUME IInv, NEW f \in File, PublishReady(f), run.hand = "armed",
         At(f, "publication") # "none", At(f, "final") = "none",
         IF setup.native THEN Move(f, "publication", "final") /\ UNCHANGED run
         ELSE Put(f, "final", At(f, "publication")) /\ Hand("linked"),
         UNCHANGED <<setup, journal, exposed, history, interrupts>>
  PROVE  IInv'
  <1>1. /\ run.at = f /\ run.task = "publish" /\ stagePhase = "ready" /\ ~receipt[f]
        /\ Copied(f) /\ OldKept(f) /\ decision = "pending"
        /\ PhaseOf(f, "publication") = "restoring"
    BY DEF PublishReady, Doing, IInv, UnitInv, HandInv
  <1>2. UNCHANGED <<setup, state, decision, allocating, carrier, receipt, stagePhase, exposed,
                    history, interrupts>>
    BY DEF journal
  <1>3. TypeOK /\ FileInv(f) /\ At(f, "publication") = "new" /\ "new" \in Content
    BY DEF IInv, FileInv, ContentInv, Content
  <1>4. /\ run' \in Unit /\ run'.hand \in {"armed", "linked"}
        /\ run'.task = run.task /\ run'.at = run.at /\ run'.blocked = run.blocked
    BY <1>3, HandTyped DEF TypeOK
  <1>5. /\ place' \in [File -> [Place -> Content]]
        /\ \A g \in File : g # f => place'[g] = place[g]
    <2>1. "publication" \in Place /\ "final" \in Place
      BY Places
    <2>2. CASE setup.native
      BY <1>3, <2>1, <2>2, MoveEffect
    <2>3. CASE ~setup.native
      <3>1. Put(f, "final", "new")
        BY <1>3, <2>3
      <3>q. QED
        BY <1>3, <2>1, <3>1, PutEffect
    <2>q. QED
      BY <2>2, <2>3
  <1>6. /\ At(f, "final")' = "new" /\ At(f, "publication")' \in {"none", "new"}
        /\ \A l \in Place \ {"final", "publication"} : At(f, l)' = At(f, l)
    <2>1. CASE setup.native
      <3>1. \A l \in Place : At(f, l)' = IF l = "publication" THEN "none"
                                ELSE IF l = "final" THEN At(f, "publication") ELSE At(f, l)
        BY <1>3, <2>1, MoveAt, Places
      <3>q. QED
        BY <1>3, <3>1, Places
    <2>2. CASE ~setup.native
      <3>1. \A l \in Place : At(f, l)' = IF l = "final" THEN "new" ELSE At(f, l)
        BY <1>3, <2>2, PutAt, Places
      <3>q. QED
        BY <1>3, <3>1, Places
    <2>q. QED
      BY <2>1, <2>2
  <1>7. TypeOK'
    BY <1>2, <1>3, <1>4, <1>5 DEF TypeOK, history
  <1>8. Local(f)
    BY <1>2, <1>4, <1>5 DEF Local, Same
  <1>9. FileInv(f)'
    <2>1. CarrierInv(f)'
      BY <1>1, <1>2, <1>3, <1>6, Places DEF FileInv, CarrierInv, Copied, Early, Purpose
    <2>2. ContentInv(f)'
      BY <1>1, <1>2, <1>3, <1>6, Places DEF FileInv, ContentInv, history
    <2>3. PublicationInv(f)'
      BY <1>1, <1>2, <1>3, <1>6, Places, Purposes DEF FileInv, PublicationInv, OldKept, Copied,
         RollbackInv, CarrierInv, Early, Undoing
    <2>4. OriginalInv(f)'
      BY <1>1, <1>2, <1>3, <1>6, Places DEF FileInv, OriginalInv, Gone, Copied, Early, Late
    <2>5. OldInv(f)'
      <3>1. PhaseOf(f, "original") \in {"allocated", "claiming"} =>
                OriginOf(f, "original") \in {"flat", "final"}
        BY <1>3 DEF FileInv, OriginalInv
      <3>q. QED
        BY <1>2, <1>3, <1>6, <3>1, Places DEF FileInv, OldInv, history
    <2>6. RollbackInv(f)' /\ SourceInv(f)'
      BY <1>2, <1>3, <1>6, Places DEF FileInv, RollbackInv, SourceInv, Undoing, Early
    <2>7. BroughtInv(f)'
      BY <1>2, <1>3, <1>6 DEF FileInv, BroughtInv, history
    <2>q. QED
      BY <1>1, <1>2, <1>3, <2>1, <2>2, <2>3, <2>4, <2>5, <2>6, <2>7 DEF FileInv, history
  <1>10. IntentInv'
    <2>1. run'.hand \notin Origin
      BY <1>4 DEF Origin
    <2>q. QED
      BY <1>2, <2>1 DEF IInv, IntentInv, Copied, Undoing
  <1>11. HandInv'
    BY <1>1, <1>2, <1>4 DEF HandInv
  <1>12. Onward(f)
    <2>1. ~Undoing /\ At(f, "stage")' = At(f, "stage")
      BY <1>1, <1>6, Places DEF Undoing
    <2>q. QED
      BY <1>1, <1>2, <2>1 DEF Onward
  <1>13. run.task \in FileTask
    BY <1>1 DEF FileTask
  <1>q. QED
    BY <1>1, <1>7, <1>8, <1>9, <1>10, <1>11, <1>12, <1>13, LocalStep

\* The receipt of a publication, by the unit that made it or a later one.
LEMMA ReceiptStep ==
  ASSUME IInv, NEW f \in File, run.at = f, run.task \in {"publish", "restore"},
         run.task = "publish" => stagePhase = "ready", ~receipt[f],
         PhaseOf(f, "publication") = "restoring", PublishReceipt(f)
  PROVE  IInv'
  <1>1. /\ UNCHANGED <<setup, state, decision, allocating, stagePhase, place, exposed, history,
                       interrupts>>
        /\ SetPhase(f, "publication", "restored") /\ Hand("none")
        /\ receipt' = [receipt EXCEPT ![f] = TRUE]
    BY DEF PublishReceipt
  <1>2. TypeOK /\ FileInv(f) /\ "restored" \in Phase
    BY DEF IInv, Phase
  <1>3. /\ run' \in Unit /\ run'.hand = "none"
        /\ run'.task = run.task /\ run'.at = run.at /\ run'.blocked = run.blocked
    BY <1>1, <1>2, HandTyped
  <1>4. /\ carrier' \in [File -> [Purpose -> CarrierRow]]
        /\ \A g \in File : g # f => carrier'[g] = carrier[g]
    BY <1>1, <1>2, PhaseEffect, Purposes
  <1>5. \A r \in Purpose :
           /\ PhaseOf(f, r)' = IF r = "publication" THEN "restored" ELSE PhaseOf(f, r)
           /\ Captured(f, r)' = Captured(f, r) /\ OriginOf(f, r)' = OriginOf(f, r)
    BY <1>1, <1>2, PhaseAt, Purposes
  <1>6. /\ receipt' \in [File -> BOOLEAN] /\ receipt'[f] = TRUE
        /\ \A g \in File : g # f => receipt'[g] = receipt[g]
    BY <1>1, <1>2 DEF TypeOK
  <1>7. TypeOK'
    BY <1>1, <1>2, <1>3, <1>4, <1>6 DEF TypeOK, history
  <1>8. Local(f)
    BY <1>1, <1>3, <1>4, <1>6 DEF Local, Same
  <1>9. decision # "commit"
    BY DEF IInv, UnitInv
  <1>10. FileInv(f)'
    <2>1. CarrierInv(f)'
      BY <1>1, <1>2, <1>5, Purposes DEF FileInv, CarrierInv, Early
    <2>2. ContentInv(f)'
      BY <1>1, <1>2 DEF FileInv, ContentInv, history
    <2>3. PublicationInv(f)'
      BY <1>1, <1>2, <1>5, <1>6, Purposes DEF FileInv, PublicationInv, OldKept, Copied
    <2>4. OriginalInv(f)'
      BY <1>1, <1>2, <1>5, <1>6, Purposes DEF FileInv, OriginalInv, Gone, Copied, Early, Late
    <2>5. OldInv(f)'
      BY <1>1, <1>2, <1>5, Purposes DEF FileInv, OldInv, history
    <2>6. RollbackInv(f)' /\ SourceInv(f)'
      BY <1>1, <1>2, <1>5, <1>6, Purposes DEF FileInv, RollbackInv, SourceInv, Undoing, Early
    <2>7. BroughtInv(f)'
      BY <1>1, <1>2, <1>5, Purposes DEF FileInv, BroughtInv, history
    <2>q. QED
      BY <1>1, <1>2, <1>9, <2>1, <2>2, <2>3, <2>4, <2>5, <2>6, <2>7 DEF FileInv, history
  <1>11. IntentInv'
    <2>1. run'.hand \notin Origin
      BY <1>3 DEF Origin
    <2>q. QED
      BY <1>1, <1>4, <1>5, <1>6, <2>1, Purposes DEF IInv, IntentInv, Copied, Undoing
  <1>12. HandInv'
    BY <1>3 DEF HandInv
  <1>13. Onward(f)
    <2>1. ~Stuck(f)
      BY DEF Stuck
    <2>q. QED
      BY <1>1, <1>5, <1>6, <2>1, Purposes DEF Onward, Early
  <1>14. run.task \in FileTask
    BY DEF FileTask
  <1>q. QED
    BY <1>7, <1>8, <1>10, <1>11, <1>12, <1>13, <1>14, LocalStep

-----------------------------------------------------------------------------
(* A captured file goes back: the original or somebody else's file to the  *)
(* public name, a changed source to its path.                              *)

\* What the callers of _restore_private_to have established.
MayRestore(f, p, dest) ==
  \/ p = "original" /\ dest = "final" /\ run.task = "restore" /\ Removed(f)
  \/ p = "rollback" /\ dest = "final" /\ run.task = "restore" /\ Captured(f, p) = "foreign"
  \/ p = "source" /\ dest = "src" /\ run.task = "source" /\ Captured(f, p) = "foreign"

LEMMA RemovedGone ==
  ASSUME NEW f \in File, FileInv(f), Removed(f) PROVE Gone(f)
  BY DEF Removed, Gone, FileInv, RollbackInv

LEMMA RestoringStep ==
  ASSUME IInv, NEW f \in File, NEW p \in {"original", "rollback", "source"}, NEW dest,
         run.at = f, MayRestore(f, p, dest), Restoring(f, p)
  PROVE  IInv'
  <1>1. /\ UNCHANGED <<setup, state, decision, allocating, receipt, stagePhase, place, run,
                       exposed, history, interrupts>>
        /\ SetPhase(f, p, "restoring") /\ PhaseOf(f, p) = "claimed" /\ p \in Purpose
    BY Purposes DEF Restoring, OnlyCarrier
  <1>2. TypeOK /\ FileInv(f) /\ "restoring" \in Phase
    BY DEF IInv, Phase
  <1>3. /\ carrier' \in [File -> [Purpose -> CarrierRow]]
        /\ \A g \in File : g # f => carrier'[g] = carrier[g]
    BY <1>1, <1>2, PhaseEffect
  <1>4. \A r \in Purpose :
           /\ PhaseOf(f, r)' = IF r = p THEN "restoring" ELSE PhaseOf(f, r)
           /\ Captured(f, r)' = Captured(f, r) /\ OriginOf(f, r)' = OriginOf(f, r)
    BY <1>1, <1>2, PhaseAt
  <1>5. p = "original" => decision = "compensate" /\ Gone(f)
    BY <1>2, RemovedGone DEF MayRestore, IInv, UnitInv
  <1>6. TypeOK'
    BY <1>1, <1>2, <1>3 DEF TypeOK, history
  <1>7. Local(f)
    BY <1>1, <1>3 DEF Local, Same
  <1>8. FileInv(f)'
    <2>1. CarrierInv(f)'
      <3>1. \A r \in Purpose : At(f, r)' = At(f, r) /\ Captured(f, r)' = Captured(f, r)
        BY <1>1, <1>4
      <3>2. \A r \in Purpose : r # p => PhaseOf(f, r)' = PhaseOf(f, r)
        BY <1>4
      <3>3. PhaseOf(f, p)' = "restoring" /\ PhaseOf(f, p) = "claimed"
        BY <1>1, <1>4
      <3>4. CarrierInv(f)
        BY <1>2 DEF FileInv
      <3>5. ASSUME NEW r \in Purpose
            PROVE  /\ PhaseOf(f, r)' \in Early <=> Captured(f, r)' = "none"
                   /\ At(f, r)' # "none" => PhaseOf(f, r)' \notin {"none", "allocated", "discarded"}
                   /\ At(f, r)' # "none" /\ PhaseOf(f, r)' # "claiming" =>
                        Captured(f, r)' = At(f, r)'
                   /\ /\ r # "publication"
                      /\ PhaseOf(f, r)' \in {"claimed", "restoring", "restored"}
                      => At(f, r)' = Captured(f, r)'
        <4>1. CASE r = p
          BY <3>1, <3>3, <3>4, <4>1 DEF CarrierInv, Early
        <4>2. CASE r # p
          BY <3>1, <3>2, <3>4, <4>2 DEF CarrierInv, Early
        <4>q. QED
          BY <4>1, <4>2
      <3>q. QED
        BY <3>5 DEF CarrierInv
    <2>2. ContentInv(f)'
      BY <1>1, <1>2 DEF FileInv, ContentInv, history
    <2>3. PublicationInv(f)'
      BY <1>1, <1>2, <1>4, Purposes DEF FileInv, PublicationInv, OldKept, Copied
    <2>4. OriginalInv(f)'
      BY <1>1, <1>2, <1>4, <1>5, Purposes DEF FileInv, OriginalInv, Gone, Copied, Early, Late
    <2>5. OldInv(f)'
      BY <1>1, <1>2, <1>4, Purposes DEF FileInv, OldInv, history
    <2>6. RollbackInv(f)'
      BY <1>1, <1>2, <1>4, Purposes DEF FileInv, RollbackInv, Undoing, MayRestore
    <2>7. SourceInv(f)'
      BY <1>1, <1>2, <1>4, Purposes DEF FileInv, SourceInv, Early
    <2>8. BroughtInv(f)'
      BY <1>1, <1>2, <1>4, Purposes DEF FileInv, BroughtInv, history
    <2>q. QED
      BY <1>1, <1>2, <2>1, <2>2, <2>3, <2>4, <2>5, <2>6, <2>7, <2>8 DEF FileInv, history
  <1>9. IntentInv'
    BY <1>1, <1>3, <1>4, Purposes DEF IInv, IntentInv, Copied, Undoing
  <1>10. HandInv'
    BY <1>1, <1>4, Purposes DEF IInv, HandInv, MayRestore, history
  <1>11. Onward(f)
    <2>1. Undoing /\ Stuck(f) => Stuck(f)'
      BY <1>1, <1>4, Purposes DEF Stuck
    <2>q. QED
      BY <1>1, <1>4, <2>1, Purposes DEF Onward, MayRestore
  <1>12. run.task \in FileTask
    BY DEF FileTask, MayRestore
  <1>q. QED
    BY <1>6, <1>7, <1>8, <1>9, <1>10, <1>11, <1>12, LocalStep

LEMMA LinkStep ==
  ASSUME IInv, NEW f \in File, NEW p \in {"original", "rollback", "source"}, NEW dest,
         run.at = f, MayRestore(f, p, dest), Link(f, p, dest)
  PROVE  IInv'
  <1>1. /\ UNCHANGED <<setup, state, decision, allocating, carrier, receipt, stagePhase,
                       exposed, history, interrupts>>
        /\ PhaseOf(f, p) = "restoring" /\ At(f, p) # "none" /\ At(f, dest) = "none"
        /\ Put(f, dest, At(f, p)) /\ Hand("linked") /\ p \in Purpose
    BY Purposes DEF Link, journal
  <1>2. TypeOK /\ FileInv(f) /\ Captured(f, p) = At(f, p)
    BY <1>1 DEF IInv, FileInv, CarrierInv
  <1>3. dest \in Place /\ p \in Place /\ At(f, p) \in Content /\ dest # p
    BY <1>1, <1>2, Places, Typed DEF MayRestore
  <1>4. /\ run' \in Unit /\ run'.hand = "linked"
        /\ run'.task = run.task /\ run'.at = run.at /\ run'.blocked = run.blocked
    BY <1>1, <1>2, HandTyped
  <1>5. /\ place' \in [File -> [Place -> Content]]
        /\ \A g \in File : g # f => place'[g] = place[g]
    BY <1>1, <1>2, <1>3, PutEffect
  <1>6. \A l \in Place : At(f, l)' = IF l = dest THEN At(f, p) ELSE At(f, l)
    <2>1. TypeOK /\ dest \in Place /\ At(f, p) \in Content /\ Put(f, dest, At(f, p))
      BY <1>1, <1>2, <1>3
    <2>q. QED
      BY <2>1, PutAt
  <1>7. /\ p \in {"original", "rollback"} => dest = "final" /\ decision = "compensate"
        /\ p = "source" => dest = "src" /\ decision = "commit"
        /\ p # "original" => At(f, p) = "foreign"
        /\ p = "original" => At(f, p) \in {"old", "foreign"}
    BY <1>1, <1>2 DEF MayRestore, IInv, UnitInv, FileInv, ContentInv
  <1>8. TypeOK'
    BY <1>1, <1>2, <1>4, <1>5 DEF TypeOK, history
  <1>9. Local(f)
    BY <1>1, <1>4, <1>5 DEF Local, Same
  <1>10. FileInv(f)'
    <2>1. CarrierInv(f)'
      BY <1>1, <1>2, <1>6, <1>7, Places DEF FileInv, CarrierInv, Purpose
    <2>2. ContentInv(f)'
      BY <1>1, <1>2, <1>3, <1>6, <1>7, Places DEF FileInv, ContentInv, history
    <2>3. PublicationInv(f)'
      BY <1>1, <1>2, <1>6, <1>7, Places DEF FileInv, PublicationInv, OldKept, Copied
    <2>4. OriginalInv(f)'
      BY <1>1, <1>2, <1>6, <1>7, Places DEF FileInv, OriginalInv, Gone, Copied, Early, Late
    <2>5. OldInv(f)'
      <3>1. PhaseOf(f, "original") \in {"allocated", "claiming"} =>
                OriginOf(f, "original") \in {"flat", "final"}
        BY <1>2 DEF FileInv, OriginalInv
      <3>q. QED
        BY <1>1, <1>2, <1>6, <1>7, <3>1, Places DEF FileInv, OldInv, history
    <2>6. RollbackInv(f)' /\ SourceInv(f)'
      BY <1>1, <1>2, <1>6, <1>7, Places DEF FileInv, RollbackInv, SourceInv, Undoing, Early
    <2>7. BroughtInv(f)'
      BY <1>1, <1>2, <1>6 DEF FileInv, BroughtInv, history
    <2>q. QED
      BY <1>1, <1>2, <1>6, <1>7, <2>1, <2>2, <2>3, <2>4, <2>5, <2>6, <2>7, Places
         DEF FileInv, history
  <1>11. IntentInv'
    <2>1. run'.hand \notin Origin
      BY <1>4 DEF Origin
    <2>q. QED
      BY <1>1, <2>1 DEF IInv, IntentInv, Copied, Undoing
  <1>12. HandInv'
    BY <1>4 DEF HandInv
  <1>13. Onward(f)
    <2>1. Undoing /\ Stuck(f) => Stuck(f)'
      BY <1>1, <1>6, <1>7, Places DEF Stuck
    <2>q. QED
      BY <1>1, <1>6, <1>7, <2>1, Places DEF Onward, MayRestore
  <1>14. run.task \in FileTask
    BY DEF FileTask, MayRestore
  <1>q. QED
    BY <1>8, <1>9, <1>10, <1>11, <1>12, <1>13, <1>14, LocalStep

LEMMA LinkReceiptStep ==
  ASSUME IInv, NEW f \in File, NEW p \in {"original", "rollback", "source"}, NEW dest,
         run.at = f, MayRestore(f, p, dest), LinkReceipt(f, p, dest)
  PROVE  IInv'
  <1>1. /\ UNCHANGED <<setup, state, decision, allocating, receipt, stagePhase, place,
                       exposed, history, interrupts>>
        /\ PhaseOf(f, p) = "restoring" /\ At(f, dest) = Captured(f, p)
        /\ SetPhase(f, p, "restored") /\ Hand("proved") /\ p \in Purpose
    BY Purposes DEF LinkReceipt
  <1>2. TypeOK /\ FileInv(f) /\ Captured(f, p) = At(f, p) /\ "restored" \in Phase
    BY <1>1 DEF IInv, FileInv, CarrierInv, Phase
  <1>3. /\ run' \in Unit /\ run'.hand = "proved"
        /\ run'.task = run.task /\ run'.at = run.at /\ run'.blocked = run.blocked
    BY <1>1, <1>2, HandTyped
  <1>4. /\ carrier' \in [File -> [Purpose -> CarrierRow]]
        /\ \A g \in File : g # f => carrier'[g] = carrier[g]
    BY <1>1, <1>2, PhaseEffect
  <1>5. \A r \in Purpose :
           /\ PhaseOf(f, r)' = IF r = p THEN "restored" ELSE PhaseOf(f, r)
           /\ Captured(f, r)' = Captured(f, r) /\ OriginOf(f, r)' = OriginOf(f, r)
    BY <1>1, <1>2, PhaseAt
  <1>6. p = "original" => decision = "compensate" /\ Gone(f) /\ dest = "final"
    BY <1>2, RemovedGone DEF MayRestore, IInv, UnitInv
  <1>7. TypeOK'
    BY <1>1, <1>2, <1>3, <1>4 DEF TypeOK, history
  <1>8. Local(f)
    BY <1>1, <1>3, <1>4 DEF Local, Same
  <1>9. FileInv(f)'
    <2>1. CarrierInv(f)'
      BY <1>1, <1>2, <1>5 DEF FileInv, CarrierInv, Early
    <2>2. ContentInv(f)'
      BY <1>1, <1>2 DEF FileInv, ContentInv, history
    <2>3. PublicationInv(f)'
      BY <1>1, <1>2, <1>5, Purposes DEF FileInv, PublicationInv, OldKept, Copied
    <2>4. OriginalInv(f)'
      BY <1>1, <1>2, <1>5, <1>6, Purposes DEF FileInv, OriginalInv, Gone, Copied, Early, Late
    <2>5. OldInv(f)'
      BY <1>1, <1>2, <1>5, <1>6, Purposes DEF FileInv, OldInv, history
    <2>6. RollbackInv(f)'
      BY <1>1, <1>2, <1>5, Purposes DEF FileInv, RollbackInv, Undoing, MayRestore
    <2>7. SourceInv(f)'
      BY <1>1, <1>2, <1>5, Purposes DEF FileInv, SourceInv, Early
    <2>8. BroughtInv(f)'
      BY <1>1, <1>2, <1>5, Purposes DEF FileInv, BroughtInv, history
    <2>q. QED
      BY <1>1, <1>2, <2>1, <2>2, <2>3, <2>4, <2>5, <2>6, <2>7, <2>8 DEF FileInv, history
  <1>10. IntentInv'
    <2>1. run'.hand \notin Origin
      BY <1>3 DEF Origin
    <2>q. QED
      BY <1>1, <1>4, <1>5, <2>1, Purposes DEF IInv, IntentInv, Copied, Undoing
  <1>11. HandInv'
    BY <1>1, <1>3, <1>5, Purposes, Places DEF HandInv, MayRestore
  <1>12. Onward(f)
    <2>1. Undoing /\ Stuck(f) => Stuck(f)'
      BY <1>1, <1>5, Purposes DEF Stuck
    <2>q. QED
      BY <1>1, <1>5, <2>1, Purposes DEF Onward, MayRestore
  <1>13. run.task \in FileTask
    BY DEF FileTask, MayRestore
  <1>q. QED
    BY <1>7, <1>8, <1>9, <1>10, <1>11, <1>12, <1>13, LocalStep

LEMMA ProveStep ==
  ASSUME IInv, NEW f \in File, NEW p \in {"original", "rollback", "source"}, NEW dest,
         run.at = f, MayRestore(f, p, dest), ProveRestored(f, p, dest)
  PROVE  IInv'
  <1>1. /\ UNCHANGED <<setup, state, decision, allocating, carrier, receipt, stagePhase, place,
                       exposed, history, interrupts>>
        /\ PhaseOf(f, p) = "restored" /\ At(f, dest) = Captured(f, p) /\ Hand("proved")
    BY DEF ProveRestored, journal
  <1>2. /\ run' \in Unit /\ run'.hand = "proved"
        /\ run'.task = run.task /\ run'.at = run.at /\ run'.blocked = run.blocked
    BY <1>1, HandTyped DEF IInv
  <1>3. TypeOK'
    BY <1>1, <1>2 DEF IInv, TypeOK, history
  <1>4. Local(f) /\ Same(f)
    BY <1>1, <1>2 DEF Local, Same
  <1>5. FileInv(f)'
    BY <1>4, SameFile DEF IInv, Local
  <1>6. IntentInv'
    <2>1. run'.hand \notin Origin
      BY <1>2 DEF Origin
    <2>q. QED
      BY <1>1, <2>1 DEF IInv, IntentInv, Copied, Undoing
  <1>7. HandInv'
    BY <1>1, <1>2, Places DEF HandInv, MayRestore
  <1>8. Onward(f)
    <2>1. Stuck(f) => Stuck(f)'
      BY <1>1 DEF Stuck
    <2>q. QED
      BY <1>1, <2>1 DEF Onward, MayRestore
  <1>9. run.task \in FileTask
    BY DEF FileTask, MayRestore
  <1>q. QED
    BY <1>3, <1>4, <1>5, <1>6, <1>7, <1>8, <1>9, LocalStep

-----------------------------------------------------------------------------
(* Evidence is discarded: after a compensation, after the commit, or the   *)
(* source of a moved file.                                                 *)

MayDiscard(f, p) ==
  \/ p \in {"rollback", "original", "publication"} /\ run.task = "drop"
  \/ p \in {"original", "publication"} /\ run.task = "clean"
  \/ p = "source" /\ run.task = "source"
  \/ p = "rollback" /\ run.task = "restore"

LEMMA DiscardingStep ==
  ASSUME IInv, NEW f \in File, NEW p \in Purpose, run.at = f, MayDiscard(f, p),
         run.task # "restore", Discarding(f, p),
         p = "source" => Captured(f, p) = "srcdata" \/ run.hand = "proved"
  PROVE  IInv'
  <1>1. /\ UNCHANGED <<setup, state, decision, allocating, receipt, stagePhase, place,
                       exposed, history, interrupts>>
        /\ PhaseOf(f, p) \notin {"none", "discarding", "discarded"}
        /\ Captured(f, p) # "none" /\ SetPhase(f, p, "discarding") /\ Hand("none")
    BY DEF Discarding
  <1>2. TypeOK /\ FileInv(f) /\ "discarding" \in Phase /\ PhaseOf(f, p) \notin Early
    BY <1>1 DEF IInv, FileInv, CarrierInv, Phase
  <1>3. /\ run' \in Unit /\ run'.hand = "none"
        /\ run'.task = run.task /\ run'.at = run.at /\ run'.blocked = run.blocked
    BY <1>1, <1>2, HandTyped
  <1>4. /\ carrier' \in [File -> [Purpose -> CarrierRow]]
        /\ \A g \in File : g # f => carrier'[g] = carrier[g]
    BY <1>1, <1>2, PhaseEffect
  <1>5. \A r \in Purpose :
           /\ PhaseOf(f, r)' = IF r = p THEN "discarding" ELSE PhaseOf(f, r)
           /\ Captured(f, r)' = Captured(f, r) /\ OriginOf(f, r)' = OriginOf(f, r)
    BY <1>1, <1>2, PhaseAt
  <1>6. /\ run.task = "drop" => decision = "compensate" /\ Settled(f)
        /\ run.task = "clean" => decision = "commit" /\ receipt[f]
        /\ p = "source" => run.task = "source" /\ decision = "commit"
    BY <1>2 DEF MayDiscard, IInv, UnitInv, FileInv
  <1>7. /\ p = "original" => Captured(f, p) = "old" /\ Late \subseteq Phase
        /\ p = "original" /\ run.task = "drop" => PhaseOf(f, p) = "restored" /\ Gone(f)
        /\ p = "rollback" => Captured(f, p) = "new"
        /\ p = "publication" => PhaseOf(f, p) # "restoring"
    BY <1>1, <1>2, <1>6, Purposes DEF MayDiscard, Settled, Gone, FileInv, PublicationInv, OldKept,
       OriginalInv, RollbackInv, CarrierInv, Early, Late, Phase
  <1>8. TypeOK'
    BY <1>1, <1>2, <1>3, <1>4 DEF TypeOK, history
  <1>9. Local(f)
    BY <1>1, <1>3, <1>4 DEF Local, Same
  <1>10. FileInv(f)'
    <2>1. CarrierInv(f)'
      BY <1>1, <1>2, <1>5 DEF FileInv, CarrierInv, Early
    <2>2. ContentInv(f)'
      BY <1>1, <1>2 DEF FileInv, ContentInv, history
    <2>3. PublicationInv(f)'
      BY <1>1, <1>2, <1>5, <1>7, Purposes DEF FileInv, PublicationInv, OldKept, Copied
    <2>4. OriginalInv(f)'
      BY <1>1, <1>2, <1>5, <1>6, <1>7, Purposes DEF FileInv, OriginalInv, Gone, Copied, Early, Late,
         MayDiscard
    <2>5. OldInv(f)'
      BY <1>1, <1>2, <1>5, <1>6, <1>7, Purposes DEF FileInv, OldInv, MayDiscard, history
    <2>6. RollbackInv(f)'
      BY <1>1, <1>2, <1>5, <1>7, Purposes DEF FileInv, RollbackInv, Undoing
    <2>7. SourceInv(f)'
      BY <1>1, <1>2, <1>5, Purposes DEF FileInv, SourceInv, Early
    <2>8. BroughtInv(f)'
      <3>1. CASE p # "source"
        BY <1>1, <1>2, <1>5, <3>1, Purposes DEF FileInv, BroughtInv, history
      <3>2. CASE p = "source" /\ run.hand = "proved"
        BY <1>1, <1>6, <3>2 DEF IInv, HandInv, BroughtInv, history
      <3>3. CASE p = "source" /\ Captured(f, p) = "srcdata"
        <4>1. At(f, "source") # "foreign"
          BY <1>1, <1>2, <3>3 DEF FileInv, CarrierInv, Early
        <4>q. QED
          BY <1>1, <1>2, <4>1 DEF FileInv, BroughtInv, history
      <3>q. QED
        BY <3>1, <3>2, <3>3
    <2>q. QED
      BY <1>1, <1>2, <2>1, <2>2, <2>3, <2>4, <2>5, <2>6, <2>7, <2>8 DEF FileInv, history
  <1>11. IntentInv'
    <2>1. run'.hand \notin Origin
      BY <1>3 DEF Origin
    <2>q. QED
      BY <1>1, <1>4, <1>5, <2>1, Purposes DEF IInv, IntentInv, Copied, Undoing
  <1>12. HandInv'
    BY <1>3 DEF HandInv
  <1>13. Onward(f)
    <2>1. Undoing /\ Stuck(f) => Stuck(f)'
      BY <1>1, <1>5, Purposes DEF Stuck
    <2>2. run.task = "drop" => Settled(f)'
      BY <1>1, <1>5, <1>6, <1>7, Purposes DEF Settled, Gone
    <2>3. run.task = "clean" /\ SourceDone(f) => SourceDone(f)'
      BY <1>1, <1>5, <1>6, Purposes DEF SourceDone
    <2>q. QED
      BY <1>1, <1>2, <1>5, <2>1, <2>2, <2>3, Purposes DEF Onward, MayDiscard, Early
  <1>14. run.task \in FileTask
    BY DEF FileTask, MayDiscard
  <1>q. QED
    BY <1>8, <1>9, <1>10, <1>11, <1>12, <1>13, <1>14, LocalStep

\* The artifact itself is unlinked under a durable "discarding".
LEMMA UnlinkStep ==
  ASSUME IInv, NEW f \in File, NEW p \in Purpose, run.at = f, MayDiscard(f, p),
         PhaseOf(f, p) = "discarding", At(f, p) # "none", Put(f, p, "none"),
         UNCHANGED <<setup, state, decision, allocating, carrier, receipt, stagePhase, run,
                     exposed, history, interrupts>>
  PROVE  IInv'
  <1>1. TypeOK /\ FileInv(f) /\ "none" \in Content /\ p \in Place
    BY Places DEF IInv, Content
  <1>2. /\ place' \in [File -> [Place -> Content]]
        /\ \A g \in File : g # f => place'[g] = place[g]
    BY <1>1, PutEffect
  <1>3. \A l \in Place : At(f, l)' = IF l = p THEN "none" ELSE At(f, l)
    BY <1>1, PutAt
  <1>4. p # "source" => At(f, p) # "foreign"
    BY <1>1 DEF FileInv, CarrierInv, ContentInv, OriginalInv, RollbackInv, Purpose
  <1>5. TypeOK'
    BY <1>1, <1>2 DEF TypeOK, history
  <1>6. Local(f)
    BY <1>2 DEF Local, Same
  <1>7. FileInv(f)'
    <2>1. CarrierInv(f)'
      BY <1>1, <1>3, Places DEF FileInv, CarrierInv
    <2>2. ContentInv(f)'
      BY <1>1, <1>3, Places DEF FileInv, ContentInv, Purpose, history
    <2>3. PublicationInv(f)'
      BY <1>1, <1>3, Places DEF FileInv, PublicationInv, OldKept, Copied, Purpose
    <2>4. OriginalInv(f)'
      BY <1>1, <1>3, Places DEF FileInv, OriginalInv, Gone, Copied, Early, Late, Purpose
    <2>5. OldInv(f)'
      <3>1. PhaseOf(f, "original") \in {"allocated", "claiming"} =>
                OriginOf(f, "original") \in {"flat", "final"}
        BY <1>1 DEF FileInv, OriginalInv
      <3>q. QED
        BY <1>1, <1>3, <3>1, Places DEF FileInv, OldInv, Purpose, history
    <2>6. RollbackInv(f)' /\ SourceInv(f)'
      BY <1>1, <1>3, Places DEF FileInv, RollbackInv, SourceInv, Undoing, Early, Purpose
    <2>7. BroughtInv(f)'
      BY <1>1, <1>3, <1>4 DEF FileInv, BroughtInv, history
    <2>q. QED
      BY <1>1, <1>3, <2>1, <2>2, <2>3, <2>4, <2>5, <2>6, <2>7, Places
         DEF FileInv, Purpose, history
  <1>8. IntentInv'
    BY <1>1, <1>2, <1>3, Places DEF IInv, IntentInv, Copied, Undoing, Purpose
  <1>9. HandInv'
    BY DEF IInv, HandInv, MayDiscard, history
  <1>10. Onward(f)
    <2>1. Undoing /\ Stuck(f) => Stuck(f)'
      BY <1>3, Places DEF Stuck, Purpose
    <2>2. run.task = "drop" => Settled(f)'
      BY <1>3, Places DEF Settled, Gone, IInv, UnitInv, Purpose
    <2>3. run.task = "clean" /\ SourceDone(f) => SourceDone(f)'
      BY <1>3, Places DEF SourceDone, Purpose
    <2>q. QED
      BY <1>3, <2>1, <2>2, <2>3, Places DEF Onward, Purpose
  <1>11. run.task \in FileTask
    BY DEF FileTask, MayDiscard
  <1>q. QED
    BY <1>5, <1>6, <1>7, <1>8, <1>9, <1>10, <1>11, LocalStep

LEMMA DiscardedStep ==
  ASSUME IInv, NEW f \in File, NEW p \in Purpose, run.at = f, MayDiscard(f, p),
         PhaseOf(f, p) = "discarding", At(f, p) = "none", SetPhase(f, p, "discarded"),
         Hand("none"),
         UNCHANGED <<setup, state, decision, allocating, receipt, stagePhase, place, exposed,
                     history, interrupts>>
  PROVE  IInv'
  <1>1. TypeOK /\ FileInv(f) /\ "discarded" \in Phase
    BY DEF IInv, Phase
  <1>2. /\ run' \in Unit /\ run'.hand = "none"
        /\ run'.task = run.task /\ run'.at = run.at /\ run'.blocked = run.blocked
    BY <1>1, HandTyped
  <1>3. /\ carrier' \in [File -> [Purpose -> CarrierRow]]
        /\ \A g \in File : g # f => carrier'[g] = carrier[g]
    BY <1>1, PhaseEffect
  <1>4. \A r \in Purpose :
           /\ PhaseOf(f, r)' = IF r = p THEN "discarded" ELSE PhaseOf(f, r)
           /\ Captured(f, r)' = Captured(f, r) /\ OriginOf(f, r)' = OriginOf(f, r)
    BY <1>1, PhaseAt
  <1>5. TypeOK'
    BY <1>1, <1>2, <1>3 DEF TypeOK, history
  <1>6. Local(f)
    BY <1>2, <1>3 DEF Local, Same
  <1>7. FileInv(f)'
    <2>1. CarrierInv(f)'
      BY <1>1, <1>4 DEF FileInv, CarrierInv, Early
    <2>2. ContentInv(f)'
      BY <1>1 DEF FileInv, ContentInv, history
    <2>3. PublicationInv(f)'
      BY <1>1, <1>4, Purposes DEF FileInv, PublicationInv, OldKept, Copied
    <2>4. OriginalInv(f)'
      BY <1>1, <1>4, Purposes DEF FileInv, OriginalInv, Gone, Copied, Early, Late
    <2>5. OldInv(f)'
      BY <1>1, <1>4, Purposes DEF FileInv, OldInv, history
    <2>6. RollbackInv(f)' /\ SourceInv(f)'
      BY <1>1, <1>4, Purposes DEF FileInv, RollbackInv, SourceInv, Undoing, Early
    <2>7. BroughtInv(f)'
      BY <1>1, <1>4, Purposes DEF FileInv, BroughtInv, history
    <2>q. QED
      BY <1>1, <2>1, <2>2, <2>3, <2>4, <2>5, <2>6, <2>7 DEF FileInv, history
  <1>8. IntentInv'
    <2>1. run'.hand \notin Origin
      BY <1>2 DEF Origin
    <2>q. QED
      BY <1>3, <1>4, <2>1, Purposes DEF IInv, IntentInv, Copied, Undoing
  <1>9. HandInv'
    BY <1>2 DEF HandInv
  <1>10. Onward(f)
    <2>1. Undoing /\ Stuck(f) => Stuck(f)'
      BY <1>4, Purposes DEF Stuck
    <2>2. run.task = "drop" => Settled(f)'
      BY <1>4, Purposes DEF Settled, Gone, IInv, UnitInv
    <2>3. run.task = "clean" /\ SourceDone(f) => SourceDone(f)'
      BY <1>4, Purposes DEF SourceDone
    <2>q. QED
      BY <1>4, <2>1, <2>2, <2>3, Purposes DEF Onward, MayDiscard, Early
  <1>11. run.task \in FileTask
    BY DEF FileTask, MayDiscard
  <1>q. QED
    BY <1>5, <1>6, <1>7, <1>8, <1>9, <1>10, <1>11, LocalStep

-----------------------------------------------------------------------------
(* The unit goes on, ends or starts without touching a file.               *)

LEMMA QuietStep ==
  ASSUME IInv, TypeOK', HandInv', UnitInv', DecisionInv',
         run'.hand \in Origin => run'.hand = run.hand,
         UNCHANGED <<setup, decision, allocating, carrier, receipt, stagePhase, place, history>>
  PROVE  IInv'
  <1>1. \A f \in File : FileInv(f)'
    <2>1. \A f \in File : Same(f)
      BY DEF Same
    <2>q. QED
      BY <2>1, SameFile DEF IInv
  <1>2. IntentInv'
    BY DEF IInv, IntentInv, Copied, Undoing
  <1>3. OrderInv'
    BY DEF IInv, OrderInv
  <1>4. StuckInv'
    BY DEF IInv, StuckInv, Stuck, Undoing
  <1>q. QED
    BY <1>1, <1>2, <1>3, <1>4 DEF IInv

LEMMA UnitOnlyStep ==
  ASSUME IInv, UnitOnly, run' \in Unit, HandInv', UnitInv', run.task # "idle",
         run'.hand \in Origin => run'.hand = run.hand
  PROVE  IInv'
  <1>1. UNCHANGED <<setup, state, decision, allocating, carrier, receipt, stagePhase, place,
                    exposed, history, interrupts>>
    BY DEF UnitOnly, journal
  <1>2. TypeOK'
    BY <1>1 DEF IInv, TypeOK, history
  <1>3. state # "finalized"
    BY DEF IInv, DecisionInv, Idle
  <1>4. DecisionInv'
    BY <1>1, <1>3 DEF IInv, DecisionInv, Settled, Gone, UndoDropped, CleanDropped, Dropped
  <1>q. QED
    BY <1>1, <1>2, <1>4, QuietStep

LEMMA FileRange ==
  ASSUME NEW f \in File
  PROVE  /\ f \in Nat /\ f >= 1 /\ f <= N /\ N \in Nat /\ f + 1 \in 1..N + 1
         /\ 1 \in File /\ N \in File /\ N + 1 \in 1..N + 1 /\ 1 \in 1..N + 1
         /\ f # N => f + 1 \in File
         /\ f # 1 => f - 1 \in File /\ f - 1 \in 1..N + 1
  BY FilesAssumption DEF File

LEMMA FileOrder ==
  ASSUME NEW f \in File
  PROVE  \A g \in File : /\ g < f + 1 => g < f \/ g = f
                         /\ g <= f => g < f \/ g = f
                         /\ g >= f => g > f \/ g = f
                         /\ g > f - 1 => g >= f
                         /\ g < f + 1 => g <= f
                         /\ f = 1 => g >= f
                         /\ g <= N /\ ~(g < 1) /\ g < N + 1
  BY FilesAssumption DEF File

LEMMA PublishedFileStep ==
  ASSUME IInv, NEW f \in File, PublishedFile(f) PROVE IInv'
  <1>1. /\ run.task = "publish" /\ run.at = f /\ receipt[f] /\ UnitOnly
        /\ run' = [run EXCEPT !.at = f + 1] /\ run \in Unit
    BY DEF PublishedFile, Doing, NextFile, IInv, TypeOK
  <1>2. run' \in Unit /\ run'.at = f + 1 /\ run'.task = "publish" /\ run'.hand = run.hand
    BY <1>1, FileRange, FileOrder DEF Unit
  <1>3. run.hand \notin {"armed", "verified"}
    BY <1>1 DEF IInv, HandInv, FileInv, PublicationInv
  <1>4. HandInv'
    BY <1>2, <1>3 DEF HandInv
  <1>5. UnitInv'
    <2>1. \A g \in File : g < f + 1 => receipt'[g]
      BY <1>1, FileRange, FileOrder DEF IInv, UnitInv, UnitOnly, journal
    <2>q. QED
      BY <1>1, <1>2, <2>1 DEF IInv, UnitInv, UnitOnly, journal
  <1>q. QED
    BY <1>1, <1>2, <1>4, <1>5, UnitOnlyStep

LEMMA RestoredSettled ==
  ASSUME NEW f \in File, FileInv(f), Removed(f), Restored(f) PROVE Settled(f)
  BY RemovedGone, Purposes DEF Settled, Restored, FileInv, OriginalInv, CarrierInv, Early

LEMMA RestoredFileStep ==
  ASSUME IInv, NEW f \in File, RestoredFile(f) PROVE IInv'
  <1>1. /\ run.task = "restore" /\ run.at = f /\ UnitOnly /\ run \in Unit
        /\ run' = IF f = 1 THEN [run EXCEPT !.task = "drop", !.hand = "none"]
                  ELSE [run EXCEPT !.at = f - 1, !.hand = "none"]
    BY DEF RestoredFile, Doing, IInv, TypeOK
  <1>2. /\ run' \in Unit /\ run'.hand = "none"
        /\ IF f = 1 THEN run'.at = 1 /\ run'.task = "drop"
           ELSE run'.at = f - 1 /\ run'.task = "restore"
    BY <1>1, FileRange, FileOrder, FilesAssumption DEF Unit, File
  <1>3. \A g \in File : g >= f => Settled(g)
    <2>1. Settled(f)
      BY RestoredSettled DEF IInv, RestoredFile
    <2>q. QED
      BY <1>1, <2>1, FileRange, FileOrder DEF IInv, UnitInv
  <1>4. HandInv'
    BY <1>2 DEF HandInv
  <1>5. UnitInv'
    <2>1. /\ \A g \in File : g >= f => Settled(g)'
          /\ decision' = "compensate"
      BY <1>1, <1>3 DEF IInv, UnitInv, UnitOnly, journal, Settled, Gone
    <2>2. \A g \in File : g > f - 1 => g >= f
      BY FileRange, FileOrder
    <2>3. 1 \in File /\ (f # 1 => f - 1 \in File) /\ (f = 1 => \A g \in File : g >= f /\ ~(g < 1))
      BY FileRange, FileOrder
    <2>4. CASE f = 1
      BY <1>2, <2>1, <2>3, <2>4 DEF UnitInv
    <2>5. CASE f # 1
      BY <1>2, <2>1, <2>2, <2>3, <2>5 DEF UnitInv
    <2>q. QED
      BY <2>4, <2>5
  <1>6. run'.hand \notin Origin
    BY <1>2 DEF Origin
  <1>q. QED
    BY <1>1, <1>2, <1>4, <1>5, <1>6, UnitOnlyStep

LEMMA DroppedFileStep ==
  ASSUME IInv, NEW f \in File, Doing("drop", f), UnitOnly,
         \A p \in {"rollback", "original", "publication"} : Dropped(f, p),
         run' = IF f = N THEN [run EXCEPT !.task = "stage"] ELSE [run EXCEPT !.at = f + 1]
  PROVE  IInv'
  <1>1. run.task = "drop" /\ run.at = f /\ run \in Unit
    BY DEF Doing, IInv, TypeOK
  <1>2. /\ run' \in Unit /\ run'.hand = run.hand
        /\ IF f = N THEN run'.at = f /\ run'.task = "stage"
           ELSE run'.at = f + 1 /\ run'.task = "drop"
    BY <1>1, FileRange, FileOrder DEF Unit
  <1>3. HandInv'
    BY <1>1, <1>2 DEF IInv, HandInv
  <1>4. UnitInv'
    <2>1. \A g \in File : Settled(g)' /\ (g <= f => UndoDropped(g)') /\ decision' = "compensate"
      <3>1. \A g \in File : Settled(g) /\ (g < f => UndoDropped(g)) /\ decision = "compensate"
        BY <1>1 DEF IInv, UnitInv
      <3>2. UndoDropped(f)
        BY DEF UndoDropped, CleanDropped
      <3>3. \A g \in File : g <= f => UndoDropped(g)
        BY <3>1, <3>2, FileRange, FileOrder
      <3>q. QED
        BY <3>1, <3>3 DEF UnitOnly, journal, Settled, Gone, UndoDropped, CleanDropped, Dropped
    <2>2. \A g \in File : (g < f + 1 => g <= f) /\ g <= N
      BY FileRange, FileOrder
    <2>3. CASE f = N
      BY <1>2, <2>1, <2>2, <2>3 DEF UnitInv
    <2>4. CASE f # N
      BY <1>2, <2>1, <2>2, <2>4, FileRange, FileOrder DEF UnitInv
    <2>q. QED
      BY <2>3, <2>4
  <1>q. QED
    BY <1>1, <1>2, <1>3, <1>4, UnitOnlyStep

LEMMA SourceFileStep ==
  ASSUME IInv, NEW f \in File, Doing("source", f), UnitOnly,
         \/ SourceDone(f) /\ run' = [run EXCEPT !.at = f + 1]
         \/ run.hand = "none" /\ run' = [run EXCEPT !.at = f + 1, !.blocked = TRUE]
  PROVE  IInv'
  <1>1. run.task = "source" /\ run.at = f /\ run \in Unit
    BY DEF Doing, IInv, TypeOK
  <1>2. /\ run' \in Unit /\ run'.hand = run.hand /\ run'.at = f + 1 /\ run'.task = "source"
        /\ run.blocked => run'.blocked
        /\ SourceDone(f) \/ run'.blocked
    <2>1. f + 1 \in 1..N + 1
      BY FileRange
    <2>2. CASE SourceDone(f) /\ run' = [run EXCEPT !.at = f + 1]
      BY <1>1, <2>1, <2>2 DEF Unit
    <2>3. CASE run.hand = "none" /\ run' = [run EXCEPT !.at = f + 1, !.blocked = TRUE]
      BY <1>1, <2>1, <2>3 DEF Unit
    <2>q. QED
      BY <2>2, <2>3
  <1>3. run.hand # "proved" /\ run.hand # "armed" /\ run.hand # "verified"
    BY <1>1 DEF IInv, HandInv, SourceDone
  <1>4. HandInv'
    BY <1>2, <1>3 DEF HandInv
  <1>5. UnitInv'
    <2>1. \A g \in File : g < f + 1 => run'.blocked \/ SourceDone(g)
      BY <1>1, <1>2, FileRange, FileOrder DEF IInv, UnitInv
    <2>2. \A g \in File : g < f + 1 => run'.blocked \/ SourceDone(g)'
      BY <2>1 DEF SourceDone, UnitOnly, journal
    <2>q. QED
      BY <1>1, <1>2, <2>2 DEF IInv, UnitInv, UnitOnly, journal
  <1>q. QED
    BY <1>1, <1>2, <1>4, <1>5, UnitOnlyStep

LEMMA SourcesDoneStep ==
  ASSUME IInv, SourcesDone PROVE IInv'
  <1>1. /\ run.task = "source" /\ run.at = N + 1 /\ run \in Unit /\ UnitOnly
        /\ run' = [run EXCEPT !.task = "clean", !.at = 1]
    BY DEF SourcesDone, Doing, IInv, TypeOK
  <1>2. /\ run' \in Unit /\ run'.hand = run.hand /\ run'.at = 1 /\ run'.task = "clean"
        /\ run'.blocked = run.blocked
    <2>1. 1 \in 1..N + 1
      BY FilesAssumption
    <2>q. QED
      BY <1>1, <2>1 DEF Unit
  <1>3. HandInv'
    BY <1>1, <1>2 DEF IInv, HandInv
  <1>4. UnitInv'
    <2>1. \A g \in File : (run.blocked \/ SourceDone(g)) /\ ~(g < 1)
      BY <1>1, FileRange, FileOrder DEF IInv, UnitInv
    <2>2. \A g \in File : run'.blocked \/ SourceDone(g)'
      BY <1>1, <1>2, <2>1 DEF SourceDone, UnitOnly, journal
    <2>3. 1 \in File /\ decision' = "commit"
      BY <1>1, FilesAssumption DEF File, IInv, UnitInv, UnitOnly, journal
    <2>q. QED
      BY <1>2, <2>1, <2>2, <2>3 DEF UnitInv
  <1>q. QED
    BY <1>1, <1>2, <1>3, <1>4, UnitOnlyStep

LEMMA CleanedFileStep ==
  ASSUME IInv, NEW f \in File, Doing("clean", f), UnitOnly,
         Dropped(f, "original"), Dropped(f, "publication"),
         run' = IF f = N THEN [run EXCEPT !.task = "stage"] ELSE [run EXCEPT !.at = f + 1]
  PROVE  IInv'
  <1>1. run.task = "clean" /\ run.at = f /\ run \in Unit
    BY DEF Doing, IInv, TypeOK
  <1>2. /\ run' \in Unit /\ run'.hand = run.hand /\ run'.blocked = run.blocked
        /\ IF f = N THEN run'.at = f /\ run'.task = "stage"
           ELSE run'.at = f + 1 /\ run'.task = "clean"
    BY <1>1, FileRange, FileOrder DEF Unit
  <1>3. HandInv'
    BY <1>1, <1>2 DEF IInv, HandInv
  <1>4. UnitInv'
    <2>1. \A g \in File : /\ run'.blocked \/ SourceDone(g)'
                          /\ g <= f => CleanDropped(g)'
                          /\ decision' = "commit"
      <3>1. \A g \in File : /\ run.blocked \/ SourceDone(g)
                            /\ g < f => CleanDropped(g)
                            /\ decision = "commit"
        BY <1>1 DEF IInv, UnitInv
      <3>2. CleanDropped(f)
        BY DEF CleanDropped
      <3>3. \A g \in File : g <= f => CleanDropped(g)
        BY <3>1, <3>2, FileRange, FileOrder
      <3>q. QED
        BY <1>2, <3>1, <3>3 DEF UnitOnly, journal, SourceDone, CleanDropped, Dropped
    <2>2. \A g \in File : (g < f + 1 => g <= f) /\ g <= N
      BY FileRange, FileOrder
    <2>3. CASE f = N
      BY <1>2, <2>1, <2>2, <2>3 DEF UnitInv
    <2>4. CASE f # N
      BY <1>2, <2>1, <2>2, <2>4, FileRange, FileOrder DEF UnitInv
    <2>q. QED
      BY <2>3, <2>4
  <1>q. QED
    BY <1>1, <1>2, <1>3, <1>4, UnitOnlyStep

-----------------------------------------------------------------------------
(* The decision.                                                           *)

LEMMA DecidedFile ==
  ASSUME IInv, NEW f \in File, decision = "pending", decision' = "compensate",
         UNCHANGED <<setup, state, allocating, carrier, receipt, stagePhase, place, exposed,
                     history, interrupts>>
  PROVE  FileInv(f)'
  <1>1. FileInv(f)
    BY DEF IInv
  <1>2. CarrierInv(f)' /\ ContentInv(f)' /\ PublicationInv(f)'
    BY <1>1 DEF FileInv, CarrierInv, ContentInv, PublicationInv, OldKept, Copied, history
  <1>3. OriginalInv(f)' /\ OldInv(f)'
    BY <1>1 DEF FileInv, OriginalInv, OldInv, Gone, Copied, history
  <1>4. RollbackInv(f)' /\ SourceInv(f)' /\ BroughtInv(f)'
    BY <1>1 DEF FileInv, RollbackInv, SourceInv, BroughtInv, Undoing, history
  <1>q. QED
    BY <1>2, <1>3, <1>4 DEF FileInv

LEMMA CompensateStep ==
  ASSUME IInv, decision = "pending", decision' = "compensate", run.task # "idle",
         UNCHANGED <<setup, state, allocating, carrier, receipt, stagePhase, place, exposed,
                     history, interrupts>>,
         run' \in Unit, run'.hand = "none", UnitInv', StuckInv'
  PROVE  IInv'
  <1>1. TypeOK'
    BY DEF IInv, TypeOK, history
  <1>2. \A f \in File : FileInv(f)'
    BY DecidedFile
  <1>3. IntentInv'
    <2>1. run'.hand \notin Origin
      BY DEF Origin
    <2>q. QED
      BY <2>1 DEF IInv, IntentInv, Copied, Undoing
  <1>4. HandInv'
    BY DEF HandInv
  <1>5. OrderInv'
    BY DEF IInv, OrderInv
  <1>6. DecisionInv'
    <2>1. state # "finalized"
      BY DEF IInv, DecisionInv, Idle
    <2>q. QED
      BY <2>1 DEF IInv, DecisionInv
  <1>q. QED
    BY <1>1, <1>2, <1>3, <1>4, <1>5, <1>6 DEF IInv

LEMMA PublishBlockedStep ==
  ASSUME IInv, NEW f \in File, PublishBlocked(f) PROVE IInv'
  <1>1. /\ run.task = "publish" /\ run.at = f /\ decision = "pending"
        /\ decision' = "compensate" /\ run' = Idle
        /\ UNCHANGED <<setup, state, allocating, carrier, receipt, stagePhase, place, exposed,
                       history, interrupts>>
    BY DEF PublishBlocked, Doing, IInv, UnitInv
  <1>2. run' \in Unit /\ run'.hand = "none" /\ UnitInv'
    BY <1>1, FileRange DEF Unit, Idle, UnitInv
  <1>3. StuckInv'
    <2>1. CASE receipt[f] /\ At(f, "final") # "new"
      <3>1. FileInv(f) /\ IntentInv /\ ~Undoing
        BY <1>1 DEF IInv, Undoing
      <3>2. PhaseOf(f, "rollback") = "none" /\ allocating # <<f, "rollback">>
        BY <3>1, Purposes DEF FileInv, RollbackInv, IntentInv
      <3>3. Stuck(f)'
        BY <1>1, <2>1, <3>2 DEF Stuck
      <3>q. QED
        BY <3>3 DEF StuckInv
    <2>2. CASE ~receipt[f] /\ (PhaseOf(f, "publication") = "none" \/ Copied(f))
      <3>1. PhaseOf(f, "publication") \notin {"allocated", "claiming"}
        BY <2>2, Purposes DEF IInv, FileInv, CarrierInv, Early, Copied
      <3>2. ASSUME NEW g \in File PROVE PhaseOf(g, "publication") \notin {"allocated", "claiming"}
        <4>1. CASE f < g
          BY <2>2, <4>1 DEF IInv, OrderInv
        <4>2. CASE g < f
          BY <1>1, <4>2 DEF IInv, UnitInv, FileInv, PublicationInv
        <4>q. QED
          BY <3>1, <4>1, <4>2, FileOrder, FileRange
      <3>q. QED
        BY <1>1, <3>2 DEF StuckInv
    <2>3. Captured(f, "original") # "none" => Copied(f)
      BY Purposes DEF IInv, FileInv, CarrierInv, OriginalInv, Early
    <2>4. stagePhase # "ready" => PhaseOf(f, "publication") = "none"
      BY <1>1 DEF IInv, OrderInv
    <2>5. \/ receipt[f] /\ At(f, "final") # "new"
          \/ ~receipt[f] /\ (PhaseOf(f, "publication") = "none" \/ Copied(f))
      BY <2>3, <2>4 DEF PublishBlocked, PublishReady
    <2>q. QED
      BY <2>1, <2>2, <2>5
  <1>q. QED
    BY <1>1, <1>2, <1>3, CompensateStep

LEMMA AdmissionChangedStep ==
  ASSUME IInv, AdmissionChanged PROVE IInv'
  <1>1. /\ run.task = "commit" /\ decision = "pending" /\ \A f \in File : receipt[f]
        /\ decision' = "compensate" /\ run' = [Idle EXCEPT !.task = "restore", !.at = N]
        /\ UNCHANGED <<setup, state, allocating, carrier, receipt, stagePhase, place, exposed,
                       history, interrupts>>
    BY DEF AdmissionChanged, IInv, UnitInv, HandInv
  <1>2. N \in File /\ N \in 1..N + 1 /\ \A g \in File : ~(g > N)
    BY FilesAssumption DEF File
  <1>3. run' \in Unit /\ run'.hand = "none" /\ run'.task = "restore" /\ run'.at = N
    BY <1>1, <1>2 DEF Unit, Idle
  <1>4. UnitInv'
    BY <1>1, <1>2, <1>3 DEF UnitInv
  <1>5. \A g \in File : PhaseOf(g, "publication") \notin {"allocated", "claiming"}
    BY <1>1 DEF IInv, FileInv, PublicationInv
  <1>6. StuckInv'
    BY <1>1, <1>5 DEF StuckInv
  <1>q. QED
    BY <1>1, <1>3, <1>4, <1>6, CompensateStep

LEMMA VerifyStep ==
  ASSUME IInv, _verify_publication_artifacts PROVE IInv'
  <1>1. /\ run.task = "commit" /\ UnitOnly /\ Hand("verified") /\ TypeOK
        /\ \A f \in File : receipt[f] /\ At(f, "final") = "new"
    BY DEF _verify_publication_artifacts, IInv
  <1>2. /\ run' \in Unit /\ run'.hand = "verified" /\ run'.task = run.task
        /\ run'.hand \notin Origin
    BY <1>1, HandTyped DEF Origin
  <1>3. HandInv'
    BY <1>1, <1>2 DEF HandInv, UnitOnly, journal
  <1>4. UnitInv'
    BY <1>1, <1>2 DEF IInv, UnitInv, UnitOnly, journal
  <1>q. QED
    BY <1>1, <1>2, <1>3, <1>4, UnitOnlyStep

LEMMA CommitStep ==
  ASSUME IInv, _commit_import PROVE IInv'
  <1>1. /\ run.task = "commit" /\ decision = "pending" /\ state = "published"
        /\ \A f \in File : receipt[f] /\ (f \notin outside => At(f, "final") = "new")
        /\ decision' = "commit" /\ state' = "db_committed" /\ run' = Idle
        /\ UNCHANGED <<setup, allocating, carrier, receipt, stagePhase, place, exposed,
                       history, interrupts>>
    BY DEF _commit_import, IInv, UnitInv, HandInv
  <1>2. run' \in Unit /\ run'.hand = "none" /\ run'.hand \notin Origin
    BY <1>1, FilesAssumption DEF Unit, Idle, Origin
  <1>3. TypeOK'
    BY <1>1, <1>2 DEF IInv, TypeOK, history
  <1>4. ASSUME NEW f \in File PROVE FileInv(f)'
    <2>1. FileInv(f)
      BY DEF IInv
    <2>2. CarrierInv(f)' /\ ContentInv(f)' /\ PublicationInv(f)'
      BY <1>1, <2>1 DEF FileInv, CarrierInv, ContentInv, PublicationInv, OldKept, Copied, history
    <2>3. OriginalInv(f)' /\ OldInv(f)'
      BY <1>1, <2>1 DEF FileInv, OriginalInv, OldInv, Gone, Copied, history
    <2>4. RollbackInv(f)' /\ SourceInv(f)' /\ BroughtInv(f)'
      BY <1>1, <2>1 DEF FileInv, RollbackInv, SourceInv, BroughtInv, Undoing, history
    <2>q. QED
      BY <1>1, <2>2, <2>3, <2>4 DEF FileInv, history
  <1>5. IntentInv'
    BY <1>1, <1>2 DEF IInv, IntentInv, Copied, Undoing
  <1>6. HandInv'
    BY <1>2 DEF HandInv
  <1>7. OrderInv' /\ StuckInv'
    BY <1>1 DEF IInv, OrderInv, StuckInv, Undoing
  <1>8. UnitInv' /\ DecisionInv'
    BY <1>1 DEF UnitInv, DecisionInv, Idle
  <1>q. QED
    BY <1>3, <1>4, <1>5, <1>6, <1>7, <1>8 DEF IInv

LEMMA PublishedStep ==
  ASSUME IInv, _publish_publication_owned PROVE IInv'
  <1>1. /\ run.task = "publish" /\ decision = "pending" /\ state = "publishing"
        /\ state' = "published" /\ run' = Idle
        /\ UNCHANGED <<setup, decision, allocating, carrier, receipt, stagePhase, place, exposed,
                       history, interrupts>>
    BY DEF _publish_publication_owned, Doing, IInv, UnitInv
  <1>2. run' \in Unit /\ run'.hand = "none" /\ run'.hand \notin Origin
    BY <1>1, FilesAssumption DEF Unit, Idle, Origin
  <1>3. TypeOK'
    BY <1>1, <1>2 DEF IInv, TypeOK, history
  <1>4. HandInv' /\ UnitInv' /\ DecisionInv'
    BY <1>1, <1>2 DEF HandInv, UnitInv, DecisionInv, Idle
  <1>q. QED
    BY <1>1, <1>2, <1>3, <1>4, QuietStep

LEMMA FinishStep ==
  ASSUME IInv, Finish PROVE IInv'
  <1>1. /\ run.task = "finish" /\ run # Idle /\ state # "finalized" /\ stagePhase = "discarded"
        /\ UNCHANGED <<setup, allocating, carrier, receipt, stagePhase, place, exposed, history,
                       interrupts>>
    BY DEF Finish, IInv, UnitInv, DecisionInv, Idle
  <1>2. CASE decision = "compensate" /\ decision' = "compensated" /\ UNCHANGED <<state, run>>
    <2>1. TypeOK'
      BY <1>1, <1>2 DEF IInv, TypeOK, history
    <2>2. ASSUME NEW f \in File PROVE FileInv(f)'
      <3>1. FileInv(f)
        BY DEF IInv
      <3>2. CarrierInv(f)' /\ ContentInv(f)' /\ PublicationInv(f)'
        BY <1>1, <1>2, <3>1
           DEF FileInv, CarrierInv, ContentInv, PublicationInv, OldKept, Copied, history
      <3>3. OriginalInv(f)' /\ OldInv(f)'
        BY <1>1, <1>2, <3>1 DEF FileInv, OriginalInv, OldInv, Gone, Copied, history
      <3>4. RollbackInv(f)' /\ SourceInv(f)' /\ BroughtInv(f)'
        BY <1>1, <1>2, <3>1 DEF FileInv, RollbackInv, SourceInv, BroughtInv, Undoing, history
      <3>q. QED
        BY <1>2, <3>2, <3>3, <3>4 DEF FileInv
    <2>3. IntentInv' /\ OrderInv' /\ StuckInv'
      BY <1>1, <1>2 DEF IInv, IntentInv, Copied, Undoing, OrderInv, StuckInv, Stuck
    <2>4. HandInv'
      BY <1>1, <1>2 DEF IInv, HandInv
    <2>5. \A g \in File : Settled(g) /\ UndoDropped(g)
      BY <1>1, <1>2 DEF IInv, UnitInv
    <2>6. \A g \in File : Settled(g)' /\ UndoDropped(g)'
      BY <1>1, <2>5 DEF Settled, Gone, UndoDropped, CleanDropped, Dropped
    <2>7. UnitInv'
      BY <1>1, <1>2, <2>6 DEF UnitInv
    <2>8. DecisionInv'
      BY <1>1, <1>2, <2>6 DEF IInv, DecisionInv
    <2>q. QED
      BY <2>1, <2>2, <2>3, <2>4, <2>7, <2>8 DEF IInv
  <1>3. CASE /\ decision \in {"compensated", "commit"} /\ UNCHANGED decision
             /\ state' = (IF run.blocked THEN state ELSE "finalized") /\ run' = Idle
    <2>1. run' \in Unit /\ run'.hand = "none" /\ run'.hand \notin Origin
      BY <1>3, FilesAssumption DEF Unit, Idle, Origin
    <2>2. state' = state \/ state' = "finalized"
      BY <1>3
    <2>3. TypeOK'
      BY <1>1, <1>3, <2>1, <2>2 DEF IInv, TypeOK, history
    <2>4. HandInv' /\ UnitInv'
      BY <1>3, <2>1 DEF HandInv, UnitInv, Idle
    <2>5. \A g \in File : decision = "commit" =>
            CleanDropped(g)' /\ (run.blocked \/ SourceDone(g)')
      BY <1>1 DEF IInv, UnitInv, CleanDropped, Dropped, SourceDone
    <2>6. decision = "compensated" => \A g \in File : Settled(g)' /\ UndoDropped(g)'
      BY <1>1 DEF IInv, DecisionInv, Settled, Gone, UndoDropped, CleanDropped, Dropped
    <2>7. DecisionInv'
      BY <1>1, <1>3, <2>2, <2>5, <2>6 DEF IInv, DecisionInv
    <2>q. QED
      BY <1>1, <1>3, <2>1, <2>3, <2>4, <2>7, QuietStep
  <1>q. QED
    BY <1>2, <1>3 DEF Finish

-----------------------------------------------------------------------------
(* The stage.                                                              *)

LEMMA StageStep ==
  ASSUME IInv, _remove_owned_staging PROVE IInv'
  <1>1. /\ run.task = "stage" /\ decision # "pending" /\ state # "finalized"
        /\ UNCHANGED <<setup, state, decision, allocating, carrier, receipt, exposed, history,
                       interrupts>>
    BY DEF _remove_owned_staging, IInv, UnitInv, DecisionInv, Idle
  <1>2. CASE stagePhase = "discarded" /\ run' = [run EXCEPT !.task = "finish"]
             /\ UNCHANGED <<stagePhase, place>>
    <2>1. run' \in Unit /\ run'.task = "finish" /\ run'.hand = run.hand
          /\ run'.blocked = run.blocked
      BY <1>2 DEF IInv, TypeOK, Unit
    <2>2. HandInv'
      BY <1>1, <2>1 DEF IInv, HandInv
    <2>3. \A g \in File : /\ Settled(g)' <=> Settled(g)
                          /\ UndoDropped(g)' <=> UndoDropped(g)
                          /\ CleanDropped(g)' <=> CleanDropped(g)
                          /\ SourceDone(g)' <=> SourceDone(g)
      BY <1>1, <1>2 DEF Settled, Gone, UndoDropped, CleanDropped, Dropped, SourceDone
    <2>4. UnitInv'
      BY <1>1, <1>2, <2>1, <2>3 DEF IInv, UnitInv
    <2>5. UnitOnly
      BY <1>1, <1>2 DEF UnitOnly, journal
    <2>q. QED
      BY <1>1, <2>1, <2>2, <2>4, <2>5, UnitOnlyStep
  <1>3. ASSUME UNCHANGED run, TypeOK', OrderInv',
               \A f \in File : /\ At(f, "stage")' \in {"none", "new"}
                               /\ \A l \in Place : l # "stage" => At(f, l)' = At(f, l)
        PROVE  IInv'
    <2>1. ASSUME NEW f \in File PROVE FileInv(f)'
      <3>1. FileInv(f)
        BY DEF IInv
      <3>2. /\ At(f, "stage")' \in {"none", "new"}
            /\ \A l \in Place : l # "stage" => At(f, l)' = At(f, l)
            /\ \A p \in Purpose : At(f, p)' = At(f, p)
        BY <1>3, Places DEF Purpose
      <3>3. CarrierInv(f)' /\ PublicationInv(f)'
        BY <1>1, <3>1, <3>2, Places DEF FileInv, CarrierInv, PublicationInv, OldKept, Copied
      <3>4. ContentInv(f)'
        BY <1>1, <3>1, <3>2, Places DEF FileInv, ContentInv, history
      <3>5. OriginalInv(f)'
        BY <1>1, <3>1, <3>2, Places DEF FileInv, OriginalInv, Gone, Copied, history
      <3>6. OldInv(f)'
        <4>1. PhaseOf(f, "original") \in {"allocated", "claiming"} =>
                At(f, OriginOf(f, "original"))' = At(f, OriginOf(f, "original"))
          BY <1>1, <3>1, <3>2, Places DEF FileInv, OriginalInv
        <4>q. QED
          BY <1>1, <3>1, <3>2, <4>1, Places DEF FileInv, OldInv, history
      <3>7. RollbackInv(f)' /\ SourceInv(f)'
        BY <1>1, <3>1, <3>2, Places DEF FileInv, RollbackInv, SourceInv, Undoing
      <3>8. BroughtInv(f)'
        <4>1. At(f, "stage") # "foreign"
          BY <3>1 DEF FileInv, ContentInv
        <4>q. QED
          BY <1>1, <3>1, <3>2, <4>1, Places DEF FileInv, BroughtInv, history
      <3>q. QED
        BY <1>1, <3>1, <3>2, <3>3, <3>4, <3>5, <3>6, <3>7, <3>8, Places DEF FileInv, history
    <2>2. IntentInv'
      BY <1>1, <1>3, Places DEF IInv, IntentInv, Copied, Undoing
    <2>3. HandInv'
      BY <1>1, <1>3 DEF IInv, HandInv
    <2>4. StuckInv'
      BY <1>1, <1>3, Places DEF IInv, StuckInv, Stuck, Undoing
    <2>5. \A g \in File : /\ Settled(g)' <=> Settled(g)
                          /\ UndoDropped(g)' <=> UndoDropped(g)
                          /\ CleanDropped(g)' <=> CleanDropped(g)
                          /\ SourceDone(g)' <=> SourceDone(g)
      BY <1>1, <1>3, Places DEF Settled, Gone, UndoDropped, CleanDropped, Dropped, SourceDone
    <2>6. UnitInv' /\ DecisionInv'
      BY <1>1, <1>3, <2>5 DEF IInv, UnitInv, DecisionInv
    <2>q. QED
      BY <1>3, <2>1, <2>2, <2>3, <2>4, <2>6 DEF IInv
  <1>4. CASE UNCHANGED <<place, run>> /\ stagePhase' \in {"discarding", "discarded"}
             /\ (stagePhase' = "discarded" => \A f \in File : At(f, "stage") = "none")
    <2>1. TypeOK'
      BY <1>1, <1>4 DEF IInv, TypeOK, history
    <2>2. OrderInv'
      BY <1>1, <1>4 DEF IInv, OrderInv
    <2>3. \A f \in File : At(f, "stage") \in {"none", "new"}
      BY DEF IInv, FileInv, ContentInv
    <2>q. QED
      BY <1>3, <1>4, <2>1, <2>2, <2>3
  <1>5. ASSUME NEW f \in File, Put(f, "stage", "none"), UNCHANGED <<stagePhase, run>>
        PROVE  IInv'
    <2>1. /\ place' \in [File -> [Place -> Content]]
          /\ \A g \in File : g # f => place'[g] = place[g]
          /\ \A l \in Place : At(f, l)' = IF l = "stage" THEN "none" ELSE At(f, l)
      <3>1. "stage" \in Place /\ "none" \in Content /\ Put(f, "stage", "none") /\ TypeOK
        BY <1>5, Places DEF IInv, Content
      <3>2. /\ place' \in [File -> [Place -> Content]]
            /\ \A g \in File : g # f => place'[g] = place[g]
        BY <3>1, PutEffect
      <3>3. \A l \in Place : At(f, l)' = IF l = "stage" THEN "none" ELSE At(f, l)
        BY <3>1, PutAt
      <3>q. QED
        BY <3>2, <3>3
    <2>2. TypeOK'
      BY <1>1, <1>5, <2>1 DEF IInv, TypeOK, history
    <2>3. \A g \in File : /\ At(g, "stage")' \in {"none", "new"}
                          /\ At(g, "stage") = "none" => At(g, "stage")' = "none"
                          /\ \A l \in Place : l # "stage" => At(g, l)' = At(g, l)
      <3>1. \A g \in File : At(g, "stage") \in {"none", "new"}
        BY DEF IInv, FileInv, ContentInv
      <3>2. \A l \in Place : l # "stage" => At(f, l)' = At(f, l)
        BY <2>1
      <3>3. At(f, "stage")' = "none"
        BY <2>1, Places
      <3>q. QED
        BY <2>1, <3>1, <3>2, <3>3
    <2>4. OrderInv'
      BY <1>1, <1>5, <2>3 DEF IInv, OrderInv
    <2>q. QED
      BY <1>3, <1>5, <2>2, <2>3, <2>4
  <1>q. QED
    BY <1>2, <1>4, <1>5 DEF _remove_owned_staging

-----------------------------------------------------------------------------
(* Units begin and end.                                                    *)

LEMMA EndStep ==
  ASSUME IInv, run.task # "idle", run' = Idle,
         UNCHANGED <<setup, state, decision, allocating, carrier, receipt, stagePhase, place,
                     history>>, exposed' \in BOOLEAN, interrupts' \in 0..MaxInterrupts
  PROVE  IInv'
  <1>1. run' \in Unit /\ run'.hand = "none" /\ run'.hand \notin Origin
    BY FilesAssumption DEF Unit, Idle, Origin
  <1>2. TypeOK'
    BY <1>1 DEF IInv, TypeOK, history
  <1>3. HandInv' /\ UnitInv'
    BY <1>1 DEF HandInv, UnitInv, Idle
  <1>4. state # "finalized"
    BY DEF IInv, DecisionInv, Idle
  <1>5. DecisionInv'
    BY <1>4 DEF IInv, DecisionInv, Settled, Gone, UndoDropped, CleanDropped, Dropped
  <1>q. QED
    BY <1>1, <1>2, <1>3, <1>5, QuietStep

LEMMA InterruptStep ==
  ASSUME IInv, Interrupt PROVE IInv'
  <1>1. run.task # "idle"
    BY DEF IInv, UnitInv, Interrupt
  <1>2. interrupts' \in 0..MaxInterrupts /\ exposed' \in BOOLEAN
    BY FilesAssumption DEF Interrupt, IInv, TypeOK
  <1>q. QED
    BY <1>1, <1>2, EndStep DEF Interrupt, journal

LEMMA BlockedStep ==
  ASSUME IInv, UnitBlocked PROVE IInv'
  <1>1. run.task # "idle"
    <2>1. run.task = "idle" => run.hand = "none"
      BY DEF IInv, UnitInv, Idle
    <2>q. QED
      BY <2>1 DEF UnitBlocked, PublishRefused, RestoreRefused, ChangedRestored, NothingToTake,
                  LinkLost
  <1>2. interrupts' \in 0..MaxInterrupts /\ exposed' \in BOOLEAN
    BY DEF UnitBlocked, UnitOnly, IInv, TypeOK
  <1>q. QED
    BY <1>1, <1>2, EndStep DEF UnitBlocked, UnitOnly, journal

LEMMA BeginStep ==
  ASSUME IInv, _complete_publication_unit PROVE IInv'
  <1>1. /\ run = Idle /\ state # "finalized" /\ run' = Task /\ TypeOK /\ DecisionInv
        /\ UNCHANGED <<setup, decision, allocating, carrier, receipt, stagePhase, place, exposed,
                       history, interrupts>>
    BY DEF _complete_publication_unit, IInv
  <1>2. /\ state \in {"prepared", "publishing", "published", "db_committed", "cleaning"}
        /\ state = "prepared" => state' = "publishing"
        /\ state = "db_committed" => state' = "cleaning"
        /\ state \in {"publishing", "published", "cleaning"} => state' = state
    BY <1>1 DEF _complete_publication_unit, TypeOK
  <1>3. decision = "commit" <=> state \in {"db_committed", "cleaning"}
    BY <1>1 DEF DecisionInv
  <1>4. 1 \in File /\ N \in File /\ 1 \in 1..N + 1 /\ N \in 1..N + 1
        /\ \A g \in File : ~(g < 1) /\ ~(g > N)
    BY FilesAssumption DEF File
  <1>5. \A g \in File : /\ Settled(g)' <=> Settled(g)
                        /\ UndoDropped(g)' <=> UndoDropped(g)
                        /\ CleanDropped(g)' <=> CleanDropped(g)
                        /\ SourceDone(g)' <=> SourceDone(g)
    BY <1>1 DEF Settled, Gone, UndoDropped, CleanDropped, Dropped, SourceDone
  <1>6. DecisionInv'
    BY <1>1, <1>2, <1>5 DEF DecisionInv
  <1>7. /\ run' \in Unit /\ run'.hand = "none" /\ run'.blocked = FALSE
        /\ \/ decision = "commit" /\ setup.move /\ run'.task = "source" /\ run'.at = 1
           \/ decision = "commit" /\ ~setup.move /\ run'.task = "clean" /\ run'.at = 1
           \/ decision = "compensated" /\ run'.task = "stage" /\ run'.at = 1
           \/ decision = "compensate" /\ run'.task = "restore" /\ run'.at = N
           \/ decision = "pending" /\ state = "published" /\ run'.task = "commit" /\ run'.at = 1
           \/ /\ decision = "pending" /\ state \in {"prepared", "publishing"}
              /\ run'.task = "publish" /\ run'.at = 1
    <2>1. CASE decision = "commit"
      BY <1>1, <1>3, <1>4, <2>1 DEF Task, Idle, Unit
    <2>2. CASE decision = "compensated"
      BY <1>1, <1>3, <1>4, <2>2 DEF Task, Idle, Unit
    <2>3. CASE decision = "compensate"
      BY <1>1, <1>3, <1>4, <2>3 DEF Task, Idle, Unit
    <2>4. CASE decision = "pending" /\ state = "published"
      BY <1>1, <1>3, <1>4, <2>4 DEF Task, Idle, Unit
    <2>5. CASE decision = "pending" /\ state # "published"
      BY <1>1, <1>2, <1>3, <1>4, <2>5 DEF Task, Idle, Unit
    <2>q. QED
      BY <1>1, <2>1, <2>2, <2>3, <2>4, <2>5 DEF TypeOK
  <1>8. run'.hand \notin Origin /\ HandInv'
    BY <1>7 DEF Origin, HandInv
  <1>9. TypeOK'
    BY <1>1, <1>2, <1>7 DEF TypeOK, history
  <1>10. UnitInv'
    <2>1. ~setup.move => \A g \in File : SourceDone(g)
      BY DEF IInv, FileInv, SourceInv, SourceDone
    <2>2. decision = "compensated" => \A g \in File : Settled(g) /\ UndoDropped(g)
      BY <1>1 DEF DecisionInv
    <2>q. QED
      BY <1>1, <1>2, <1>4, <1>5, <1>7, <2>1, <2>2 DEF UnitInv
  <1>q. QED
    BY <1>1, <1>6, <1>8, <1>9, <1>10, QuietStep

-----------------------------------------------------------------------------
(* Others change a public file.                                            *)

LEMMA ForeignStep ==
  ASSUME IInv, NEW f \in File, NEW l \in {"final", "src"}, NEW c \in {"none", "foreign"},
         Foreign(f, l, c)
  PROVE  IInv'
  <1>1. /\ UNCHANGED <<setup, state, decision, allocating, carrier, receipt, stagePhase, run,
                       exposed, interrupts>>
        /\ foreigns' \in 0..MaxForeign /\ outside' = outside \union {f}
        /\ taken' = taken \union {<<f, At(f, l)>>}
        /\ brought' = IF c = "foreign" THEN brought \union {f}
                      ELSE IF At(f, l) = "foreign" THEN brought \ {f} ELSE brought
    BY FilesAssumption DEF Foreign, journal, IInv, TypeOK
  <1>2. /\ place' \in [File -> [Place -> Content]]
        /\ \A g \in File : g # f => place'[g] = place[g]
        /\ \A m \in Place : At(f, m)' = IF m = l THEN c ELSE At(f, m)
    <2>1. l \in Place /\ c \in Content /\ Put(f, l, c) /\ TypeOK
      BY Places DEF Foreign, IInv, Content
    <2>2. /\ place' \in [File -> [Place -> Content]]
          /\ \A g \in File : g # f => place'[g] = place[g]
      BY <2>1, PutEffect
    <2>3. \A m \in Place : At(f, m)' = IF m = l THEN c ELSE At(f, m)
      BY <2>1, PutAt
    <2>q. QED
      BY <2>2, <2>3
  <1>3. TypeOK'
    <2>1. At(f, l) \in Content
      BY Typed, Places DEF IInv
    <2>2. taken' \in SUBSET (File \X Content) /\ brought' \in SUBSET File
          /\ outside' \in SUBSET File
      BY <1>1, <2>1 DEF IInv, TypeOK
    <2>q. QED
      BY <1>1, <1>2, <2>2 DEF IInv, TypeOK
  <1>4. ASSUME NEW g \in File, g # f PROVE FileInv(g)'
    <2>1. /\ FileInv(g) /\ Same(g) /\ UNCHANGED <<setup, decision>>
          /\ g \in outside' <=> g \in outside
          /\ g \in brought' <=> g \in brought
          /\ <<g, "old">> \in taken' <=> <<g, "old">> \in taken
      BY <1>1, <1>2, <1>4 DEF IInv, Same
    <2>2. CarrierInv(g)' /\ ContentInv(g)' /\ PublicationInv(g)'
      BY <2>1 DEF FileInv, CarrierInv, ContentInv, PublicationInv, OldKept, Copied, Same
    <2>3. OriginalInv(g)' /\ OldInv(g)'
      BY <2>1 DEF FileInv, OriginalInv, OldInv, Gone, Copied, Same
    <2>4. RollbackInv(g)' /\ SourceInv(g)' /\ BroughtInv(g)'
      BY <2>1 DEF FileInv, RollbackInv, SourceInv, BroughtInv, Undoing, Same
    <2>5. outside' # {}
      BY <1>1
    <2>q. QED
      BY <2>1, <2>2, <2>3, <2>4, <2>5 DEF FileInv, Same
  <1>5. FileInv(f)'
    <2>1. FileInv(f) /\ outside' # {} /\ f \in outside'
      BY <1>1 DEF IInv
    <2>2. CarrierInv(f)' /\ RollbackInv(f)' /\ SourceInv(f)'
      BY <1>1, <1>2, <2>1, Places DEF FileInv, CarrierInv, RollbackInv, SourceInv, Undoing, Purpose
    <2>3. ContentInv(f)'
      BY <1>1, <1>2, <2>1, Places DEF FileInv, ContentInv
    <2>4. PublicationInv(f)' /\ OriginalInv(f)'
      BY <1>1, <1>2, <2>1, Places
         DEF FileInv, PublicationInv, OriginalInv, OldKept, Copied, Gone
    <2>5. OldInv(f)'
      <3> SUFFICES ASSUME f \in setup.overwrite, decision # "commit", <<f, "old">> \notin taken'
                   PROVE  OldInv(f)'
        BY <1>1 DEF OldInv
      <3>1. At(f, l) # "old" /\ <<f, "old">> \notin taken
        BY <1>1
      <3>2. \A m \in Place : At(f, m) = "old" => At(f, m)' = "old"
        BY <1>2, <3>1
      <3>3. \A m \in {"flat", "original"} : At(f, m)' = At(f, m)
        BY <1>2, Places
      <3>4. PhaseOf(f, "original") \in {"allocated", "claiming"} =>
              OriginOf(f, "original") \in Place
        BY <2>1, Places DEF FileInv, OriginalInv
      <3>q. QED
        BY <1>1, <2>1, <3>1, <3>2, <3>3, <3>4, Places DEF FileInv, OldInv
    <2>6. BroughtInv(f)'
      <3>1. CASE c = "foreign"
        <4>1. At(f, l)' = "foreign" /\ l \in Place /\ l # "source"
          BY <1>2, <3>1, Places
        <4>q. QED
          BY <4>1 DEF BroughtInv
      <3>2. CASE c # "foreign" /\ f \in brought'
        <4>1. f \in brought /\ At(f, l) # "foreign"
          BY <1>1, <3>2
        <4>2. PICK m \in Place : /\ At(f, m) = "foreign"
                                 /\ m = "source" => PhaseOf(f, "source") # "discarding"
          BY <2>1, <4>1 DEF FileInv, BroughtInv
        <4>3. At(f, m)' = "foreign"
          BY <1>2, <4>1, <4>2
        <4>q. QED
          BY <1>1, <4>2, <4>3 DEF BroughtInv
      <3>q. QED
        BY <3>1, <3>2 DEF BroughtInv
    <2>q. QED
      BY <1>1, <2>1, <2>2, <2>3, <2>4, <2>5, <2>6 DEF FileInv
  <1>6. /\ \A g \in File : /\ At(g, "flat")' = At(g, "flat") /\ At(g, "srcflat")' = At(g, "srcflat")
                           /\ At(g, "stage")' = At(g, "stage")
        /\ \A g \in File : g \notin outside' => At(g, "final")' = At(g, "final")
        /\ \A g \in File : At(g, "final")' = "new" => At(g, "final") = "new"
    BY <1>1, <1>2, Places
  <1>7. IntentInv' /\ OrderInv' /\ StuckInv'
    BY <1>1, <1>6 DEF IInv, IntentInv, OrderInv, StuckInv, Stuck, Copied, Undoing
  <1>8. HandInv'
    <2>1. ASSUME run.at = f, f \in brought', f \in brought => \E m \in Place \ {"source"} :
                   At(f, m) = "foreign"
          PROVE  \E m \in Place \ {"source"} : At(f, m)' = "foreign"
      <3>1. CASE c = "foreign"
        <4>1. At(f, l)' = "foreign" /\ l \in Place \ {"source"}
          BY <1>2, <3>1, Places
        <4>q. QED
          BY <4>1
      <3>2. CASE c # "foreign"
        <4>1. f \in brought /\ At(f, l) # "foreign"
          BY <1>1, <2>1, <3>2
        <4>q. QED
          BY <1>2, <2>1, <4>1
      <3>q. QED
        BY <3>1, <3>2
    <2>2. ASSUME run.hand = "proved", run.task = "source", run.at \in File
          PROVE  /\ PhaseOf(run.at, "source")' = "restored"
                 /\ run.at \in brought' => \E m \in Place \ {"source"} : At(run.at, m)' = "foreign"
      <3>1. /\ PhaseOf(run.at, "source") = "restored"
            /\ run.at \in brought => \E m \in Place \ {"source"} : At(run.at, m) = "foreign"
        BY <2>2 DEF IInv, HandInv
      <3>2. CASE run.at = f
        BY <1>1, <2>1, <3>1, <3>2
      <3>3. CASE run.at # f
        BY <1>1, <1>2, <2>2, <3>1, <3>3
      <3>q. QED
        BY <3>2, <3>3
    <2>3. ASSUME run.hand = "verified", NEW g \in File
          PROVE  run.task = "commit" /\ receipt[g] /\ (g \notin outside' => At(g, "final")' = "new")
      BY <1>1, <1>6, <2>3 DEF IInv, HandInv
    <2>4. run.hand = "armed" => run.task = "publish" /\ run.at \in File
                                /\ PhaseOf(run.at, "publication") = "restoring"
      BY DEF IInv, HandInv
    <2>5. 1 \in File
      BY FilesAssumption DEF File
    <2>q. QED
      BY <1>1, <2>2, <2>3, <2>4, <2>5 DEF HandInv
  <1>9. \A g \in File : /\ Settled(g)' <=> Settled(g)
                        /\ UndoDropped(g)' <=> UndoDropped(g)
                        /\ CleanDropped(g)' <=> CleanDropped(g)
                        /\ SourceDone(g)' <=> SourceDone(g)
    BY <1>1, <1>6 DEF Settled, Gone, UndoDropped, CleanDropped, Dropped, SourceDone
  <1>10. UnitInv' /\ DecisionInv'
    BY <1>1, <1>9 DEF IInv, UnitInv, DecisionInv
  <1>q. QED
    BY <1>3, <1>4, <1>5, <1>7, <1>8, <1>10 DEF IInv

LEMMA InitIInv == Init => IInv
  <1> SUFFICES ASSUME Init PROVE IInv
    OBVIOUS
  <1>1. run = Idle /\ Idle \in Unit /\ run.hand = "none" /\ run.task = "idle"
    BY FilesAssumption DEF Init, Idle, Unit
  <1>2. NoCarrier \in CarrierRow
    BY DEF NoCarrier, CarrierRow, Phase, Origin, Content
  <1>3. \A f \in File, p \in Purpose : PhaseOf(f, p) = "none" /\ Captured(f, p) = "none"
    BY DEF Init, NoCarrier
  <1>4. \A f \in File, l \in Place :
          At(f, l) = CASE l = "stage" -> "new"
                       [] l = "src" -> "srcdata"
                       [] l = "final" -> IF f \in setup.overwrite THEN "old" ELSE "none"
                       [] OTHER -> "none"
    BY DEF Init
  <1>5. \A f \in File : /\ At(f, "stage") = "new" /\ At(f, "src") = "srcdata"
                        /\ At(f, "final") = IF f \in setup.overwrite THEN "old" ELSE "none"
                        /\ At(f, "flat") = "none" /\ At(f, "srcflat") = "none"
                        /\ \A p \in Purpose : At(f, p) = "none"
    BY <1>4, Places DEF Purpose
  <1>6. TypeOK
    <2>1. place \in [File -> [Place -> Content]]
      BY DEF Init, Content
    <2>2. carrier \in [File -> [Purpose -> CarrierRow]]
      BY <1>2 DEF Init
    <2>3. allocating \in (File \X Purpose) \union {NoIntent}
      BY DEF Init
    <2>4. interrupts \in 0..MaxInterrupts /\ foreigns \in 0..MaxForeign
      BY FilesAssumption DEF Init
    <2>q. QED
      BY <1>1, <2>1, <2>2, <2>3, <2>4 DEF Init, TypeOK
  <1>7. ASSUME NEW f \in File PROVE FileInv(f)
    <2>1. /\ \A p \in Purpose : PhaseOf(f, p) = "none" /\ Captured(f, p) = "none"
          /\ decision = "pending" /\ receipt[f] = FALSE /\ brought = {} /\ outside = {}
          /\ taken = {}
      BY <1>3 DEF Init
    <2>2. CarrierInv(f) /\ PublicationInv(f) /\ OriginalInv(f)
      BY <1>5, <2>1, Purposes DEF CarrierInv, PublicationInv, OriginalInv, Early, Late
    <2>3. ContentInv(f)
      BY <1>5, <2>1, Purposes, Places DEF ContentInv
    <2>4. OldInv(f) /\ RollbackInv(f) /\ SourceInv(f) /\ BroughtInv(f)
      BY <1>5, <2>1, Purposes DEF OldInv, RollbackInv, SourceInv, BroughtInv, Early
    <2>q. QED
      BY <2>1, <2>2, <2>3, <2>4 DEF FileInv
  <1>8. IntentInv
    <2>1. \A f \in File, p \in Purpose : allocating # <<f, p>>
      BY FilesAssumption DEF Init, NoIntent, Purpose
    <2>q. QED
      BY <2>1 DEF IntentInv
  <1>9. HandInv
    BY <1>1 DEF HandInv
  <1>10. OrderInv /\ StuckInv
    BY <1>3, Purposes DEF Init, OrderInv, StuckInv, Undoing
  <1>11. UnitInv /\ DecisionInv
    BY <1>1 DEF Init, UnitInv, DecisionInv
  <1>q. QED
    BY <1>6, <1>7, <1>8, <1>9, <1>10, <1>11 DEF IInv

-----------------------------------------------------------------------------
(* The actions are made of these steps.                                    *)

LEMMA CaptureStep ==
  ASSUME IInv, NEW f \in File, NEW p, NEW public, NEW flat, run.at = f,
         \/ /\ p = "original" /\ public = "final" /\ flat = "flat" /\ run.task = "publish"
            /\ f \in setup.overwrite /\ Copied(f)
         \/ p = "source" /\ public = "src" /\ flat = "srcflat" /\ run.task = "source",
         Capture(f, p, public, flat)
  PROVE  IInv'
  <1>1. /\ p \in {"original", "source"} /\ p \in Purpose /\ p # "publication" /\ p # "rollback"
        /\ run.task \in FileTask /\ run.task \in MoveTask /\ (run.task = "source" <=> p = "source")
        /\ public \in Origin /\ flat \in Origin
    BY Purposes DEF FileTask, MoveTask, Origin
  <1>2. p = "source" => decision = "commit" /\ setup.move
    BY <1>1 DEF IInv, UnitInv
  <1>3. CASE /\ NeedsIntent(f, p) /\ setup.native /\ At(f, flat) = "none"
             /\ At(f, public) # "none" /\ Move(f, public, flat)
             /\ UNCHANGED <<setup, journal, run, exposed, history, interrupts>>
    BY <1>1, <1>3, StashStep DEF NeedsIntent
  <1>4. CASE At(f, flat) # "none" /\ Allocate(f, p, flat)
    BY <1>1, <1>2, <1>4, AllocateStep
  <1>5. CASE At(f, flat) = "none" /\ ~setup.native /\ Allocate(f, p, public)
    BY <1>1, <1>2, <1>5, AllocateStep
  <1>6. CASE Bind(f, p)
    BY <1>1, <1>6, BindStep
  <1>7. CASE Claiming(f, p)
    BY <1>1, <1>7, ClaimingStep
  <1>8. CASE Take(f, p)
    BY <1>1, <1>8, TakeStep
  <1>9. CASE RecordCapture(f, p)
    BY <1>1, <1>9, RecordStep
  <1>q. QED
    BY <1>3, <1>4, <1>5, <1>6, <1>7, <1>8, <1>9 DEF Capture

LEMMA RestoreToStep ==
  ASSUME IInv, NEW f \in File, NEW p \in {"original", "rollback", "source"}, NEW dest,
         run.at = f, MayRestore(f, p, dest), _restore_private_to(f, p, dest)
  PROVE  IInv'
  BY RestoringStep, LinkStep, LinkReceiptStep, ProveStep DEF _restore_private_to

LEMMA DiscardArtifactStep ==
  ASSUME IInv, NEW f \in File, NEW p \in Purpose, run.at = f, MayDiscard(f, p),
         DiscardArtifact(f, p)
  PROVE  IInv'
  <1>1. /\ PhaseOf(f, p) = "discarding"
        /\ UNCHANGED <<setup, state, decision, allocating, receipt, stagePhase, exposed, history,
                       interrupts>>
    BY DEF DiscardArtifact
  <1>2. CASE At(f, p) # "none"
    BY <1>1, <1>2, UnlinkStep DEF DiscardArtifact
  <1>3. CASE At(f, p) = "none"
    BY <1>1, <1>3, DiscardedStep DEF DiscardArtifact
  <1>q. QED
    BY <1>2, <1>3

LEMMA DiscardStep ==
  ASSUME IInv, NEW f \in File, NEW p \in Purpose, run.at = f, MayDiscard(f, p),
         run.task # "restore", p = "source" => Captured(f, p) = "srcdata", Discard(f, p)
  PROVE  IInv'
  BY DiscardingStep, DiscardArtifactStep DEF Discard

LEMMA CopyFileStep ==
  ASSUME IInv, NEW f \in File, _prepare_publication_copy(f) PROVE IInv'
  <1>1. /\ run.at = f /\ run.task = "publish" /\ stagePhase = "ready"
        /\ run.task \in FileTask /\ run.task \in MoveTask /\ "final" \in Origin
        /\ "publication" \in Purpose
    BY Purposes DEF _prepare_publication_copy, Doing, FileTask, MoveTask, Origin
  <1>2. CASE Allocate(f, "publication", "final")
    BY <1>1, <1>2, AllocateStep
  <1>3. CASE Bind(f, "publication")
    BY <1>1, <1>3, BindStep
  <1>4. CASE Claiming(f, "publication")
    BY <1>1, <1>4, ClaimingStep
  <1>5. CASE RecordCapture(f, "publication")
    BY <1>1, <1>5, RecordStep
  <1>6. CASE /\ PhaseOf(f, "publication") = "claiming" /\ At(f, "publication") = "none"
             /\ Put(f, "publication", "new")
             /\ UNCHANGED <<setup, journal, run, exposed, history, interrupts>>
    BY <1>1, <1>6, CopyStep
  <1>q. QED
    BY <1>2, <1>3, <1>4, <1>5, <1>6 DEF _prepare_publication_copy

LEMMA RetainStep ==
  ASSUME IInv, NEW f \in File, _retain_original(f) PROVE IInv'
  <1>1. /\ run.at = f /\ run.task = "publish" /\ f \in setup.overwrite /\ Copied(f)
        /\ Capture(f, "original", "final", "flat")
    BY DEF _retain_original, Doing
  <1>q. QED
    BY <1>1, CaptureStep

LEMMA PublishFileStep ==
  ASSUME IInv, NEW f \in File, _publish_private(f) PROVE IInv'
  <1>1. /\ PublishReady(f) /\ run.at = f /\ run.task = "publish" /\ stagePhase = "ready"
        /\ ~receipt[f]
    BY DEF _publish_private, PublishReady, Doing
  <1>2. CASE /\ At(f, "publication") # "none"
             /\ SetPhase(f, "publication", "restoring") /\ Hand("armed")
             /\ UNCHANGED <<setup, state, decision, allocating, receipt, stagePhase, place,
                            exposed, history, interrupts>>
    BY <1>1, <1>2, ArmStep
  <1>3. CASE /\ run.hand = "armed" /\ At(f, "publication") # "none" /\ At(f, "final") = "none"
             /\ IF setup.native THEN Move(f, "publication", "final") /\ UNCHANGED run
                ELSE Put(f, "final", At(f, "publication")) /\ Hand("linked")
             /\ UNCHANGED <<setup, journal, exposed, history, interrupts>>
    BY <1>1, <1>3, PublishStep
  <1>4. CASE PhaseOf(f, "publication") = "restoring" /\ PublishReceipt(f)
    BY <1>1, <1>4, ReceiptStep
  <1>q. QED
    BY <1>2, <1>3, <1>4 DEF _publish_private

LEMMA RemoveOursStep ==
  ASSUME IInv, NEW f \in File, _remove_our_publication(f) PROVE IInv'
  <1>1. /\ run.at = f /\ run.task = "restore" /\ ~Removed(f) /\ Undoing
        /\ run.task \in FileTask /\ run.task \in MoveTask /\ "rollback" \in Purpose
        /\ "final" \in Origin
    BY Purposes DEF _remove_our_publication, Doing, IInv, UnitInv, Undoing, FileTask, MoveTask, Origin
  <1>2. CASE ~receipt[f] /\ PublishReceipt(f)
    BY <1>1, <1>2, ReceiptStep DEF Removed
  <1>3. CASE receipt[f] /\ At(f, "final") = "new" /\ Allocate(f, "rollback", "final")
    BY <1>1, <1>3, AllocateStep
  <1>4. CASE Bind(f, "rollback")
    BY <1>1, <1>4, BindStep
  <1>5. CASE Claiming(f, "rollback")
    BY <1>1, <1>5, ClaimingStep
  <1>6. CASE Take(f, "rollback")
    BY <1>1, <1>6, TakeStep
  <1>7. CASE RecordCapture(f, "rollback")
    BY <1>1, <1>7, RecordStep
  <1>8. CASE DiscardArtifact(f, "rollback")
    BY <1>1, <1>8, DiscardArtifactStep DEF MayDiscard
  <1>9. CASE Captured(f, "rollback") = "foreign" /\ _restore_private_to(f, "rollback", "final")
    BY <1>1, <1>9, RestoreToStep DEF MayRestore
  <1>q. QED
    BY <1>2, <1>3, <1>4, <1>5, <1>6, <1>7, <1>8, <1>9 DEF _remove_our_publication

LEMMA RestoreOldStep ==
  ASSUME IInv, NEW f \in File, _restore_original(f) PROVE IInv'
  <1>1. /\ run.at = f /\ run.task = "restore" /\ Removed(f)
        /\ run.task \in FileTask /\ run.task \in MoveTask /\ "original" \in Purpose
        /\ "flat" \in Origin
    BY Purposes DEF _restore_original, Doing, FileTask, MoveTask, Origin
  <1>2. CASE At(f, "flat") # "none" /\ Allocate(f, "original", "flat")
    <2>1. f \in setup.overwrite /\ Copied(f)
      BY <1>2 DEF IInv, FileInv, OriginalInv
    <2>q. QED
      BY <1>1, <1>2, <2>1, AllocateStep
  <1>3. CASE Bind(f, "original")
    BY <1>1, <1>3, BindStep
  <1>4. CASE Claiming(f, "original")
    BY <1>1, <1>4, ClaimingStep
  <1>5. CASE Take(f, "original")
    BY <1>1, <1>5, TakeStep
  <1>6. CASE RecordCapture(f, "original")
    BY <1>1, <1>6, RecordStep
  <1>7. CASE _restore_private_to(f, "original", "final")
    BY <1>1, <1>7, RestoreToStep DEF MayRestore
  <1>q. QED
    BY <1>2, <1>3, <1>4, <1>5, <1>6, <1>7 DEF _restore_original

LEMMA DropStep ==
  ASSUME IInv, NEW f \in File, DropFile(f) PROVE IInv'
  <1>1. Doing("drop", f) /\ run.at = f /\ run.task = "drop"
    BY DEF DropFile, Doing
  <1>2. ASSUME NEW p \in {"rollback", "original", "publication"}, Discard(f, p) PROVE IInv'
    BY <1>1, <1>2, Purposes, DiscardStep DEF MayDiscard
  <1>3. CASE /\ \A p \in {"rollback", "original", "publication"} : Dropped(f, p)
             /\ run' = IF f = N THEN [run EXCEPT !.task = "stage"] ELSE [run EXCEPT !.at = f + 1]
             /\ UnitOnly
    BY <1>1, <1>3, DroppedFileStep
  <1>q. QED
    BY <1>2, <1>3 DEF DropFile

LEMMA CleanStep ==
  ASSUME IInv, NEW f \in File, CleanFile(f) PROVE IInv'
  <1>1. Doing("clean", f) /\ run.at = f /\ run.task = "clean"
    BY DEF CleanFile, Doing
  <1>2. ASSUME NEW p \in {"original", "publication"}, Discard(f, p) PROVE IInv'
    BY <1>1, <1>2, Purposes, DiscardStep DEF MayDiscard
  <1>3. CASE /\ Dropped(f, "original") /\ Dropped(f, "publication")
             /\ run' = IF f = N THEN [run EXCEPT !.task = "stage"] ELSE [run EXCEPT !.at = f + 1]
             /\ UnitOnly
    BY <1>1, <1>3, CleanedFileStep
  <1>q. QED
    BY <1>2, <1>3 DEF CleanFile

LEMMA CleanSourceStep ==
  ASSUME IInv, NEW f \in File, _cleanup_source_private(f) PROVE IInv'
  <1>1. /\ Doing("source", f) /\ run.at = f /\ run.task = "source" /\ "source" \in Purpose
        /\ MayDiscard(f, "source")
    BY Purposes DEF _cleanup_source_private, Doing, MayDiscard
  <1>2. CASE Capture(f, "source", "src", "srcflat")
    BY <1>1, <1>2, CaptureStep
  <1>3. CASE Captured(f, "source") = "srcdata" /\ Discard(f, "source")
    BY <1>1, <1>3, DiscardStep
  <1>4. CASE Captured(f, "source") = "foreign" /\ _restore_private_to(f, "source", "src")
    BY <1>1, <1>4, RestoreToStep DEF MayRestore
  <1>5. CASE run.hand = "proved" /\ Discarding(f, "source")
    BY <1>1, <1>5, DiscardingStep
  <1>6. CASE DiscardArtifact(f, "source")
    BY <1>1, <1>6, DiscardArtifactStep
  <1>7. CASE SourceDone(f) /\ NextFile(f) /\ UnitOnly
    BY <1>1, <1>7, SourceFileStep DEF NextFile
  <1>q. QED
    BY <1>2, <1>3, <1>4, <1>5, <1>6, <1>7 DEF _cleanup_source_private, SourceDone

LEMMA SourceBlockedStep ==
  ASSUME IInv, NEW f \in File, SourceBlocked(f) PROVE IInv'
  BY SourceFileStep DEF SourceBlocked

LEMMA NextIInv == IInv /\ [Next]_vars => IInv'
  <1> SUFFICES ASSUME IInv, [Next]_vars PROVE IInv'
    OBVIOUS
  <1>1. ASSUME NEW f \in File, FileStep(f) PROVE IInv'
    BY <1>1, CopyFileStep, RetainStep, PublishFileStep, PublishedFileStep, PublishBlockedStep,
       RemoveOursStep, RestoreOldStep, RestoredFileStep, DropStep, CleanSourceStep,
       SourceBlockedStep, CleanStep DEF FileStep
  <1>2. CASE UnitStep
    BY <1>1, <1>2, BeginStep, PublishedStep, VerifyStep, CommitStep, AdmissionChangedStep,
       SourcesDoneStep, StageStep, FinishStep, BlockedStep DEF UnitStep
  <1>3. CASE UNCHANGED vars
    <2>1. UNCHANGED <<setup, state, decision, allocating, carrier, receipt, stagePhase, place,
                      run, exposed, history, interrupts>>
      BY <1>3 DEF vars, journal
    <2>2. TypeOK' /\ HandInv'
      BY <2>1 DEF IInv, TypeOK, HandInv, history
    <2>3. UnitInv' /\ DecisionInv'
      BY <2>1 DEF IInv, UnitInv, DecisionInv, Settled, Gone, UndoDropped, CleanDropped,
                  SourceDone, Dropped
    <2>q. QED
      BY <2>1, <2>2, <2>3, QuietStep
  <1>q. QED
    BY <1>2, <1>3, InterruptStep, ForeignStep DEF Next

-----------------------------------------------------------------------------
(* The theorems.                                                           *)

\* The inductive invariant holds of every unit, restart and interference, for any
\* number of files, of interruptions and of changes by others.
THEOREM PublicationInvariant == Spec => []IInv
  <1>1. Init => IInv
    BY InitIInv
  <1>2. IInv /\ [Next]_vars => IInv'
    BY NextIInv
  <1>q. QED
    BY <1>1, <1>2, PTL DEF Spec

\* No file is lost: the file that an import replaces is on disk until Phase 3 has
\* committed, a version that somebody else brought is never destroyed, and a source
\* is not touched before the commit.
THEOREM FilesStaySafe == Spec => []FilesSafe
  <1>1. IInv => FilesSafe
    <2> SUFFICES ASSUME IInv PROVE FilesSafe
      OBVIOUS
    <2>1. OldSafe
      <3> SUFFICES ASSUME NEW f \in setup.overwrite, decision # "commit",
                          <<f, "old">> \notin taken
                   PROVE  \E l \in Place : At(f, l) = "old"
        BY DEF OldSafe, Somewhere
      <3>1. f \in File
        BY DEF IInv, TypeOK, Setup
      <3>2. OldInv(f) /\ OriginalInv(f)
        BY <3>1 DEF IInv, FileInv
      <3>3. PhaseOf(f, "original") \in Phase
        BY <3>1, Typed, Purposes DEF IInv, CarrierRow
      <3>4. PhaseOf(f, "original") \in {"allocated", "claiming"} =>
              OriginOf(f, "original") \in Place
        BY <3>2, Places DEF OriginalInv
      <3>5. CASE PhaseOf(f, "original") \in {"none", "claimed", "restoring", "restored",
                                             "discarding", "discarded"}
        BY <3>2, <3>5, Places DEF OldInv
      <3>6. CASE PhaseOf(f, "original") \in {"allocated", "claiming"}
        BY <3>2, <3>4, <3>6, Places DEF OldInv
      <3>q. QED
        BY <3>3, <3>5, <3>6 DEF Phase
    <2>2. ForeignSafe
      <3>1. \A f \in brought : f \in File
        BY DEF IInv, TypeOK
      <3>q. QED
        BY <3>1 DEF ForeignSafe, Somewhere, IInv, FileInv, BroughtInv
    <2>3. SourceSafe
      BY DEF SourceSafe, IInv, FileInv, ContentInv
    <2>q. QED
      BY <2>1, <2>2, <2>3 DEF FilesSafe
  <1>q. QED
    BY <1>1, PublicationInvariant, PTL

LEMMA CompensatedFile ==
  ASSUME NEW f \in File, TypeOK, FileInv(f), Settled(f), decision = "compensated", outside = {}
  PROVE  At(f, "final") = IF f \in setup.overwrite THEN "old" ELSE "none"
  <1>1. /\ ContentInv(f) /\ PublicationInv(f) /\ OriginalInv(f) /\ OldInv(f)
        /\ <<f, "old">> \notin taken /\ f \notin outside
    BY DEF FileInv, ContentInv
  <1>2. At(f, "final") # "new"
    BY <1>1 DEF Settled, Gone, PublicationInv
  <1>3. CASE f \in setup.overwrite
    BY <1>1, <1>3 DEF Settled, OldInv
  <1>4. CASE f \notin setup.overwrite
    <2>1. At(f, "final") \in Content
      BY Typed, Places
    <2>2. At(f, "final") \notin {"old", "srcdata", "foreign"}
      BY <1>1, <1>4, Places DEF OriginalInv, ContentInv
    <2>q. QED
      BY <1>2, <1>4, <2>1, <2>2 DEF Content
  <1>q. QED
    BY <1>3, <1>4

\* The journal accounts for the whole batch: without interference it is all or
\* nothing, a private artifact exists only under a record that announced it, a
\* decided batch is never stranded by an unproven carrier, and a finished
\* publication leaves nothing private behind.
THEOREM BatchIsAccounted == Spec => []BatchAccounted
  <1>1. IInv => BatchAccounted
    <2> SUFFICES ASSUME IInv PROVE BatchAccounted
      OBVIOUS
    <2>1. AllOrNothing
      <3> SUFFICES ASSUME outside = {} PROVE AllOrNothing
        BY DEF AllOrNothing
      <3>1. state \in {"db_committed", "cleaning"} => decision = "commit"
        BY DEF IInv, DecisionInv
      <3>2. decision = "commit" => \A f \in File : At(f, "final") = "new"
        BY DEF IInv, FileInv
      <3>3. decision = "compensated" => \A f \in File :
              At(f, "final") = IF f \in setup.overwrite THEN "old" ELSE "none"
        BY CompensatedFile DEF IInv, DecisionInv
      <3>q. QED
        BY <3>1, <3>2, <3>3 DEF AllOrNothing
    <2>2. JournalAhead
      <3> SUFFICES ASSUME NEW f \in File, NEW p \in Purpose, At(f, p) # "none"
                   PROVE  /\ PhaseOf(f, p) \in {"claiming", "claimed", "restoring", "restored",
                                                "discarding"}
                          /\ PhaseOf(f, p) # "claiming" => Captured(f, p) = At(f, p)
        BY DEF JournalAhead
      <3>1. PhaseOf(f, p) \in Phase
        BY Typed DEF IInv, CarrierRow
      <3>q. QED
        BY <3>1 DEF IInv, FileInv, CarrierInv, Phase
    <2>3. DiscardProven
      <3> SUFFICES ASSUME run.task \in {"drop", "clean"}, NEW f \in File,
                          NEW p \in Purpose \ {"source"}
                   PROVE  Dropped(f, p) \/ Captured(f, p) # "none"
        BY DEF DiscardProven
      <3>1. FileInv(f) /\ p \in {"publication", "original", "rollback"}
        BY DEF IInv, Purpose
      <3>2. \A r \in Purpose : PhaseOf(f, r) \in {"allocated", "claiming"} \/ Dropped(f, r)
                                 \/ Captured(f, r) # "none"
        BY <3>1, Purposes DEF FileInv, CarrierInv, Early, Dropped
      <3>3. CASE run.task = "drop"
        <4>1. decision = "compensate" /\ \A g \in File : Settled(g)
          BY <3>3 DEF IInv, UnitInv
        <4>2. PhaseOf(f, "original") \notin {"allocated", "claiming"}
          BY <4>1 DEF Settled
        <4>3. PhaseOf(f, "rollback") \notin {"allocated", "claiming"}
          BY <3>1, <4>1, Purposes DEF Settled, Gone, FileInv, CarrierInv, RollbackInv, Early
        <4>4. \A g \in File : ~Stuck(g)
          BY <4>1, Purposes DEF IInv, FileInv, CarrierInv, Settled, Gone, Stuck, Early
        <4>5. PhaseOf(f, "publication") \notin {"allocated", "claiming"}
          BY <4>1, <4>4 DEF IInv, StuckInv, Undoing
        <4>q. QED
          BY <3>1, <3>2, <4>2, <4>3, <4>5
      <3>4. CASE run.task = "clean"
        <4>1. decision = "commit" /\ receipt[f] /\ OldKept(f)
          BY <3>1, <3>4 DEF IInv, UnitInv, FileInv, PublicationInv
        <4>2. PhaseOf(f, "original") \notin {"allocated", "claiming"}
          BY <3>1, <4>1, Purposes DEF FileInv, OriginalInv, CarrierInv, OldKept, Early
        <4>3. PhaseOf(f, "rollback") \notin {"allocated", "claiming"}
          BY <3>1, <4>1 DEF FileInv, RollbackInv, Undoing
        <4>4. PhaseOf(f, "publication") \notin {"allocated", "claiming"}
          BY <3>1, <4>1 DEF FileInv, PublicationInv
        <4>q. QED
          BY <3>1, <3>2, <4>2, <4>3, <4>4
      <3>q. QED
        BY <3>3, <3>4
    <2>4. NothingLeftBehind
      <3> SUFFICES ASSUME state = "finalized", NEW f \in File
                   PROVE  \A l \in Purpose \union {"stage", "flat", "srcflat"} : At(f, l) = "none"
        BY DEF NothingLeftBehind
      <3>1. FileInv(f) /\ decision \in {"commit", "compensated"} /\ At(f, "stage") = "none"
        BY DEF IInv, DecisionInv, OrderInv
      <3>2. \A r \in Purpose : Dropped(f, r) => At(f, r) = "none"
        BY <3>1 DEF FileInv, CarrierInv, Dropped
      <3>3. CASE decision = "commit"
        <4>1. CleanDropped(f) /\ SourceDone(f) /\ receipt[f] /\ OldKept(f)
          BY <3>1, <3>3 DEF IInv, DecisionInv, FileInv, PublicationInv
        <4>2. Dropped(f, "rollback") /\ Dropped(f, "source")
          BY <3>1, <3>3, <4>1 DEF FileInv, RollbackInv, Undoing, SourceDone, Dropped
        <4>3. At(f, "flat") = "none"
          BY <3>1, <4>1, Purposes DEF FileInv, OriginalInv, CarrierInv, OldKept
        <4>4. At(f, "srcflat") = "none"
          BY <3>1, <4>1 DEF FileInv, SourceInv, SourceDone, Early
        <4>q. QED
          BY <3>1, <3>2, <4>1, <4>2, <4>3, <4>4 DEF CleanDropped, Purpose
      <3>4. CASE decision = "compensated"
        <4>1. Settled(f) /\ UndoDropped(f)
          BY <3>4 DEF IInv, DecisionInv
        <4>2. Dropped(f, "source") /\ At(f, "srcflat") = "none" /\ At(f, "flat") = "none"
          BY <3>1, <3>4, <4>1 DEF FileInv, SourceInv, Dropped, Settled
        <4>q. QED
          BY <3>1, <3>2, <4>1, <4>2 DEF UndoDropped, CleanDropped, Purpose
      <3>q. QED
        BY <3>1, <3>3, <3>4
    <2>q. QED
      BY <2>1, <2>2, <2>3, <2>4 DEF BatchAccounted
  <1>q. QED
    BY <1>1, PublicationInvariant, PTL

-----------------------------------------------------------------------------
(***************************************************************************)
(* The refinement of AtomicBatch.  The invariant above says what becomes   *)
(* of a file; what a reader sees of the batch as a whole needs five facts  *)
(* more: a published file stays in place until its rollback takes it       *)
(* (InPlace), a rollback has begun for a file only if all files behind it  *)
(* are back (TurnInv), a source that is still at its path is nowhere else  *)
(* (SourceHeld), and what the cleanup of sources has behind it (MovedInv). *)
(* A unit that compensates allocates the carrier of an original for its    *)
(* recovery name alone (Handed).                                           *)
(***************************************************************************)
InPlace(f) ==
  f \notin outside /\ receipt[f] /\ Captured(f, "rollback") = "none" /\ At(f, "rollback") = "none"
    => At(f, "final") = "new"
SourceHeld(f) ==
  f \notin outside /\ At(f, "src") = "srcdata" =>
    /\ At(f, "source") = "none" /\ At(f, "srcflat") = "none"
    /\ PhaseOf(f, "source") \in Early
TurnInv == \A f, g \in File : f < g /\ PhaseOf(f, "rollback") # "none" => Settled(g)
SourceGone(f) == f \notin outside => At(f, "src") # "srcdata"
MovedInv ==
  decision = "commit" /\ setup.move =>
    /\ run.task = "source" => \A g \in File : g < run.at => run.blocked \/ SourceGone(g)
    /\ run.task \in {"clean", "stage", "finish"} => \A g \in File : run.blocked \/ SourceGone(g)
    /\ state = "finalized" => \A g \in File : SourceGone(g)

Handed ==
  run.task = "restore" /\ run.hand \in Origin =>
    \A f \in File : allocating = <<f, "original">> => At(f, "flat") # "none"

Order == (\A f \in File : InPlace(f) /\ SourceHeld(f)) /\ TurnInv /\ MovedInv /\ Handed
RInv == IInv /\ Order

\* A step keeps the invariant and is one of AtomicBatch or a stutter.
RStep == Order' /\ [Batch!BNext]_(Batch!bvars)

-----------------------------------------------------------------------------
(* The refinement mapping, file by file.                                   *)

\* Nothing that a reader can tell apart changes at f.
Unseen(f) ==
  f \in outside \/ (At(f, "final")' = At(f, "final") /\ At(f, "src")' = At(f, "src"))

LEMMA UnseenSame ==
  ASSUME NEW f \in File, Unseen(f), UNCHANGED <<setup, outside>>
  PROVE  Shown(f)' = Shown(f) /\ SourceOf(f)' = SourceOf(f)
  BY DEF Unseen, Shown, SourceOf

\* A step that shows nothing is a stutter of AtomicBatch.
LEMMA HiddenStutters ==
  ASSUME \A f \in File : Unseen(f), UNCHANGED <<setup, decision, outside>>,
         state' = "finalized" <=> state = "finalized"
  PROVE  UNCHANGED Batch!bvars
  <1>1. \A f \in File : Shown(f)' = Shown(f) /\ SourceOf(f)' = SourceOf(f)
    BY UnseenSame
  <1>2. /\ [f \in File |-> Shown(f)]' = [f \in File |-> Shown(f)]
        /\ [f \in File |-> SourceOf(f)]' = [f \in File |-> SourceOf(f)]
    BY <1>1
  <1>3. Outcome' = Outcome
    BY DEF Outcome
  <1>4. (state = "finalized")' = (state = "finalized")
    OBVIOUS
  <1>q. QED
    BY <1>2, <1>3, <1>4 DEF Batch!bvars

\* What a step that shows something at f alone writes of the abstract state.
LEMMA FileMapped ==
  ASSUME NEW f \in File, \A g \in File : g # f => Unseen(g),
         UNCHANGED <<setup, state, decision, outside>>
  PROVE  /\ [g \in File |-> Shown(g)]' = [[g \in File |-> Shown(g)] EXCEPT ![f] = Shown(f)']
         /\ [g \in File |-> SourceOf(g)]' =
              [[g \in File |-> SourceOf(g)] EXCEPT ![f] = SourceOf(f)']
         /\ [g \in File |-> Shown(g)][f] = Shown(f)
         /\ [g \in File |-> SourceOf(g)][f] = SourceOf(f)
         /\ UNCHANGED <<setup.move, Outcome, state = "finalized">>
  <1>1. \A g \in File : g # f => Shown(g)' = Shown(g) /\ SourceOf(g)' = SourceOf(g)
    BY UnseenSame
  <1>2. /\ [g \in File |-> Shown(g)]' = [[g \in File |-> Shown(g)] EXCEPT ![f] = Shown(f)']
        /\ [g \in File |-> SourceOf(g)]' =
             [[g \in File |-> SourceOf(g)] EXCEPT ![f] = SourceOf(f)']
    BY <1>1
  <1>3. UNCHANGED <<setup.move, Outcome, state = "finalized">>
    BY DEF Outcome
  <1>q. QED
    BY <1>2, <1>3

\* The source of a move goes.
LEMMA SourceMapped ==
  ASSUME NEW f \in File, \A g \in File : g # f => Unseen(g), f \notin outside,
         UNCHANGED <<setup, state, decision, outside>>, setup.move, decision = "commit",
         state # "finalized", At(f, "final")' = At(f, "final"), At(f, "src") = "srcdata",
         At(f, "src")' # "srcdata"
  PROVE  Batch!TakeSource(f)
  <1>1. /\ [g \in File |-> Shown(g)]' = [[g \in File |-> Shown(g)] EXCEPT ![f] = Shown(f)']
        /\ [g \in File |-> SourceOf(g)]' =
             [[g \in File |-> SourceOf(g)] EXCEPT ![f] = SourceOf(f)']
        /\ [g \in File |-> Shown(g)][f] = Shown(f)
        /\ [g \in File |-> SourceOf(g)][f] = SourceOf(f)
        /\ UNCHANGED <<setup.move, Outcome, state = "finalized">>
    BY FileMapped
  <1>2. Shown(f)' = Shown(f) /\ SourceOf(f)' = "taken" /\ SourceOf(f) = "there"
    BY DEF Shown, SourceOf
  <1>3. [g \in File |-> Shown(g)]' = [g \in File |-> Shown(g)]
    BY <1>1, <1>2
  <1>4. Outcome = "committed"
    BY DEF Outcome
  <1>q. QED
    BY <1>1, <1>2, <1>3, <1>4 DEF Batch!TakeSource

\* The public name of f changes, at its turn.
Turns(f) ==
  \/ /\ run.task \in {"publish", "restore"} /\ f \in setup.overwrite
     /\ At(f, "final") = "old" /\ At(f, "final")' = "none"
  \/ run.task = "publish" /\ At(f, "final") = "none" /\ At(f, "final")' = "new"
  \/ run.task = "restore" /\ At(f, "final") = "new" /\ At(f, "final")' = "none"
  \/ /\ run.task = "restore" /\ f \in setup.overwrite
     /\ At(f, "final") = "none" /\ At(f, "final")' = "old"

LEMMA TurnMapped ==
  ASSUME IInv, NEW f \in File, \A g \in File : g # f => Unseen(g), f \notin outside,
         UNCHANGED <<setup, state, decision, outside>>, Batch!CutAt(f), Turns(f),
         At(f, "src")' = At(f, "src")
  PROVE  Batch!BNext
  <1>1. /\ [g \in File |-> Shown(g)]' = [[g \in File |-> Shown(g)] EXCEPT ![f] = Shown(f)']
        /\ [g \in File |-> SourceOf(g)]' =
             [[g \in File |-> SourceOf(g)] EXCEPT ![f] = SourceOf(f)']
        /\ [g \in File |-> Shown(g)][f] = Shown(f)
        /\ [g \in File |-> SourceOf(g)][f] = SourceOf(f)
        /\ UNCHANGED <<setup.move, Outcome, state = "finalized">>
    BY FileMapped
  <1>2. [g \in File |-> SourceOf(g)]' = [g \in File |-> SourceOf(g)]
    <2>1. SourceOf(f)' = SourceOf(f)
      BY DEF SourceOf
    <2>q. QED
      BY <1>1, <2>1
  <1>3. Batch!Show(f, Shown(f)')
    BY <1>1, <1>2 DEF Batch!Show
  <1>4. /\ run.task = "publish" => Outcome = "open"
        /\ run.task = "restore" => Outcome = "undoing"
    BY DEF Outcome, IInv, UnitInv
  <1>5. CASE /\ run.task \in {"publish", "restore"} /\ f \in setup.overwrite
             /\ At(f, "final") = "old" /\ At(f, "final")' = "none"
    <2>1. Shown(f) = "before" /\ Shown(f)' = "missing"
      BY <1>5 DEF Shown
    <2>q. QED
      BY <1>1, <1>3, <1>4, <1>5, <2>1 DEF Batch!Withdraw, Batch!BNext
  <1>6. CASE run.task = "publish" /\ At(f, "final") = "none" /\ At(f, "final")' = "new"
    <2>1. Shown(f) \in {"before", "missing"} /\ Shown(f)' = "after"
      BY <1>6 DEF Shown
    <2>q. QED
      BY <1>1, <1>3, <1>4, <1>6, <2>1 DEF Batch!Publish, Batch!BNext
  <1>7. CASE run.task = "restore" /\ At(f, "final") = "new" /\ At(f, "final")' = "none"
    <2>1. Shown(f) = "after" /\ Shown(f)' \in {"missing", "before"}
      BY <1>7 DEF Shown
    <2>q. QED
      BY <1>1, <1>3, <1>4, <1>7, <2>1 DEF Batch!TakeBack, Batch!BNext
  <1>8. CASE /\ run.task = "restore" /\ f \in setup.overwrite
             /\ At(f, "final") = "none" /\ At(f, "final")' = "old"
    <2>1. Shown(f) = "missing" /\ Shown(f)' = "before"
      BY <1>8 DEF Shown
    <2>q. QED
      BY <1>1, <1>3, <1>4, <1>8, <2>1 DEF Batch!PutBack, Batch!BNext
  <1>q. QED
    BY <1>5, <1>6, <1>7, <1>8 DEF Turns

-----------------------------------------------------------------------------
(* The turn of a file: what a reader sees of the others.                   *)

\* A file whose compensation is over is as it was (CompensatedFile, before the end).
LEMMA SettledShown ==
  ASSUME NEW f \in File, TypeOK, FileInv(f), Settled(f), decision # "commit"
  PROVE  Shown(f) \in {"before", "theirs"}
  <1> SUFFICES ASSUME f \notin outside
               PROVE  At(f, "final") = IF f \in setup.overwrite THEN "old" ELSE "none"
    BY DEF Shown
  <1>1. /\ ContentInv(f) /\ PublicationInv(f) /\ OriginalInv(f) /\ OldInv(f)
        /\ <<f, "old">> \notin taken
    BY DEF FileInv, ContentInv
  <1>2. At(f, "final") # "new"
    BY <1>1 DEF Settled, Gone, PublicationInv
  <1>3. CASE f \in setup.overwrite
    BY <1>1, <1>3 DEF Settled, OldInv
  <1>4. CASE f \notin setup.overwrite
    <2>1. At(f, "final") \in Content
      BY Typed, Places
    <2>2. At(f, "final") \notin {"old", "srcdata", "foreign"}
      BY <1>1, <1>4, Places DEF OriginalInv, ContentInv
    <2>q. QED
      BY <1>2, <1>4, <2>1, <2>2 DEF Content
  <1>q. QED
    BY <1>3, <1>4

\* A file that publication has not reached is as it was.
LEMMA UntouchedShown ==
  ASSUME NEW f \in File, TypeOK, FileInv(f), decision = "pending",
         PhaseOf(f, "publication") = "none"
  PROVE  Shown(f) \in {"before", "theirs"}
  <1>1. ~receipt[f] /\ Captured(f, "publication") = "none"
    BY Purposes DEF FileInv, PublicationInv, CarrierInv, Early
  <1>2. PhaseOf(f, "original") = "none" /\ At(f, "flat") = "none"
    BY <1>1 DEF FileInv, OriginalInv, Copied
  <1>3. Settled(f)
    BY <1>1, <1>2, Purposes DEF Settled, Gone, FileInv, CarrierInv, Early
  <1>q. QED
    BY <1>3, SettledShown

LEMMA InPlaceShown ==
  ASSUME NEW f \in File, FileInv(f), InPlace(f), receipt[f], PhaseOf(f, "rollback") = "none"
  PROVE  Shown(f) \in {"after", "theirs"}
  <1>1. Captured(f, "rollback") = "none" /\ At(f, "rollback") = "none"
    BY Purposes DEF FileInv, CarrierInv, Early
  <1>q. QED
    BY <1>1 DEF InPlace, Shown

\* The files before f are published and those behind it are not.
LEMMA Cut ==
  ASSUME RInv, NEW f \in File, run.at = f,
         \/ run.task = "publish" /\ ~receipt[f]
         \/ run.task = "restore" /\ ~Settled(f) /\ PhaseOf(f, "publication") # "none"
  PROVE  Batch!CutAt(f)
  <1> USE DEF RInv
  <1>1. /\ TypeOK /\ \A g \in File : FileInv(g) /\ InPlace(g)
        /\ decision \in {"pending", "compensate"}
        /\ run.task = "publish" => decision = "pending"
    BY DEF IInv, UnitInv, Order
  <1>2. ASSUME NEW g \in File, g < f PROVE Shown(g) \in {"after", "theirs"}
    <2>1. receipt[g]
      BY <1>2 DEF IInv, UnitInv, OrderInv
    <2>2. PhaseOf(g, "rollback") = "none"
      BY <1>1, <1>2 DEF FileInv, RollbackInv, Undoing, Order, TurnInv
    <2>q. QED
      BY <1>1, <2>1, <2>2, InPlaceShown
  <1>3. ASSUME NEW g \in File, g > f PROVE Shown(g) \in {"before", "theirs"}
    <2>1. CASE run.task = "publish"
      <3>1. f < g
        BY <1>3 DEF File
      <3>2. PhaseOf(g, "publication") = "none"
        BY <2>1, <3>1 DEF IInv, OrderInv
      <3>q. QED
        BY <1>1, <2>1, <3>2, UntouchedShown
    <2>2. CASE run.task = "restore"
      <3>1. Settled(g)
        BY <1>3, <2>2 DEF IInv, UnitInv
      <3>q. QED
        BY <1>1, <3>1, SettledShown
    <2>q. QED
      BY <2>1, <2>2
  <1>q. QED
    BY <1>2, <1>3 DEF Batch!CutAt

-----------------------------------------------------------------------------
(* A step in a carrier: neither the public names nor the recovery names    *)
(* change.                                                                 *)

Ended == {"restored", "discarding", "discarded"}
Carries(f, p) ==
  /\ \A r \in Purpose \ {p} : PhaseOf(f, r)' = PhaseOf(f, r) /\ Captured(f, r)' = Captured(f, r)
  /\ \A l \in Place \ {p} : At(f, l)' = At(f, l)
  /\ receipt'[f] = receipt[f]
  /\ Captured(f, p) # "none" => Captured(f, p)' = Captured(f, p)
  /\ p = "original" /\ PhaseOf(f, p) \in Ended => PhaseOf(f, p)' \in Ended
  /\ PhaseOf(f, p) = "none" =>
       PhaseOf(f, p)' = "none" \/ (allocating = <<f, p>> /\ run.hand \in Origin)
  /\ p # "publication" /\ Captured(f, p) = "none" =>
       At(f, p)' = At(f, p) /\ (At(f, p) = "none" => PhaseOf(f, p)' \in Early)
HandStep(f, p) ==
  run'.hand \in Origin =>
    \/ run'.hand = run.hand /\ allocating' = allocating
    \/ /\ allocating' = <<f, p>>
       /\ p = "original" /\ run.task = "restore" => At(f, "flat") # "none"

\* The cleanup of sources, when a step of the unit leaves its place.
LEMMA LocalMoved ==
  ASSUME RInv, IInv', NEW f \in File, run.at = f, run.task \in FileTask, Local(f),
         run.task = "clean" => At(f, "src")' = At(f, "src")
  PROVE  MovedInv'
  <1>1. \A g \in File : g # f => (SourceGone(g)' <=> SourceGone(g))
    BY DEF SourceGone, Local, Same, history
  <1>2. \A g \in File : g < f => g # f
    BY DEF File
  <1>3. CASE run.task = "source"
    <2>1. state' # "finalized" /\ run'.task = "source" /\ run'.at = f
      BY <1>3 DEF Local, IInv, DecisionInv, Idle
    <2>q. QED
      BY <1>1, <1>2, <1>3, <2>1 DEF MovedInv, RInv, Order, Local
  <1>4. CASE run.task = "clean"
    <2>1. \A g \in File : SourceGone(g)' <=> SourceGone(g)
      BY <1>1, <1>4 DEF SourceGone, Local, history
    <2>2. state' # "finalized" /\ run'.task = "clean"
      BY <1>4 DEF Local, IInv, DecisionInv, Idle
    <2>q. QED
      BY <1>4, <2>1, <2>2 DEF MovedInv, RInv, Order, Local
  <1>5. CASE run.task \in {"publish", "restore", "drop"}
    BY <1>5 DEF MovedInv, IInv, UnitInv, Local
  <1>q. QED
    BY <1>3, <1>4, <1>5 DEF FileTask

\* The order of the compensation, when a step of the unit leaves its place.
LEMMA LocalTurn ==
  ASSUME RInv, IInv', NEW f \in File, run.at = f, run.task \in FileTask, Local(f),
         run.task = "restore" /\ Settled(f) => Settled(f)'
  PROVE  TurnInv'
  <1> SUFFICES ASSUME NEW g \in File, NEW h \in File, g < h, PhaseOf(g, "rollback")' # "none"
               PROVE  Settled(h)'
    BY DEF TurnInv
  <1>1. decision = "compensate"
    BY Purposes DEF IInv, FileInv, RollbackInv, Undoing, Local, UnitInv, FileTask, RInv
  <1>2. CASE run.task = "restore"
    <2>1. \A k \in File : k # f => (Settled(k) => Settled(k)')
      BY DEF Settled, Gone, Local, Same
    <2>2. CASE g = f
      <3>1. h > f /\ h # f
        BY <2>2 DEF File
      <3>q. QED
        BY <1>2, <2>1, <3>1 DEF RInv, IInv, UnitInv
    <2>3. CASE g # f
      <3>1. Settled(h)
        BY <2>3 DEF RInv, Order, TurnInv, Local, Same
      <3>q. QED
        BY <1>2, <2>1, <3>1
    <2>q. QED
      BY <2>2, <2>3
  <1>3. CASE run.task = "drop"
    BY <1>3 DEF IInv, UnitInv, Local
  <1>q. QED
    BY <1>1, <1>2, <1>3 DEF RInv, IInv, UnitInv, FileTask

\* What is left to show of a step of the unit for its file.
LEMMA LocalOrder ==
  ASSUME RInv, IInv', NEW f \in File, run.at = f, run.task \in FileTask, Local(f),
         InPlace(f)', run.task = "source" \/ run.task = "clean" => SourceHeld(f)',
         run.task = "clean" => At(f, "src")' = At(f, "src"),
         run.task = "restore" /\ Settled(f) => Settled(f)', Handed'
  PROVE  Order'
  <1>1. SourceHeld(f)'
    <2>1. run.task \notin {"source", "clean"} => decision' # "commit"
      BY DEF RInv, IInv, UnitInv, FileTask, Local
    <2>2. FileInv(f)'
      BY DEF IInv
    <2>q. QED
      BY <2>1, <2>2, Purposes DEF FileInv, SourceInv, CarrierInv, SourceHeld, Early
  <1>2. \A g \in File : InPlace(g)' /\ SourceHeld(g)'
    BY <1>1 DEF InPlace, SourceHeld, Local, Same, RInv, Order, history
  <1>q. QED
    BY <1>2, LocalMoved, LocalTurn DEF Order

LEMMA CarriesStep ==
  ASSUME RInv, IInv', NEW f \in File, NEW p \in Purpose, run.at = f, run.task \in FileTask,
         Local(f), Carries(f, p), HandStep(f, p), p = "publication" => run.task # "restore"
  PROVE  RStep
  <1>1. /\ At(f, "final")' = At(f, "final") /\ At(f, "src")' = At(f, "src")
        /\ At(f, "flat")' = At(f, "flat") /\ At(f, "srcflat")' = At(f, "srcflat")
    BY Places DEF Carries, Purpose
  <1>2. FileInv(f) /\ InPlace(f) /\ SourceHeld(f)
    BY DEF RInv, IInv, Order
  <1>3. InPlace(f)'
    <2>1. Captured(f, "rollback")' = "none" =>
             Captured(f, "rollback") = "none" /\ At(f, "rollback")' = At(f, "rollback")
      BY Purposes, Places DEF Carries
    <2>q. QED
      BY <1>1, <1>2, <2>1 DEF InPlace, Carries, Local, history
  <1>4. SourceHeld(f)'
    <2>1. CASE p # "source"
      BY <1>1, <1>2, <2>1, Purposes, Places DEF SourceHeld, Carries, Local, history
    <2>2. CASE p = "source"
      <3>1. PhaseOf(f, "source") \in Early => Captured(f, "source") = "none"
        BY <1>2, Purposes DEF FileInv, CarrierInv
      <3>q. QED
        BY <1>1, <1>2, <2>2, <3>1 DEF SourceHeld, Carries, Local, history
    <2>q. QED
      BY <2>1, <2>2
  <1>5. Handed'
    <2> SUFFICES ASSUME run'.task = "restore", run'.hand \in Origin, NEW g \in File,
                        allocating' = <<g, "original">>
                 PROVE  At(g, "flat")' # "none"
      BY DEF Handed
    <2>1. At(g, "flat") # "none"
      BY DEF HandStep, RInv, Order, Handed, Local
    <2>q. QED
      BY <1>1, <2>1 DEF Local, Same
  <1>6. ASSUME run.task = "restore", Settled(f) PROVE Settled(f)'
    <2>1. Gone(f)'
      BY <1>6, Purposes DEF Settled, Gone, Carries
    <2>2. CASE p # "original"
      BY <1>1, <1>6, <2>1, <2>2, Purposes DEF Settled, Carries
    <2>3. CASE p = "original"
      <3>1. CASE PhaseOf(f, "original") = "none"
        <4>1. ~(allocating = <<f, "original">> /\ run.hand \in Origin)
          BY <1>6 DEF Settled, RInv, Order, Handed
        <4>2. PhaseOf(f, "original")' = "none"
          BY <2>3, <3>1, <4>1 DEF Carries
        <4>3. Captured(f, "original")' = "none"
          BY <4>2, Purposes DEF IInv, FileInv, CarrierInv, Early
        <4>q. QED
          BY <1>1, <1>6, <2>1, <4>2, <4>3 DEF Settled
      <3>2. CASE PhaseOf(f, "original") # "none"
        <4>1. PhaseOf(f, "original") \in Ended /\ PhaseOf(f, "original") \notin Early
          BY <1>6, <3>2 DEF Settled, Ended, Early
        <4>2. Captured(f, "original") # "none"
          BY <1>2, <4>1, Purposes DEF FileInv, CarrierInv
        <4>3. PhaseOf(f, "original")' \in Ended /\ Captured(f, "original")' = Captured(f, "original")
          BY <2>3, <4>1, <4>2 DEF Carries
        <4>q. QED
          BY <1>1, <1>6, <2>1, <4>3 DEF Settled, Ended
      <3>q. QED
        BY <3>1, <3>2
    <2>q. QED
      BY <2>2, <2>3
  <1>7. Order'
    BY <1>1, <1>3, <1>4, <1>5, <1>6, LocalOrder
  <1>8. UNCHANGED Batch!bvars
    <2>1. \A g \in File : Unseen(g)
      BY <1>1 DEF Unseen, Local, Same
    <2>2. UNCHANGED <<setup, state, decision, outside>>
      BY DEF Local, history
    <2>q. QED
      BY <2>1, <2>2, HiddenStutters
  <1>q. QED
    BY <1>7, <1>8 DEF RStep

\* Where the unit is, and what it has in hand afterwards.
Stays == run'.task = run.task /\ run'.at = run.at /\ run'.blocked = run.blocked
InCarrier(f, p) == Local(f) /\ Carries(f, p) /\ HandStep(f, p)

LEMMA AllocateCarries ==
  ASSUME IInv, NEW f \in File, NEW p \in Purpose, NEW o \in Origin, Allocate(f, p, o),
         p = "original" /\ run.task = "restore" => At(f, "flat") # "none"
  PROVE  InCarrier(f, p)
  <1>1. Stays
    BY HandTyped DEF Allocate, IInv, Stays
  <1>2. /\ UNCHANGED <<setup, state, decision, carrier, receipt, stagePhase, place, history>>
        /\ allocating' = <<f, p>> /\ PhaseOf(f, p) = "none"
    BY DEF Allocate
  <1>q. QED
    BY <1>1, <1>2 DEF InCarrier, Local, Same, Stays, Carries, HandStep, Early

LEMMA BindCarries ==
  ASSUME IInv, NEW f \in File, NEW p \in Purpose, Bind(f, p) PROVE InCarrier(f, p)
  <1> DEFINE row == [phase |-> "allocated", origin |-> run.hand, captured |-> "none"]
  <1>1. Stays /\ run'.hand = "none" /\ "none" \notin Origin
    BY HandTyped DEF Bind, IInv, Stays, Origin
  <1>2. /\ UNCHANGED <<setup, state, decision, receipt, stagePhase, place, history>>
        /\ carrier' = [carrier EXCEPT ![f] = [carrier[f] EXCEPT ![p] = row]]
        /\ allocating = <<f, p>> /\ run.hand \in Origin
    BY DEF Bind, IInv, TypeOK
  <1>3. row.phase = "allocated" /\ row.captured = "none"
    OBVIOUS
  <1> HIDE DEF row
  <1>4. /\ \A g \in File : g # f => carrier'[g] = carrier[g]
        /\ \A r \in Purpose : carrier'[f][r] = IF r = p THEN row ELSE carrier[f][r]
    BY <1>2, Typed DEF IInv, TypeOK
  <1>5. PhaseOf(f, p) = "none" /\ Captured(f, p) = "none"
    BY <1>2 DEF IInv, IntentInv, FileInv, CarrierInv, Early
  <1>6. Carries(f, p)
    BY <1>2, <1>3, <1>4, <1>5 DEF Carries, Early, Ended
  <1>q. QED
    BY <1>1, <1>2, <1>4, <1>6 DEF InCarrier, Local, Same, Stays, HandStep

LEMMA RecordCarries ==
  ASSUME IInv, NEW f \in File, NEW p \in Purpose, RecordCapture(f, p) PROVE InCarrier(f, p)
  <1> DEFINE row == [carrier[f][p] EXCEPT !.phase = "claimed", !.captured = At(f, p)]
  <1>1. /\ UNCHANGED <<setup, state, decision, allocating, receipt, stagePhase, place, run,
                       history>>
        /\ PhaseOf(f, p) = "claiming" /\ At(f, p) # "none"
        /\ carrier' = [carrier EXCEPT ![f] = [carrier[f] EXCEPT ![p] = row]]
    BY DEF RecordCapture, OnlyCarrier, IInv, TypeOK
  <1> HIDE DEF row
  <1>2. /\ \A g \in File : g # f => carrier'[g] = carrier[g]
        /\ \A r \in Purpose : r # p => carrier'[f][r] = carrier[f][r]
    BY <1>1, Typed DEF IInv, TypeOK
  <1>3. Captured(f, p) = "none"
    BY <1>1 DEF IInv, FileInv, CarrierInv, Early
  <1>4. Carries(f, p)
    BY <1>1, <1>2, <1>3 DEF Carries, Ended
  <1>q. QED
    BY <1>1, <1>2, <1>4 DEF InCarrier, Local, Same, HandStep

\* The steps that write a phase of a carrier and nothing else.
LEMMA PhaseCarries ==
  ASSUME IInv, NEW f \in File, NEW p \in Purpose, NEW ph \in Phase, SetPhase(f, p, ph),
         PhaseOf(f, p) # "none", p = "original" /\ PhaseOf(f, p) \in Ended => ph \in Ended,
         p # "publication" /\ PhaseOf(f, p) \in Early => ph \in Early,
         Stays, run'.hand \in Origin => run'.hand = run.hand,
         UNCHANGED <<setup, state, decision, allocating, receipt, stagePhase, place, history>>
  PROVE  InCarrier(f, p)
  <1>1. TypeOK /\ (Captured(f, p) = "none" => PhaseOf(f, p) \in Early)
    BY DEF IInv, FileInv, CarrierInv
  <1>2. \A g \in File : g # f => carrier'[g] = carrier[g]
    BY <1>1, PhaseEffect
  <1>3. \A r \in Purpose : /\ PhaseOf(f, r)' = IF r = p THEN ph ELSE PhaseOf(f, r)
                           /\ Captured(f, r)' = Captured(f, r)
    BY <1>1, PhaseAt
  <1>4. Carries(f, p)
    BY <1>1, <1>3 DEF Carries
  <1>q. QED
    BY <1>2, <1>4 DEF InCarrier, Local, Same, Stays, HandStep

LEMMA ClaimingCarries ==
  ASSUME IInv, NEW f \in File, NEW p \in Purpose, Claiming(f, p) PROVE InCarrier(f, p)
  <1>1. "claiming" \in Phase /\ "claiming" \in Early /\ "allocated" \notin Ended
    BY DEF Phase, Early, Ended
  <1>2. Stays /\ run' = run /\ PhaseOf(f, p) = "allocated" /\ SetPhase(f, p, "claiming")
        /\ UNCHANGED <<setup, state, decision, allocating, receipt, stagePhase, place, history>>
    BY DEF Claiming, OnlyCarrier, Stays
  <1>q. QED
    BY <1>1, <1>2, PhaseCarries

LEMMA RestoringCarries ==
  ASSUME IInv, NEW f \in File, NEW p \in Purpose, Restoring(f, p) PROVE InCarrier(f, p)
  <1>1. "restoring" \in Phase /\ "claimed" \notin Early /\ "claimed" \notin Ended
    BY DEF Phase, Early, Ended
  <1>2. Stays /\ run' = run /\ PhaseOf(f, p) = "claimed" /\ SetPhase(f, p, "restoring")
        /\ UNCHANGED <<setup, state, decision, allocating, receipt, stagePhase, place, history>>
    BY DEF Restoring, OnlyCarrier, Stays
  <1>q. QED
    BY <1>1, <1>2, PhaseCarries

LEMMA LinkReceiptCarries ==
  ASSUME IInv, NEW f \in File, NEW p \in Purpose, NEW dest, LinkReceipt(f, p, dest)
  PROVE  InCarrier(f, p)
  <1>1. /\ "restored" \in Phase /\ "restoring" \notin Early /\ "restoring" \notin Ended
        /\ "proved" \notin Origin
    BY DEF Phase, Early, Ended, Origin
  <1>2. Stays /\ run'.hand = "proved"
    BY HandTyped DEF LinkReceipt, Stays, IInv
  <1>3. /\ PhaseOf(f, p) = "restoring" /\ SetPhase(f, p, "restored")
        /\ UNCHANGED <<setup, state, decision, allocating, receipt, stagePhase, place, history>>
    BY DEF LinkReceipt
  <1>q. QED
    BY <1>1, <1>2, <1>3, PhaseCarries

LEMMA ProveCarries ==
  ASSUME IInv, NEW f \in File, NEW p \in Purpose, NEW dest, ProveRestored(f, p, dest)
  PROVE  InCarrier(f, p)
  <1>1. Stays /\ run'.hand = "proved" /\ "proved" \notin Origin
    BY HandTyped DEF ProveRestored, Stays, IInv, Origin
  <1>2. UNCHANGED <<setup, state, decision, allocating, carrier, receipt, stagePhase, place,
                    history>> /\ PhaseOf(f, p) = "restored"
    BY DEF ProveRestored, journal
  <1>3. Captured(f, p) # "none"
    BY <1>2 DEF IInv, FileInv, CarrierInv, Early
  <1>q. QED
    BY <1>1, <1>2, <1>3 DEF InCarrier, Local, Same, Stays, Carries, HandStep

LEMMA DiscardingCarries ==
  ASSUME IInv, NEW f \in File, NEW p \in Purpose, Discarding(f, p) PROVE InCarrier(f, p)
  <1>1. /\ "discarding" \in Phase /\ "discarding" \in Ended /\ "none" \notin Origin
    BY DEF Phase, Ended, Origin
  <1>2. Stays /\ run'.hand = "none"
    BY HandTyped DEF Discarding, Stays, IInv
  <1>3. /\ PhaseOf(f, p) # "none" /\ SetPhase(f, p, "discarding") /\ Captured(f, p) # "none"
        /\ UNCHANGED <<setup, state, decision, allocating, receipt, stagePhase, place, history>>
    BY DEF Discarding
  <1>4. PhaseOf(f, p) \notin Early
    BY <1>3 DEF IInv, FileInv, CarrierInv
  <1>q. QED
    BY <1>1, <1>2, <1>3, <1>4, PhaseCarries

LEMMA ArtifactCarries ==
  ASSUME IInv, NEW f \in File, NEW p \in Purpose, DiscardArtifact(f, p) PROVE InCarrier(f, p)
  <1>1. /\ PhaseOf(f, p) = "discarding" /\ Captured(f, p) # "none"
        /\ UNCHANGED <<setup, state, decision, allocating, receipt, stagePhase, history>>
    BY DEF DiscardArtifact
  <1>2. CASE At(f, p) # "none"
    <2>1. Put(f, p, "none") /\ UNCHANGED <<carrier, run>>
      BY <1>2 DEF DiscardArtifact
    <2>2. TypeOK /\ p \in Place /\ "none" \in Content
      BY Places DEF IInv, Content
    <2>3. /\ \A g \in File : g # f => place'[g] = place[g]
          /\ \A l \in Place : l # p => At(f, l)' = At(f, l)
      <3>1. \A g \in File : g # f => place'[g] = place[g]
        BY <2>1, <2>2, PutEffect
      <3>2. \A l \in Place : At(f, l)' = IF l = p THEN "none" ELSE At(f, l)
        BY <2>1, <2>2, PutAt
      <3>q. QED
        BY <3>1, <3>2
    <2>4. Carries(f, p)
      BY <1>1, <2>1, <2>3 DEF Carries
    <2>q. QED
      BY <1>1, <2>1, <2>3, <2>4 DEF InCarrier, Local, Same, HandStep
  <1>3. CASE At(f, p) = "none"
    <2>1. SetPhase(f, p, "discarded") /\ Hand("none") /\ UNCHANGED place
      BY <1>3 DEF DiscardArtifact
    <2>2. Stays /\ run'.hand = "none"
      BY <2>1, HandTyped DEF Stays, IInv
    <2>3. /\ "discarded" \in Phase /\ "discarded" \in Ended /\ "none" \notin Origin
          /\ "discarding" \notin Early
      BY DEF Phase, Ended, Origin, Early
    <2>q. QED
      BY <1>1, <2>1, <2>2, <2>3, PhaseCarries
  <1>q. QED
    BY <1>2, <1>3

LEMMA CopyCarries ==
  ASSUME IInv, NEW f \in File, Put(f, "publication", "new"),
         PhaseOf(f, "publication") = "claiming",
         UNCHANGED <<setup, journal, run, exposed, history, interrupts>>
  PROVE  InCarrier(f, "publication")
  <1>1. /\ "new" \in Content /\ TypeOK
        /\ UNCHANGED <<setup, state, decision, allocating, carrier, receipt, stagePhase>>
    BY DEF Content, IInv, journal
  <1>2. /\ \A g \in File : g # f => place'[g] = place[g]
        /\ \A l \in Place : l # "publication" => At(f, l)' = At(f, l)
    <2>1. \A g \in File : g # f => place'[g] = place[g]
      BY <1>1, Places, PutEffect
    <2>2. \A l \in Place : At(f, l)' = IF l = "publication" THEN "new" ELSE At(f, l)
      BY <1>1, Places, PutAt
    <2>q. QED
      BY <2>1, <2>2
  <1>3. Carries(f, "publication")
    BY <1>1, <1>2 DEF Carries, Ended
  <1>q. QED
    BY <1>1, <1>2, <1>3 DEF InCarrier, Local, Same, HandStep

LEMMA ArmCarries ==
  ASSUME IInv, NEW f \in File, PublishReady(f), SetPhase(f, "publication", "restoring"),
         Hand("armed"),
         UNCHANGED <<setup, state, decision, allocating, receipt, stagePhase, place, exposed,
                     history, interrupts>>
  PROVE  InCarrier(f, "publication")
  <1>1. Captured(f, "publication") = "new" /\ ~receipt[f] /\ decision = "pending"
    BY DEF PublishReady, Doing, Copied, IInv, UnitInv
  <1>2. PhaseOf(f, "publication") \notin Early /\ "none" \in Early
    BY <1>1, Purposes DEF IInv, FileInv, CarrierInv, Early
  <1>3. Stays /\ run'.hand = "armed" /\ "armed" \notin Origin /\ "restoring" \in Phase
    BY HandTyped DEF Stays, IInv, Origin, Phase
  <1>4. \A g \in File : g # f => carrier'[g] = carrier[g]
    BY <1>3, Purposes, PhaseEffect DEF IInv
  <1>5. \A r \in Purpose : /\ PhaseOf(f, r)' = IF r = "publication" THEN "restoring"
                                               ELSE PhaseOf(f, r)
                           /\ Captured(f, r)' = Captured(f, r)
    BY <1>3, Purposes, PhaseAt DEF IInv
  <1>6. Carries(f, "publication")
    BY <1>1, <1>2, <1>5, Purposes DEF Carries
  <1>q. QED
    BY <1>3, <1>4, <1>6 DEF InCarrier, Local, Same, Stays, HandStep

-----------------------------------------------------------------------------
(* The steps that a reader may see.                                        *)

\* A step that changes the public name of f at its turn, or that of a file that is not
\* ours any more.
LEMMA TurnStep ==
  ASSUME RInv, NEW f \in File, run.at = f, Local(f), At(f, "src")' = At(f, "src"),
         f \notin outside /\ At(f, "final")' # At(f, "final") =>
           Turns(f) /\ Batch!CutAt(f)
  PROVE  [Batch!BNext]_(Batch!bvars)
  <1>1. UNCHANGED <<setup, state, decision, outside>> /\ IInv
    BY DEF Local, history, RInv
  <1>2. \A g \in File : g # f => Unseen(g)
    BY DEF Unseen, Local, Same
  <1>3. CASE Unseen(f)
    <2>1. \A g \in File : Unseen(g)
      BY <1>2, <1>3
    <2>q. QED
      BY <1>1, <2>1, HiddenStutters
  <1>4. CASE ~Unseen(f)
    <2>1. f \notin outside /\ Turns(f) /\ Batch!CutAt(f)
      BY <1>4 DEF Unseen
    <2>q. QED
      BY <1>1, <1>2, <2>1, TurnMapped
  <1>q. QED
    BY <1>3, <1>4

\* A step of the cleanup that takes the source from its path.
LEMMA SourceGoes ==
  ASSUME RInv, Order', NEW f \in File, run.at = f, run.task = "source", Local(f),
         At(f, "final")' = At(f, "final"), At(f, "src")' = "none", At(f, "src") # "none"
  PROVE  RStep
  <1>1. /\ UNCHANGED <<setup, state, decision, outside>> /\ decision = "commit" /\ setup.move
        /\ state # "finalized"
    BY DEF Local, history, RInv, IInv, UnitInv, DecisionInv, Idle
  <1>2. \A g \in File : g # f => Unseen(g)
    BY DEF Unseen, Local, Same
  <1>3. CASE f \in outside
    <2>1. \A g \in File : Unseen(g)
      BY <1>2, <1>3 DEF Unseen
    <2>q. QED
      BY <1>1, <2>1, HiddenStutters DEF RStep
  <1>4. CASE f \notin outside
    <2>1. At(f, "src") = "srcdata"
      BY <1>4, Places DEF RInv, IInv, FileInv, ContentInv
    <2>2. Batch!TakeSource(f)
      BY <1>1, <1>2, <1>4, <2>1, SourceMapped
    <2>q. QED
      BY <2>2 DEF RStep, Batch!BNext
  <1>q. QED
    BY <1>3, <1>4

LEMMA PublishMoveMapped ==
  ASSUME RInv, IInv', NEW f \in File, PublishReady(f), run.hand = "armed",
         At(f, "publication") # "none", At(f, "final") = "none",
         IF setup.native THEN Move(f, "publication", "final") /\ UNCHANGED run
         ELSE Put(f, "final", At(f, "publication")) /\ Hand("linked"),
         UNCHANGED <<setup, journal, exposed, history, interrupts>>
  PROVE  RStep
  <1>1. /\ run.at = f /\ run.task = "publish" /\ ~receipt[f] /\ decision = "pending"
        /\ run.task \in FileTask
    BY DEF PublishReady, Doing, RInv, IInv, UnitInv, FileTask
  <1>2. UNCHANGED <<setup, state, decision, allocating, carrier, receipt, stagePhase, history>>
    BY DEF journal
  <1>3. TypeOK /\ FileInv(f) /\ At(f, "publication") = "new" /\ "new" \in Content
    BY DEF RInv, IInv, FileInv, ContentInv, Content
  <1>4. Stays /\ run'.hand \notin Origin
    <2>1. CASE setup.native
      BY <2>1 DEF Stays, Origin
    <2>2. CASE ~setup.native
      BY <1>3, <2>2, HandTyped DEF Stays, Origin
    <2>q. QED
      BY <2>1, <2>2
  <1>5. /\ \A g \in File : g # f => place'[g] = place[g]
        /\ At(f, "final")' = "new" /\ At(f, "src")' = At(f, "src")
    <2>1. CASE setup.native
      <3>1. Move(f, "publication", "final")
        BY <2>1
      <3>2. \A g \in File : g # f => place'[g] = place[g]
        BY <1>3, <3>1, Places, MoveEffect
      <3>3. \A l \in Place : At(f, l)' = IF l = "publication" THEN "none"
              ELSE IF l = "final" THEN At(f, "publication") ELSE At(f, l)
        BY <1>3, <3>1, Places, MoveAt
      <3>q. QED
        BY <1>3, <3>2, <3>3, Places
    <2>2. CASE ~setup.native
      <3>1. Put(f, "final", "new")
        BY <1>3, <2>2
      <3>2. \A g \in File : g # f => place'[g] = place[g]
        BY <1>3, <3>1, Places, PutEffect
      <3>3. \A l \in Place : At(f, l)' = IF l = "final" THEN "new" ELSE At(f, l)
        BY <1>3, <3>1, Places, PutAt
      <3>q. QED
        BY <3>2, <3>3, Places
    <2>q. QED
      BY <2>1, <2>2
  <1>6. Local(f)
    BY <1>2, <1>4, <1>5 DEF Local, Same, Stays
  <1>7. Order'
    <2>1. InPlace(f)'
      BY <1>1, <1>2 DEF InPlace
    <2>2. Handed'
      BY <1>4 DEF Handed
    <2>q. QED
      BY <1>1, <1>6, <2>1, <2>2, LocalOrder
  <1>8. Batch!CutAt(f)
    BY <1>1, Cut
  <1>9. Turns(f)
    BY <1>1, <1>5 DEF Turns
  <1>q. QED
    BY <1>1, <1>5, <1>6, <1>7, <1>8, <1>9, TurnStep DEF RStep

\* The receipt of the publication, in a unit that publishes or in one that compensates.
LEMMA ReceiptMapped ==
  ASSUME RInv, IInv', NEW f \in File, run.at = f, run.task \in {"publish", "restore"},
         ~receipt[f], PhaseOf(f, "publication") = "restoring", At(f, "final") = "new",
         PublishReceipt(f)
  PROVE  RStep
  <1>1. /\ UNCHANGED <<setup, state, decision, allocating, stagePhase, place, history>>
        /\ SetPhase(f, "publication", "restored") /\ Hand("none")
        /\ receipt' = [receipt EXCEPT ![f] = TRUE]
    BY DEF PublishReceipt
  <1>2. TypeOK /\ FileInv(f) /\ "restored" \in Phase /\ run.task \in FileTask
    BY DEF RInv, IInv, Phase, FileTask
  <1>3. Stays /\ run'.hand \notin Origin
    BY <1>1, <1>2, HandTyped DEF Stays, Origin
  <1>4. /\ \A g \in File : g # f => carrier'[g] = carrier[g]
        /\ \A g \in File : g # f => receipt'[g] = receipt[g]
    BY <1>1, <1>2, PhaseEffect, Purposes DEF TypeOK
  <1>5. Local(f)
    BY <1>1, <1>3, <1>4 DEF Local, Same, Stays
  <1>6. ~Settled(f)
    BY <1>2, Purposes DEF Settled, Gone, FileInv, RollbackInv, CarrierInv, Early
  <1>7. Order'
    <2>1. InPlace(f)'
      BY <1>1 DEF InPlace
    <2>2. Handed'
      BY <1>3 DEF Handed
    <2>q. QED
      BY <1>1, <1>2, <1>5, <1>6, <2>1, <2>2, LocalOrder
  <1>8. UNCHANGED Batch!bvars
    <2>1. \A g \in File : Unseen(g)
      BY <1>1 DEF Unseen
    <2>q. QED
      BY <1>1, <2>1, HiddenStutters DEF history
  <1>q. QED
    BY <1>7, <1>8 DEF RStep

\* The public file goes to its recovery name, or its source does.
LEMMA StashMapped ==
  ASSUME RInv, IInv', NEW f \in File, NEW p \in {"original", "source"}, NEW from, NEW to,
         run.at = f,
         p = "original" => /\ from = "final" /\ to = "flat" /\ run.task = "publish"
                           /\ f \in setup.overwrite /\ ~receipt[f],
         p = "source" => from = "src" /\ to = "srcflat" /\ run.task = "source",
         PhaseOf(f, p) = "none", At(f, from) # "none", Move(f, from, to),
         UNCHANGED <<setup, journal, run, exposed, history, interrupts>>
  PROVE  RStep
  <1>1. UNCHANGED <<setup, state, decision, allocating, carrier, receipt, stagePhase, run,
                    history>>
    BY DEF journal
  <1>2. TypeOK /\ FileInv(f) /\ run.task \in FileTask /\ run.task # "restore"
    BY DEF RInv, IInv, FileTask
  <1>3. from \in Place /\ to \in Place /\ from # to
    BY Places
  <1>4. \A g \in File : g # f => place'[g] = place[g]
    BY <1>2, <1>3, MoveEffect
  <1>5. \A l \in Place : At(f, l)' = IF l = from THEN "none"
                                     ELSE IF l = to THEN At(f, from) ELSE At(f, l)
    BY <1>2, <1>3, MoveAt
  <1>6. Local(f)
    BY <1>1, <1>4 DEF Local, Same
  <1>7. Handed'
    BY <1>1, <1>2 DEF Handed
  <1>8. CASE p = "original"
    <2>1. /\ At(f, "final")' = "none" /\ At(f, "src")' = At(f, "src")
          /\ ~receipt[f] /\ decision = "pending"
      BY <1>5, <1>8, Places DEF RInv, IInv, UnitInv
    <2>2. Order'
      <3>1. InPlace(f)'
        BY <1>1, <2>1 DEF InPlace
      <3>q. QED
        BY <1>2, <1>6, <1>7, <1>8, <3>1, LocalOrder
    <2>3. f \notin outside => At(f, "final") = "old"
      <3>1. At(f, "final") \in Content
        BY <1>2, Typed, Places
      <3>2. f \notin outside => At(f, "final") \notin {"none", "srcdata", "foreign"}
        BY <1>2, <1>8, Places DEF FileInv, ContentInv
      <3>3. At(f, "final") # "new"
        BY <1>2, <1>8, <2>1 DEF FileInv, PublicationInv, OldKept, CarrierInv, Early, Purpose
      <3>q. QED
        BY <3>1, <3>2, <3>3 DEF Content
    <2>4. Batch!CutAt(f)
      BY <1>8, Cut
    <2>5. f \notin outside => Turns(f)
      BY <1>8, <2>1, <2>3 DEF Turns
    <2>q. QED
      BY <1>6, <2>1, <2>2, <2>4, <2>5, TurnStep DEF RStep
  <1>9. CASE p = "source"
    <2>1. At(f, "final")' = At(f, "final") /\ At(f, "src")' = "none"
      BY <1>5, <1>9, Places
    <2>2. Order'
      <3>1. InPlace(f)'
        BY <1>1, <1>5, <1>9, Places DEF InPlace, RInv, Order, history
      <3>2. SourceHeld(f)'
        BY <2>1 DEF SourceHeld
      <3>q. QED
        BY <1>2, <1>6, <1>7, <1>9, <3>1, <3>2, LocalOrder
    <2>q. QED
      BY <1>2, <1>6, <1>9, <2>1, <2>2, SourceGoes
  <1>q. QED
    BY <1>8, <1>9

\* A rename into a carrier: the source, our publication, or an original that the unit
\* that published had announced to take by its public name.
LEMMA TakeMapped ==
  ASSUME RInv, IInv', NEW f \in File, NEW p \in {"original", "rollback", "source"},
         run.at = f, Take(f, p), run.task \in MoveTask, run.task = "source" <=> p = "source",
         run.task = "publish" => p = "original" /\ ~receipt[f]
  PROVE  RStep
  <1> DEFINE from == OriginOf(f, p)
  <1>1. /\ UNCHANGED <<setup, state, decision, allocating, carrier, receipt, stagePhase, run,
                       history>>
        /\ PhaseOf(f, p) = "claiming" /\ At(f, p) = "none" /\ At(f, from) # "none"
        /\ Move(f, from, p)
    BY DEF Take, journal
  <1>2. /\ TypeOK /\ FileInv(f) /\ Captured(f, p) = "none" /\ run.task \in FileTask
        /\ InPlace(f) /\ SourceHeld(f)
    BY <1>1 DEF RInv, Order, IInv, FileInv, CarrierInv, Early, Purpose, FileTask, MoveTask
  <1>3. /\ p = "original" => from = "flat" \/ (from = "final" /\ ~setup.native)
        /\ p = "rollback" => from = "final"
        /\ p = "source" => from = "srcflat" \/ (from = "src" /\ ~setup.native)
    BY <1>1, <1>2 DEF FileInv, OriginalInv, RollbackInv, SourceInv
  <1>4. from \in Origin /\ from \in Place /\ p \in Place /\ from # p
    BY <1>3, Places DEF Origin
  <1> HIDE DEF from
  <1>5. \A g \in File : g # f => place'[g] = place[g]
    BY <1>1, <1>2, <1>4, MoveEffect
  <1>6. \A l \in Place : At(f, l)' = IF l = from THEN "none"
                                     ELSE IF l = p THEN At(f, from) ELSE At(f, l)
    BY <1>1, <1>2, <1>4, MoveAt
  <1>7. Local(f)
    BY <1>1, <1>5 DEF Local, Same
  <1>8. run.task = "restore" => ~Settled(f)
    <2>1. p = "original" => ~Settled(f)
      BY <1>1 DEF Settled
    <2>2. p = "rollback" => ~Settled(f)
      BY <1>1, <1>2 DEF Settled, Gone, FileInv, RollbackInv
    <2>q. QED
      BY <2>1, <2>2
  <1>9. Handed'
    <2> SUFFICES ASSUME run.task = "restore", run.hand \in Origin, NEW g \in File,
                        allocating = <<g, "original">>
                 PROVE  At(g, "flat")' # "none"
      BY <1>1 DEF Handed
    <2>1. At(g, "flat") # "none"
      BY DEF RInv, Order, Handed
    <2>2. CASE g # f
      BY <1>5, <2>1, <2>2
    <2>3. CASE g = f
      <3>1. p # "original"
        BY <1>1, <2>3, Purposes DEF RInv, IInv, IntentInv
      <3>2. from = "final"
        BY <1>3, <3>1
      <3>q. QED
        BY <1>6, <2>1, <2>3, <3>1, <3>2, Places
    <2>q. QED
      BY <2>2, <2>3
  <1>10. p # "source" => /\ PhaseOf(f, "publication") # "none"
                         /\ p = "original" => f \in setup.overwrite
    BY <1>1, <1>2, Purposes DEF FileInv, RollbackInv, OriginalInv, PublicationInv, CarrierInv,
       Copied, Early
  <1>11. CASE p = "source"
    <2>1. At(f, "final")' = At(f, "final")
      BY <1>3, <1>6, <1>11, Places
    <2>2. InPlace(f)'
      BY <1>1, <1>2, <1>3, <1>6, <1>11, <2>1, Places DEF InPlace, history
    <2>3. CASE from = "src"
      <3>1. At(f, "src")' = "none" /\ At(f, "src") # "none"
        BY <1>1, <1>6, <2>3, Places
      <3>2. SourceHeld(f)'
        BY <3>1 DEF SourceHeld
      <3>3. Order'
        BY <1>2, <1>7, <1>9, <1>11, <2>2, <3>2, LocalOrder
      <3>q. QED
        BY <1>7, <1>11, <2>1, <3>1, <3>3, SourceGoes
    <2>4. CASE from = "srcflat"
      <3>1. At(f, "src")' = At(f, "src")
        BY <1>6, <1>11, <2>4, Places
      <3>2. SourceHeld(f)'
        BY <1>1, <1>2, <2>4, <3>1 DEF SourceHeld, history
      <3>3. Order'
        BY <1>2, <1>7, <1>9, <1>11, <2>2, <3>2, LocalOrder
      <3>q. QED
        BY <1>7, <2>1, <3>1, <3>3, TurnStep DEF RStep
    <2>q. QED
      BY <1>3, <1>11, <2>3, <2>4
  <1>12. CASE p = "rollback"
    <2>1. /\ At(f, "final")' = "none" /\ At(f, "src")' = At(f, "src")
          /\ At(f, "rollback")' = At(f, "final") /\ At(f, "final") # "none"
          /\ run.task = "restore"
      BY <1>1, <1>3, <1>6, <1>12, Places DEF MoveTask
    <2>2. InPlace(f)'
      BY <2>1 DEF InPlace
    <2>3. Order'
      BY <1>2, <1>7, <1>8, <1>9, <2>1, <2>2, LocalOrder
    <2>4. f \notin outside => Turns(f)
      <3>1. f \notin outside => At(f, "final") = "new"
        BY <1>1, <1>2, <1>12 DEF InPlace, FileInv, RollbackInv
      <3>q. QED
        BY <2>1, <3>1 DEF Turns
    <2>5. Batch!CutAt(f)
      BY <1>8, <1>10, <2>1, Cut
    <2>q. QED
      BY <1>7, <2>1, <2>3, <2>4, <2>5, TurnStep DEF RStep
  <1>13. CASE p = "original" /\ from = "flat"
    <2>1. At(f, "final")' = At(f, "final") /\ At(f, "src")' = At(f, "src")
          /\ At(f, "rollback")' = At(f, "rollback")
      BY <1>6, <1>13, Places
    <2>2. InPlace(f)'
      BY <1>1, <1>2, <2>1 DEF InPlace, history
    <2>3. Order'
      BY <1>2, <1>7, <1>8, <1>9, <1>13, <2>1, <2>2, LocalOrder DEF MoveTask
    <2>q. QED
      BY <1>7, <2>1, <2>3, TurnStep DEF RStep
  <1>14. CASE p = "original" /\ from = "final"
    <2>1. At(f, "final")' = "none" /\ At(f, "src")' = At(f, "src") /\ At(f, "final") # "none"
      BY <1>1, <1>6, <1>14, Places
    <2>2. ~receipt[f]
      BY <1>1, <1>2, <1>14 DEF FileInv, PublicationInv, OriginalInv, OldKept
    <2>3. InPlace(f)'
      BY <1>1, <2>2 DEF InPlace
    <2>4. Order'
      BY <1>2, <1>7, <1>8, <1>9, <1>14, <2>1, <2>3, LocalOrder DEF MoveTask
    <2>5. f \notin outside => At(f, "final") = "old"
      <3>1. At(f, "final") \in Content
        BY <1>2, Typed, Places
      <3>2. f \notin outside => At(f, "final") \notin {"none", "srcdata", "foreign"}
        BY <1>2, <2>1, Places DEF FileInv, ContentInv
      <3>3. At(f, "final") # "new"
        BY <1>2, <1>10, <1>14 DEF FileInv, PublicationInv, OldKept, CarrierInv, Early, Purpose
      <3>q. QED
        BY <3>1, <3>2, <3>3 DEF Content
    <2>6. Batch!CutAt(f)
      BY <1>8, <1>10, <1>14, Cut DEF MoveTask
    <2>7. f \notin outside => Turns(f)
      BY <1>10, <1>14, <2>1, <2>5 DEF Turns, MoveTask
    <2>q. QED
      BY <1>7, <2>1, <2>4, <2>6, <2>7, TurnStep DEF RStep
  <1>q. QED
    BY <1>3, <1>11, <1>12, <1>13, <1>14

\* A restored file comes back under its public name.
LEMMA LinkMapped ==
  ASSUME RInv, IInv', NEW f \in File, NEW p \in {"original", "rollback", "source"}, NEW dest,
         run.at = f, MayRestore(f, p, dest), Link(f, p, dest)
  PROVE  RStep
  <1>1. /\ UNCHANGED <<setup, state, decision, allocating, carrier, receipt, stagePhase,
                       history>>
        /\ PhaseOf(f, p) = "restoring" /\ At(f, p) # "none" /\ At(f, dest) = "none"
        /\ Put(f, dest, At(f, p)) /\ Hand("linked") /\ p \in Purpose
    BY Purposes DEF Link, journal
  <1>2. /\ TypeOK /\ FileInv(f) /\ Captured(f, p) = At(f, p) /\ run.task \in FileTask
        /\ InPlace(f) /\ SourceHeld(f)
    BY <1>1 DEF RInv, Order, IInv, FileInv, CarrierInv, FileTask, MayRestore
  <1>3. dest \in Place /\ p \in Place /\ At(f, p) \in Content /\ dest # p
    BY <1>1, <1>2, Places, Typed DEF MayRestore
  <1>4. Stays /\ run'.hand \notin Origin
    BY <1>1, <1>2, HandTyped DEF Stays, Origin
  <1>5. \A g \in File : g # f => place'[g] = place[g]
    BY <1>1, <1>2, <1>3, PutEffect
  <1>6. \A l \in Place : At(f, l)' = IF l = dest THEN At(f, p) ELSE At(f, l)
    <2>1. TypeOK /\ dest \in Place /\ At(f, p) \in Content /\ Put(f, dest, At(f, p))
      BY <1>1, <1>2, <1>3
    <2>q. QED
      BY <2>1, PutAt
  <1>7. Local(f) /\ Handed'
    BY <1>1, <1>4, <1>5 DEF Local, Same, Stays, Handed
  <1>8. CASE p # "original"
    <2>1. /\ p = "source" => dest = "src" /\ run.task = "source"
          /\ p = "rollback" => dest = "final" /\ run.task = "restore"
          /\ At(f, p) = "foreign"
      BY <1>2, <1>8 DEF MayRestore
    <2>2. f \in outside
      BY <1>2, <1>3, <2>1 DEF FileInv, ContentInv
    <2>3. InPlace(f)' /\ SourceHeld(f)'
      BY <1>1, <2>2 DEF InPlace, SourceHeld, history
    <2>4. ~Settled(f) \/ run.task # "restore"
      <3>1. CASE p = "rollback"
        <4>1. receipt[f] /\ Captured(f, "rollback") = "foreign"
          BY <1>1, <1>2, <2>1, <3>1 DEF FileInv, RollbackInv
        <4>q. QED
          BY <4>1 DEF Settled, Gone
      <3>2. CASE p = "source"
        BY <2>1, <3>2
      <3>q. QED
        BY <1>8, <3>1, <3>2
    <2>5. Order'
      BY <1>2, <1>7, <1>8, <2>1, <2>3, <2>4, LocalOrder
    <2>6. UNCHANGED Batch!bvars
      <3>1. \A g \in File : Unseen(g)
        BY <1>5, <2>2 DEF Unseen
      <3>q. QED
        BY <1>1, <3>1, HiddenStutters DEF history
    <2>q. QED
      BY <2>5, <2>6 DEF RStep
  <1>9. CASE p = "original"
    <2>1. dest = "final" /\ run.task = "restore" /\ Removed(f) /\ ~Settled(f)
      BY <1>1, <1>9 DEF MayRestore, Settled
    <2>2. /\ At(f, "final") = "none" /\ At(f, "final")' = At(f, "original")
          /\ At(f, "src")' = At(f, "src") /\ At(f, "rollback")' = At(f, "rollback")
      BY <1>1, <1>6, <1>9, <2>1, Places
    <2>3. InPlace(f)'
      BY <1>1, <1>2, <2>2 DEF InPlace, history
    <2>4. Order'
      BY <1>2, <1>7, <2>1, <2>2, <2>3, LocalOrder
    <2>5. /\ f \in setup.overwrite /\ PhaseOf(f, "publication") # "none"
      BY <1>1, <1>9, Purposes, <1>2 DEF FileInv, OriginalInv, CarrierInv, Copied, Early
    <2>6. Batch!CutAt(f)
      BY <2>1, <2>5, Cut
    <2>7. f \notin outside => Turns(f)
      <3>1. f \notin outside => At(f, "original") = "old"
        BY <1>1, <1>2, <1>9, Places DEF FileInv, ContentInv
      <3>q. QED
        BY <2>1, <2>2, <2>5, <3>1 DEF Turns
    <2>q. QED
      BY <1>7, <2>2, <2>4, <2>6, <2>7, TurnStep DEF RStep
  <1>q. QED
    BY <1>8, <1>9

-----------------------------------------------------------------------------
(* The steps of the unit from file to file, and its beginning and end.     *)

LEMMA QuietOrder ==
  ASSUME RInv, UNCHANGED <<setup, carrier, receipt, history>>,
         \A f \in File : \A l \in Place \ {"stage"} : At(f, l)' = At(f, l),
         run'.task = "restore" /\ run'.hand \in Origin =>
           run.task = "restore" /\ run.hand \in Origin /\ allocating' = allocating,
         MovedInv'
  PROVE  Order'
  <1>1. \A f \in File : /\ At(f, "final")' = At(f, "final") /\ At(f, "src")' = At(f, "src")
                        /\ At(f, "rollback")' = At(f, "rollback")
                        /\ At(f, "source")' = At(f, "source")
                        /\ At(f, "flat")' = At(f, "flat")
                        /\ At(f, "srcflat")' = At(f, "srcflat")
    BY Places
  <1>2. \A f \in File : InPlace(f)' /\ SourceHeld(f)'
    BY <1>1 DEF RInv, Order, InPlace, SourceHeld, history
  <1>3. TurnInv'
    BY <1>1 DEF RInv, Order, TurnInv, Settled, Gone
  <1>4. Handed'
    BY <1>1 DEF RInv, Order, Handed
  <1>q. QED
    BY <1>2, <1>3, <1>4 DEF Order

LEMMA QuietSeen ==
  ASSUME RInv, UNCHANGED <<setup, decision, carrier, receipt, history>>,
         \A f \in File : \A l \in Place \ {"stage"} : At(f, l)' = At(f, l),
         run'.task = "restore" /\ run'.hand \in Origin =>
           run.task = "restore" /\ run.hand \in Origin /\ allocating' = allocating,
         state' = "finalized" <=> state = "finalized",
         MovedInv'
  PROVE  RStep
  <1>1. Order'
    BY QuietOrder
  <1>2. \A f \in File : Unseen(f)
    BY Places DEF Unseen
  <1>3. UNCHANGED Batch!bvars
    BY <1>2, HiddenStutters DEF history
  <1>q. QED
    BY <1>1, <1>3 DEF RStep

LEMMA UnitOnlySeen ==
  ASSUME RInv, UnitOnly, MovedInv',
         run'.task = "restore" /\ run'.hand \in Origin =>
           run.task = "restore" /\ run.hand \in Origin
  PROVE  RStep
  <1>1. UNCHANGED <<setup, state, decision, allocating, carrier, receipt, place, history>>
    BY DEF UnitOnly, journal
  <1>q. QED
    BY <1>1, QuietSeen

LEMMA BeginSeen ==
  ASSUME RInv, _complete_publication_unit PROVE RStep
  <1>1. /\ run' = Task /\ state # "finalized" /\ state' # "finalized"
        /\ UNCHANGED <<setup, decision, allocating, carrier, receipt, place, history>>
    BY DEF _complete_publication_unit
  <1>2. run'.hand \notin Origin
    BY <1>1 DEF Task, Idle, Origin
  <1>3. MovedInv'
    <2> SUFFICES ASSUME decision = "commit", setup.move
                 PROVE  run'.task = "source" /\ \A g \in File : ~(g < run'.at)
      BY <1>1 DEF MovedInv
    <2>1. state \in {"db_committed", "cleaning"}
      BY <1>1 DEF RInv, IInv, DecisionInv
    <2>2. run'.task = "source" /\ run'.at = 1
      BY <1>1, <2>1 DEF Task, Idle
    <2>q. QED
      BY <2>2, FilesAssumption DEF File
  <1>q. QED
    BY <1>1, <1>2, <1>3, QuietSeen

\* The unit ends, by a crash or because it is blocked.
LEMMA EndSeen ==
  ASSUME RInv, run' = Idle, UNCHANGED <<setup, journal, place, history>>
  PROVE  RStep
  <1>1. run'.hand \notin Origin /\ run'.task = "idle"
    BY DEF Idle, Origin
  <1>2. UNCHANGED <<setup, state, decision, allocating, carrier, receipt, place, history>>
    BY DEF journal
  <1>3. MovedInv'
    BY <1>1, <1>2 DEF RInv, Order, MovedInv, SourceGone, history
  <1>q. QED
    BY <1>1, <1>2, <1>3, QuietSeen

\* From file to file before the decision, and in a compensation.
LEMMA WalkSeen ==
  ASSUME RInv, UnitOnly, decision # "commit", run'.hand = run.hand \/ run'.hand \notin Origin,
         run'.task = "restore" => run.task = "restore"
  PROVE  RStep
  <1>1. MovedInv'
    BY DEF MovedInv, UnitOnly, journal
  <1>q. QED
    BY <1>1, UnitOnlySeen

LEMMA PublishedFileSeen ==
  ASSUME RInv, NEW f \in File, PublishedFile(f) PROVE RStep
  <1>1. /\ UnitOnly /\ decision # "commit" /\ run'.hand = run.hand /\ run'.task = run.task
    BY DEF PublishedFile, Doing, NextFile, RInv, IInv, UnitInv, TypeOK, Unit
  <1>q. QED
    BY <1>1, WalkSeen

LEMMA RestoredFileSeen ==
  ASSUME RInv, NEW f \in File, RestoredFile(f) PROVE RStep
  <1>1. /\ UnitOnly /\ decision # "commit" /\ run.task = "restore" /\ run'.hand = "none"
    BY DEF RestoredFile, Doing, RInv, IInv, UnitInv, TypeOK, Unit
  <1>2. "none" \notin Origin
    BY DEF Origin
  <1>q. QED
    BY <1>1, <1>2, WalkSeen

LEMMA DroppedFileSeen ==
  ASSUME RInv, NEW f \in File, Doing("drop", f), UnitOnly,
         run' = IF f = N THEN [run EXCEPT !.task = "stage"] ELSE [run EXCEPT !.at = f + 1]
  PROVE  RStep
  <1>1. decision # "commit" /\ run.task = "drop"
    BY DEF Doing, RInv, IInv, UnitInv
  <1>2. run'.hand = run.hand /\ run'.task \in {"stage", "drop"}
    BY <1>1 DEF RInv, IInv, TypeOK, Unit
  <1>q. QED
    BY <1>1, <1>2, WalkSeen

\* From source to source: one that is neither gone nor somebody else's is reported.
LEMMA SourceFileSeen ==
  ASSUME RInv, NEW f \in File, Doing("source", f), UnitOnly,
         \/ /\ PhaseOf(f, "source") = "discarded" \/ At(f, "src") = "none"
            /\ run' = [run EXCEPT !.at = f + 1]
         \/ run' = [run EXCEPT !.at = f + 1, !.blocked = TRUE]
  PROVE  RStep
  <1>1. run.task = "source" /\ run.at = f /\ run \in Unit
    BY DEF Doing, RInv, IInv, TypeOK
  <1>2. /\ run'.task = "source" /\ run'.at = f + 1 /\ (run.blocked => run'.blocked)
        /\ PhaseOf(f, "source") = "discarded" \/ At(f, "src") = "none" \/ run'.blocked
    BY <1>1 DEF Unit
  <1>3. UNCHANGED <<setup, state, decision, place, history>>
    BY DEF UnitOnly, journal
  <1>4. run'.blocked \/ SourceGone(f)
    BY <1>2 DEF RInv, Order, SourceHeld, SourceGone, Early
  <1>5. MovedInv'
    <2>1. decision = "commit" /\ setup.move /\ state # "finalized"
      BY <1>1 DEF RInv, IInv, UnitInv, DecisionInv, Idle
    <2>2. \A g \in File : g < f => run.blocked \/ SourceGone(g)
      BY <1>1, <2>1 DEF RInv, Order, MovedInv
    <2>3. \A g \in File : g < f + 1 => run'.blocked \/ SourceGone(g)
      BY <1>2, <1>4, <2>2, FileOrder
    <2>q. QED
      BY <1>2, <1>3, <2>1, <2>3 DEF MovedInv, SourceGone, history
  <1>q. QED
    BY <1>2, <1>5, UnitOnlySeen

LEMMA SourcesDoneSeen ==
  ASSUME RInv, SourcesDone PROVE RStep
  <1>1. /\ run.task = "source" /\ run.at = N + 1 /\ UnitOnly /\ run \in Unit
        /\ run' = [run EXCEPT !.task = "clean", !.at = 1]
    BY DEF SourcesDone, Doing, RInv, IInv, TypeOK
  <1>2. run'.task = "clean" /\ run'.blocked = run.blocked
    BY <1>1 DEF Unit
  <1>3. UNCHANGED <<setup, state, decision, place, history>>
    BY <1>1 DEF UnitOnly, journal
  <1>4. MovedInv'
    <2>1. \A g \in File : g < N + 1
      BY FileOrder
    <2>2. decision = "commit" /\ setup.move /\ state # "finalized"
      BY <1>1 DEF RInv, IInv, UnitInv, DecisionInv, Idle
    <2>3. \A g \in File : run.blocked \/ SourceGone(g)
      BY <1>1, <2>1, <2>2 DEF RInv, Order, MovedInv
    <2>q. QED
      BY <1>2, <1>3, <2>2, <2>3 DEF MovedInv, SourceGone, history
  <1>q. QED
    BY <1>1, <1>2, <1>4, UnitOnlySeen

LEMMA CleanedFileSeen ==
  ASSUME RInv, NEW f \in File, Doing("clean", f), UnitOnly,
         run' = IF f = N THEN [run EXCEPT !.task = "stage"] ELSE [run EXCEPT !.at = f + 1]
  PROVE  RStep
  <1>1. run.task = "clean" /\ state # "finalized"
    BY DEF Doing, RInv, IInv, DecisionInv, Idle
  <1>2. run'.blocked = run.blocked /\ run'.task \in {"stage", "clean"}
    BY <1>1 DEF RInv, IInv, TypeOK, Unit
  <1>3. UNCHANGED <<setup, state, decision, place, history>>
    BY DEF UnitOnly, journal
  <1>4. MovedInv'
    BY <1>1, <1>2, <1>3 DEF RInv, Order, MovedInv, SourceGone, history
  <1>q. QED
    BY <1>2, <1>4, UnitOnlySeen

LEMMA StageSeen ==
  ASSUME RInv, IInv', _remove_owned_staging PROVE RStep
  <1>1. /\ run.task = "stage" /\ state # "finalized"
        /\ UNCHANGED <<setup, state, decision, allocating, carrier, receipt, history>>
    BY DEF _remove_owned_staging, RInv, IInv, DecisionInv, Idle
  <1>2. \A f \in File : \A l \in Place \ {"stage"} : At(f, l)' = At(f, l)
    <2>1. CASE UNCHANGED place
      BY <2>1
    <2>2. ASSUME NEW g \in File, Put(g, "stage", "none")
          PROVE  \A f \in File : \A l \in Place \ {"stage"} : At(f, l)' = At(f, l)
      <3>1. TypeOK /\ "none" \in Content
        BY DEF RInv, IInv, Content
      <3>2. \A f \in File : f # g => place'[f] = place[f]
        BY <2>2, <3>1, Places, PutEffect
      <3>3. \A l \in Place : At(g, l)' = IF l = "stage" THEN "none" ELSE At(g, l)
        BY <2>2, <3>1, Places, PutAt
      <3>q. QED
        BY <3>2, <3>3
    <2>q. QED
      BY <2>1, <2>2 DEF _remove_owned_staging
  <1>3. run'.task \in {"stage", "finish"} /\ run'.blocked = run.blocked
    BY <1>1 DEF _remove_owned_staging, RInv, IInv, TypeOK, Unit
  <1>4. MovedInv'
    <2>1. \A f \in File : At(f, "src")' = At(f, "src")
      BY <1>2, Places
    <2>q. QED
      BY <1>1, <1>3, <2>1 DEF RInv, Order, MovedInv, SourceGone, history
  <1>q. QED
    BY <1>1, <1>2, <1>3, <1>4, QuietSeen

-----------------------------------------------------------------------------
(* The decisions.                                                          *)

\* What the reader sees of the files when the journal alone changes.
LEMMA JournalMapped ==
  ASSUME UNCHANGED <<setup, place, history>>
  PROVE  UNCHANGED <<setup.move, [f \in File |-> Shown(f)], [f \in File |-> SourceOf(f)]>>
  <1>1. \A f \in File : Unseen(f)
    BY DEF Unseen
  <1>2. \A f \in File : Shown(f)' = Shown(f) /\ SourceOf(f)' = SourceOf(f)
    BY <1>1, UnseenSame DEF history
  <1>q. QED
    BY <1>2

LEMMA UndoSeen ==
  ASSUME RInv, decision = "pending", decision' = "compensate", run'.hand \notin Origin,
         UNCHANGED <<setup, state, allocating, carrier, receipt, place, history>>
  PROVE  RStep
  <1>1. MovedInv'
    BY DEF MovedInv
  <1>2. Order'
    BY <1>1, QuietOrder
  <1>3. \A f \in File : Shown(f) \in {"before", "missing", "after", "theirs"}
    BY DEF Shown
  <1>4. Batch!Undo
    BY <1>3, JournalMapped DEF Batch!Undo, Batch!Decide, Outcome
  <1>q. QED
    BY <1>2, <1>4 DEF RStep, Batch!BNext

LEMMA CommitSeen ==
  ASSUME RInv, _commit_import PROVE RStep
  <1>1. /\ run.hand = "verified" /\ decision' = "commit" /\ state' = "db_committed"
        /\ run' = Idle
        /\ UNCHANGED <<setup, allocating, carrier, receipt, place, history>>
    BY DEF _commit_import
  <1>2. run.task = "commit" /\ decision = "pending" /\ state = "published"
    BY <1>1 DEF RInv, IInv, HandInv, UnitInv
  <1>3. MovedInv' /\ run'.hand \notin Origin
    BY <1>1 DEF MovedInv, Idle, Origin
  <1>4. Order'
    BY <1>1, <1>3, QuietOrder
  <1>5. \A f \in File : Shown(f) \in {"after", "theirs"}
    BY <1>1 DEF RInv, IInv, HandInv, Shown
  <1>6. Batch!Commit
    BY <1>1, <1>2, <1>5, JournalMapped DEF Batch!Commit, Batch!Decide, Outcome
  <1>q. QED
    BY <1>4, <1>6 DEF RStep, Batch!BNext

LEMMA FinishSeen ==
  ASSUME RInv, Finish PROVE RStep
  <1>1. /\ run.task = "finish" /\ state # "finalized"
        /\ UNCHANGED <<setup, allocating, carrier, receipt, place, history>>
    BY DEF Finish, RInv, IInv, DecisionInv, Idle
  <1>2. CASE decision = "compensate" /\ decision' = "compensated" /\ UNCHANGED <<state, run>>
    <2>1. MovedInv'
      BY <1>2 DEF MovedInv
    <2>2. Order'
      BY <1>1, <1>2, <2>1, QuietOrder
    <2>3. \A f \in File : Shown(f) \in {"before", "theirs"}
      BY <1>1, <1>2, SettledShown DEF RInv, IInv, UnitInv
    <2>4. Batch!Undone
      BY <1>1, <1>2, <2>3, JournalMapped DEF Batch!Undone, Batch!Decide, Outcome
    <2>q. QED
      BY <2>2, <2>4 DEF RStep, Batch!BNext
  <1>3. CASE /\ decision \in {"compensated", "commit"} /\ UNCHANGED decision /\ run' = Idle
             /\ state' = (IF run.blocked THEN state ELSE "finalized")
    <2>1. run'.hand \notin Origin /\ run'.task = "idle"
      BY <1>3 DEF Idle, Origin
    <2>2. decision = "commit" /\ setup.move => \A g \in File : run.blocked \/ SourceGone(g)
      BY <1>1 DEF RInv, Order, MovedInv
    <2>3. MovedInv'
      <3>1. \A g \in File : SourceGone(g)' <=> SourceGone(g)
        BY <1>1 DEF SourceGone, history
      <3>q. QED
        BY <1>1, <1>3, <2>1, <2>2, <3>1 DEF MovedInv
    <2>4. CASE run.blocked
      BY <1>1, <1>3, <2>1, <2>3, <2>4, QuietSeen
    <2>5. CASE ~run.blocked
      <3>1. Order'
        BY <1>1, <2>1, <2>3, QuietOrder
      <3>2. decision = "commit" /\ setup.move => \A g \in File : SourceOf(g) # "there"
        BY <2>2, <2>5 DEF SourceGone, SourceOf
      <3>3. Outcome \in {"committed", "undone"} /\ Outcome' = Outcome
            /\ (Outcome = "committed" => decision = "commit")
        BY <1>3 DEF Outcome
      <3>4. Batch!Close
        BY <1>1, <1>3, <2>5, <3>2, <3>3, JournalMapped DEF Batch!Close
      <3>q. QED
        BY <3>1, <3>4 DEF RStep, Batch!BNext
    <2>q. QED
      BY <2>4, <2>5
  <1>q. QED
    BY <1>2, <1>3 DEF Finish

-----------------------------------------------------------------------------
(* Others change a file; the initial states.                               *)

LEMMA ForeignMapped ==
  ASSUME RInv, NEW f \in File, NEW l \in {"final", "src"}, NEW c \in {"none", "foreign"},
         Foreign(f, l, c)
  PROVE  RStep
  <1>1. /\ UNCHANGED <<setup, state, decision, allocating, carrier, receipt, run>>
        /\ outside' = outside \union {f}
    BY DEF Foreign, journal
  <1>2. /\ \A g \in File : g # f => place'[g] = place[g]
        /\ \A m \in Place \ {"final", "src"} : At(f, m)' = At(f, m)
    <2>1. l \in Place /\ c \in Content /\ Put(f, l, c) /\ TypeOK
      BY Places DEF Foreign, RInv, IInv, Content
    <2>2. \A g \in File : g # f => place'[g] = place[g]
      BY <2>1, PutEffect
    <2>3. \A m \in Place : At(f, m)' = IF m = l THEN c ELSE At(f, m)
      BY <2>1, PutAt
    <2>q. QED
      BY <2>2, <2>3
  <1>3. \A g \in File : g # f => (g \in outside' <=> g \in outside)
    BY <1>1
  <1>4. Order'
    <2>1. \A g \in File : InPlace(g)' /\ SourceHeld(g)'
      BY <1>1, <1>2, <1>3 DEF RInv, Order, InPlace, SourceHeld
    <2>2. \A g \in File : At(g, "flat")' = At(g, "flat")
      BY <1>2, Places
    <2>3. TurnInv' /\ Handed'
      BY <1>1, <2>2 DEF RInv, Order, TurnInv, Settled, Gone, Handed
    <2>4. \A g \in File : SourceGone(g) => SourceGone(g)'
      BY <1>1, <1>2, <1>3 DEF SourceGone
    <2>5. MovedInv'
      BY <1>1, <2>4 DEF RInv, Order, MovedInv
    <2>q. QED
      BY <2>1, <2>3, <2>5 DEF Order
  <1>5. Batch!Disturb(f)
    <2>1. \A g \in File : /\ Shown(g)' = IF g = f THEN "theirs" ELSE Shown(g)
                          /\ SourceOf(g)' = IF g = f THEN "theirs" ELSE SourceOf(g)
      BY <1>1, <1>2, <1>3 DEF Shown, SourceOf
    <2>2. /\ [g \in File |-> Shown(g)]' = [[g \in File |-> Shown(g)] EXCEPT ![f] = "theirs"]
          /\ [g \in File |-> SourceOf(g)]' =
               [[g \in File |-> SourceOf(g)] EXCEPT ![f] = "theirs"]
      BY <2>1
    <2>3. UNCHANGED <<setup.move, Outcome, state = "finalized">>
      BY <1>1 DEF Outcome
    <2>q. QED
      BY <2>2, <2>3 DEF Batch!Disturb
  <1>q. QED
    BY <1>4, <1>5 DEF RStep, Batch!BNext

LEMMA InitMapped == Init => RInv /\ Batch!BInit
  <1> SUFFICES ASSUME Init PROVE RInv /\ Batch!BInit
    OBVIOUS
  <1>1. IInv
    BY InitIInv
  <1>2. /\ decision = "pending" /\ state = "prepared" /\ outside = {} /\ run.hand = "none"
        /\ \A f \in File, p \in Purpose : PhaseOf(f, p) = "none"
        /\ \A f \in File : receipt[f] = FALSE
    BY DEF Init, NoCarrier, Idle
  <1>3. \A f \in File : /\ At(f, "src") = "srcdata"
                        /\ At(f, "final") = IF f \in setup.overwrite THEN "old" ELSE "none"
    BY Places DEF Init
  <1>4. Order
    <2>1. \A f \in File : InPlace(f) /\ SourceHeld(f)
      BY <1>1, <1>2, Purposes DEF InPlace, SourceHeld, IInv, FileInv, CarrierInv, SourceInv,
         Early
    <2>2. TurnInv /\ MovedInv /\ Handed
      BY <1>2, Purposes DEF TurnInv, MovedInv, Handed, Origin
    <2>q. QED
      BY <2>1, <2>2 DEF Order
  <1>5. Batch!BInit
    <2>1. \A f \in File : Shown(f) = "before" /\ SourceOf(f) = "there"
      BY <1>2, <1>3 DEF Shown, SourceOf
    <2>2. setup.move \in BOOLEAN /\ Outcome = "open" /\ (state = "finalized") = FALSE
      BY <1>2 DEF Init, Setup, Outcome
    <2>q. QED
      BY <2>1, <2>2 DEF Batch!BInit
  <1>q. QED
    BY <1>1, <1>4, <1>5 DEF RInv

-----------------------------------------------------------------------------
(* The actions are made of these steps.                                    *)

LEMMA CarrierMapped ==
  ASSUME RInv, IInv', NEW f \in File, NEW p \in Purpose, run.at = f, run.task \in FileTask,
         InCarrier(f, p), p = "publication" => run.task # "restore"
  PROVE  RStep
  BY CarriesStep DEF InCarrier

LEMMA CaptureMapped ==
  ASSUME RInv, IInv', NEW f \in File, NEW p, NEW public, NEW flat, run.at = f,
         \/ /\ p = "original" /\ public = "final" /\ flat = "flat" /\ run.task = "publish"
            /\ f \in setup.overwrite /\ ~receipt[f]
         \/ p = "source" /\ public = "src" /\ flat = "srcflat" /\ run.task = "source",
         Capture(f, p, public, flat)
  PROVE  RStep
  <1>1. /\ p \in {"original", "source"} /\ p \in Purpose /\ p # "publication"
        /\ run.task \in FileTask /\ run.task \in MoveTask /\ (run.task = "source" <=> p = "source")
        /\ public \in Origin /\ flat \in Origin /\ run.task # "restore" /\ IInv
    BY Purposes DEF FileTask, MoveTask, Origin, RInv
  <1>2. CASE /\ NeedsIntent(f, p) /\ At(f, public) # "none" /\ Move(f, public, flat)
             /\ UNCHANGED <<setup, journal, run, exposed, history, interrupts>>
    BY <1>1, <1>2, StashMapped DEF NeedsIntent
  <1>3. CASE \E o \in {flat, public} : Allocate(f, p, o)
    BY <1>1, <1>3, AllocateCarries, CarrierMapped
  <1>4. CASE Bind(f, p) \/ Claiming(f, p) \/ RecordCapture(f, p)
    BY <1>1, <1>4, BindCarries, ClaimingCarries, RecordCarries, CarrierMapped
  <1>5. CASE Take(f, p)
    BY <1>1, <1>5, TakeMapped
  <1>q. QED
    BY <1>2, <1>3, <1>4, <1>5 DEF Capture

LEMMA RestoreToMapped ==
  ASSUME RInv, IInv', NEW f \in File, NEW p \in {"original", "rollback", "source"}, NEW dest,
         run.at = f, MayRestore(f, p, dest), _restore_private_to(f, p, dest)
  PROVE  RStep
  <1>1. IInv /\ p \in Purpose /\ p # "publication" /\ run.task \in FileTask
    BY Purposes DEF RInv, MayRestore, FileTask
  <1>2. CASE Restoring(f, p) \/ LinkReceipt(f, p, dest) \/ ProveRestored(f, p, dest)
    BY <1>1, <1>2, RestoringCarries, LinkReceiptCarries, ProveCarries, CarrierMapped
  <1>3. CASE Link(f, p, dest)
    BY <1>3, LinkMapped
  <1>q. QED
    BY <1>2, <1>3 DEF _restore_private_to

LEMMA DiscardMapped ==
  ASSUME RInv, IInv', NEW f \in File, NEW p \in Purpose, run.at = f, run.task \in FileTask,
         Discard(f, p), p = "publication" => run.task # "restore"
  PROVE  RStep
  BY DiscardingCarries, ArtifactCarries, CarrierMapped DEF Discard, RInv

LEMMA CopyFileMapped ==
  ASSUME RInv, IInv', NEW f \in File, _prepare_publication_copy(f) PROVE RStep
  <1>1. /\ run.at = f /\ run.task = "publish" /\ run.task \in FileTask /\ "final" \in Origin
        /\ "publication" \in Purpose /\ IInv
    BY Purposes DEF _prepare_publication_copy, Doing, FileTask, Origin, RInv
  <1>2. CASE Allocate(f, "publication", "final")
    BY <1>1, <1>2, AllocateCarries, CarrierMapped
  <1>3. CASE \/ Bind(f, "publication") \/ Claiming(f, "publication")
             \/ RecordCapture(f, "publication")
    BY <1>1, <1>3, BindCarries, ClaimingCarries, RecordCarries, CarrierMapped
  <1>4. CASE /\ PhaseOf(f, "publication") = "claiming" /\ Put(f, "publication", "new")
             /\ UNCHANGED <<setup, journal, run, exposed, history, interrupts>>
    BY <1>1, <1>4, CopyCarries, CarrierMapped
  <1>q. QED
    BY <1>2, <1>3, <1>4 DEF _prepare_publication_copy

LEMMA RetainMapped ==
  ASSUME RInv, IInv', NEW f \in File, _retain_original(f) PROVE RStep
  <1>1. /\ run.at = f /\ run.task = "publish" /\ f \in setup.overwrite /\ ~receipt[f]
        /\ Capture(f, "original", "final", "flat")
    BY DEF _retain_original, Doing
  <1>q. QED
    BY <1>1, CaptureMapped

LEMMA PublishFileMapped ==
  ASSUME RInv, IInv', NEW f \in File, _publish_private(f) PROVE RStep
  <1>1. /\ PublishReady(f) /\ run.at = f /\ run.task = "publish" /\ ~receipt[f] /\ IInv
        /\ run.task \in FileTask
    BY DEF _publish_private, PublishReady, Doing, RInv, FileTask
  <1>2. CASE /\ SetPhase(f, "publication", "restoring") /\ Hand("armed")
             /\ UNCHANGED <<setup, state, decision, allocating, receipt, stagePhase, place,
                            exposed, history, interrupts>>
    BY <1>1, <1>2, ArmCarries, Purposes, CarrierMapped
  <1>3. CASE /\ run.hand = "armed" /\ At(f, "publication") # "none" /\ At(f, "final") = "none"
             /\ IF setup.native THEN Move(f, "publication", "final") /\ UNCHANGED run
                ELSE Put(f, "final", At(f, "publication")) /\ Hand("linked")
             /\ UNCHANGED <<setup, journal, exposed, history, interrupts>>
    BY <1>1, <1>3, PublishMoveMapped
  <1>4. CASE /\ PhaseOf(f, "publication") = "restoring" /\ At(f, "final") = "new"
             /\ PublishReceipt(f)
    BY <1>1, <1>4, ReceiptMapped
  <1>q. QED
    BY <1>2, <1>3, <1>4 DEF _publish_private

LEMMA PublishBlockedMapped ==
  ASSUME RInv, NEW f \in File, PublishBlocked(f) PROVE RStep
  <1>1. /\ decision = "pending" /\ decision' = "compensate" /\ run' = Idle
        /\ UNCHANGED <<setup, state, allocating, carrier, receipt, place, history>>
    BY DEF PublishBlocked, Doing, RInv, IInv, UnitInv
  <1>2. run'.hand \notin Origin
    BY <1>1 DEF Idle, Origin
  <1>q. QED
    BY <1>1, <1>2, UndoSeen

LEMMA AdmissionChangedMapped ==
  ASSUME RInv, AdmissionChanged PROVE RStep
  <1>1. /\ decision = "pending" /\ decision' = "compensate"
        /\ run' = [Idle EXCEPT !.task = "restore", !.at = N]
        /\ UNCHANGED <<setup, state, allocating, carrier, receipt, place, history>>
    BY DEF AdmissionChanged, RInv, IInv, UnitInv, HandInv
  <1>2. run'.hand \notin Origin
    BY <1>1 DEF Idle, Origin
  <1>q. QED
    BY <1>1, <1>2, UndoSeen

LEMMA RemoveOursMapped ==
  ASSUME RInv, IInv', NEW f \in File, _remove_our_publication(f) PROVE RStep
  <1>1. /\ run.at = f /\ run.task = "restore" /\ ~Removed(f) /\ IInv
        /\ run.task \in FileTask /\ run.task \in MoveTask /\ "rollback" \in Purpose
        /\ "final" \in Origin
    BY Purposes DEF _remove_our_publication, Doing, RInv, FileTask, MoveTask, Origin
  <1>2. CASE ~receipt[f] /\ At(f, "final") = "new" /\ PublishReceipt(f)
    BY <1>1, <1>2, ReceiptMapped DEF Removed
  <1>3. CASE Allocate(f, "rollback", "final")
    BY <1>1, <1>3, AllocateCarries, CarrierMapped
  <1>4. CASE Bind(f, "rollback") \/ Claiming(f, "rollback") \/ RecordCapture(f, "rollback")
    BY <1>1, <1>4, BindCarries, ClaimingCarries, RecordCarries, CarrierMapped
  <1>5. CASE Take(f, "rollback")
    BY <1>1, <1>5, TakeMapped
  <1>6. CASE DiscardArtifact(f, "rollback")
    BY <1>1, <1>6, ArtifactCarries, CarrierMapped
  <1>7. CASE Captured(f, "rollback") = "foreign" /\ _restore_private_to(f, "rollback", "final")
    BY <1>1, <1>7, RestoreToMapped DEF MayRestore
  <1>q. QED
    BY <1>2, <1>3, <1>4, <1>5, <1>6, <1>7 DEF _remove_our_publication

LEMMA RestoreOldMapped ==
  ASSUME RInv, IInv', NEW f \in File, _restore_original(f) PROVE RStep
  <1>1. /\ run.at = f /\ run.task = "restore" /\ Removed(f) /\ IInv
        /\ run.task \in FileTask /\ run.task \in MoveTask /\ "original" \in Purpose
        /\ "flat" \in Origin
    BY Purposes DEF _restore_original, Doing, RInv, FileTask, MoveTask, Origin
  <1>2. CASE At(f, "flat") # "none" /\ Allocate(f, "original", "flat")
    BY <1>1, <1>2, AllocateCarries, CarrierMapped
  <1>3. CASE Bind(f, "original") \/ Claiming(f, "original") \/ RecordCapture(f, "original")
    BY <1>1, <1>3, BindCarries, ClaimingCarries, RecordCarries, CarrierMapped
  <1>4. CASE Take(f, "original")
    BY <1>1, <1>4, TakeMapped
  <1>5. CASE _restore_private_to(f, "original", "final")
    BY <1>1, <1>5, RestoreToMapped DEF MayRestore
  <1>q. QED
    BY <1>2, <1>3, <1>4, <1>5 DEF _restore_original

LEMMA DropMapped ==
  ASSUME RInv, IInv', NEW f \in File, DropFile(f) PROVE RStep
  <1>1. Doing("drop", f) /\ run.at = f /\ run.task = "drop" /\ run.task \in FileTask
    BY DEF DropFile, Doing, FileTask
  <1>2. ASSUME NEW p \in {"rollback", "original", "publication"}, Discard(f, p) PROVE RStep
    BY <1>1, <1>2, Purposes, DiscardMapped
  <1>3. CASE /\ run' = IF f = N THEN [run EXCEPT !.task = "stage"] ELSE [run EXCEPT !.at = f + 1]
             /\ UnitOnly
    BY <1>1, <1>3, DroppedFileSeen
  <1>q. QED
    BY <1>2, <1>3 DEF DropFile

LEMMA CleanMapped ==
  ASSUME RInv, IInv', NEW f \in File, CleanFile(f) PROVE RStep
  <1>1. Doing("clean", f) /\ run.at = f /\ run.task = "clean" /\ run.task \in FileTask
    BY DEF CleanFile, Doing, FileTask
  <1>2. ASSUME NEW p \in {"original", "publication"}, Discard(f, p) PROVE RStep
    BY <1>1, <1>2, Purposes, DiscardMapped
  <1>3. CASE /\ run' = IF f = N THEN [run EXCEPT !.task = "stage"] ELSE [run EXCEPT !.at = f + 1]
             /\ UnitOnly
    BY <1>1, <1>3, CleanedFileSeen
  <1>q. QED
    BY <1>2, <1>3 DEF CleanFile

LEMMA CleanSourceMapped ==
  ASSUME RInv, IInv', NEW f \in File, _cleanup_source_private(f) PROVE RStep
  <1>1. /\ Doing("source", f) /\ run.at = f /\ run.task = "source" /\ "source" \in Purpose
        /\ run.task \in FileTask /\ IInv
    BY Purposes DEF _cleanup_source_private, Doing, FileTask, RInv
  <1>2. CASE Capture(f, "source", "src", "srcflat")
    BY <1>1, <1>2, CaptureMapped
  <1>3. CASE Discard(f, "source") \/ Discarding(f, "source") \/ DiscardArtifact(f, "source")
    BY <1>1, <1>3, DiscardMapped DEF Discard
  <1>4. CASE Captured(f, "source") = "foreign" /\ _restore_private_to(f, "source", "src")
    BY <1>1, <1>4, RestoreToMapped DEF MayRestore
  <1>5. CASE /\ PhaseOf(f, "source") = "discarded" \/ At(f, "src") = "none"
             /\ NextFile(f) /\ UnitOnly
    BY <1>1, <1>5, SourceFileSeen DEF NextFile
  <1>q. QED
    BY <1>2, <1>3, <1>4, <1>5 DEF _cleanup_source_private

\* A step of the system is one of AtomicBatch, or a reader does not see it.
LEMMA NextMapped ==
  ASSUME RInv, [Next]_vars
  PROVE  RInv' /\ [Batch!BNext]_(Batch!bvars)
  <1>1. IInv /\ IInv'
    BY NextIInv DEF RInv
  <1>2. ASSUME NEW f \in File, FileStep(f) PROVE RStep
    BY <1>1, <1>2, CopyFileMapped, RetainMapped, PublishFileMapped, PublishedFileSeen,
       PublishBlockedMapped, RemoveOursMapped, RestoreOldMapped, RestoredFileSeen, DropMapped,
       CleanSourceMapped, SourceFileSeen, CleanMapped DEF FileStep, SourceBlocked
  <1>3. ASSUME run' = Idle, UnitOnly PROVE RStep
    BY <1>3, EndSeen DEF UnitOnly
  <1>4. CASE _publish_publication_owned
    <2>1. /\ decision = "pending" /\ state = "publishing" /\ state' = "published" /\ run' = Idle
          /\ UNCHANGED <<setup, decision, allocating, carrier, receipt, place, history>>
      BY <1>1, <1>4 DEF _publish_publication_owned, Doing, IInv, UnitInv
    <2>2. MovedInv' /\ run'.hand \notin Origin
      BY <2>1 DEF MovedInv, Idle, Origin
    <2>q. QED
      BY <1>1, <2>1, <2>2, QuietSeen DEF RStep, RInv
  <1>5. CASE _verify_publication_artifacts
    <2>1. UnitOnly /\ decision # "commit" /\ run.task = "commit" /\ Hand("verified")
      BY <1>1, <1>5 DEF _verify_publication_artifacts, IInv, UnitInv
    <2>2. run'.hand \notin Origin /\ run'.task = "commit"
      BY <1>1, <2>1, HandTyped DEF IInv, Origin
    <2>q. QED
      BY <1>1, <2>1, <2>2, WalkSeen DEF RStep, RInv
  <1>6. CASE UnitStep
    BY <1>1, <1>2, <1>3, <1>4, <1>5, <1>6, BeginSeen, CommitSeen, AdmissionChangedMapped,
       SourcesDoneSeen, StageSeen, FinishSeen DEF UnitStep, UnitBlocked, RStep, RInv
  <1>7. CASE Interrupt
    BY <1>1, <1>7, EndSeen DEF Interrupt, RStep, RInv
  <1>8. CASE UNCHANGED vars
    <2>1. /\ UNCHANGED <<setup, state, decision, allocating, carrier, receipt, place, run,
                         history>>
      BY <1>8 DEF vars, journal
    <2>2. MovedInv'
      BY <2>1 DEF RInv, Order, MovedInv, SourceGone, history
    <2>q. QED
      BY <1>1, <2>1, <2>2, QuietSeen DEF RStep, RInv
  <1>q. QED
    BY <1>1, <1>6, <1>7, <1>8, ForeignMapped DEF Next, RStep, RInv

\* The publication implements AtomicBatch, for any number of files, of interruptions and
\* of changes by others: a reader of the library sees the files of the batch appear in
\* order and go in the opposite order, one of them missing at most, all of them at the
\* commit and none at the end of a compensation.
THEOREM BatchAtomic == Spec => BatchIsAtomic
  <1>1. RInv /\ [Next]_vars => RInv' /\ [Batch!BNext]_(Batch!bvars)
    BY NextMapped
  <1>q. QED
    BY <1>1, InitMapped, PTL DEF Spec, BatchIsAtomic, Batch!BSpec
=============================================================================
