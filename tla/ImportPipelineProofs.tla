------------------------ MODULE ImportPipelineProofs ------------------------
(***************************************************************************)
(* Proofs, for every number of rows, attempts, crashes and errors, of the  *)
(* safety invariants of ImportPipeline, and, in the last part, that it     *)
(* implements AtomicImport.                                                *)
(*                                                                         *)
(* None of the invariants is inductive alone.  They hold together because  *)
(* the file-mutation lock serialises the steps that write a journal row,   *)
(* so that a process at a guarded point knows the state of its row         *)
(* (Knows), and because the one writer that does not take the lock, the    *)
(* prepared barrier, is stopped by the fence a recovery abort holds.       *)
(*                                                                         *)
(* A step writes at most one row and moves at most one process.  Locked    *)
(* and Unlocked say what such a step may write, the two Update lemmas that *)
(* it then preserves the invariant; the proof about an action only shows   *)
(* what the action writes.                                                 *)
(***************************************************************************)
EXTENDS ImportRefinement, TLAPS

\* what a journal row r and its queue row k owe each other
RowInv(r, k) ==
  /\ r.state \in Active => r.id \in Worker
  /\ r.state = "staging" => r.decision = "pending"
  /\ r.state \in PreCommit =>
       /\ k.status = "importing" /\ k.owner = r.id
       /\ r.decision \in {"pending", "compensate", "compensated"}
  /\ r.state \in PostCommit => k.status = r.result /\ k.owner = NoOwner
  /\ r.state \in {"published"} \union PostCommit
       /\ r.decision \in {"pending", "commit"} => r.stage = "ready"

\* a process that works has a row and a publication id, an attempt's id is its
\* own token, and a process at a guarded point holds the lock g
PlaceInv(p, j, g) ==
  /\ j.pc \notin {"idle", "done", "pass"} => j.q \in Queue /\ j.id \in Worker
  /\ p \in Worker => j.pc # "pass" /\ (j.pc \notin {"idle", "done"} => j.id = p)
  /\ j.pc \in GuardedPc => g = p

\* what process p in job j knows of the journal row r it works on
Knows(p, j, r) ==
  /\ j.pc = "binding" => p \in Worker
  /\ j.pc \in {"binding", "abort", "discarding", "discarded"} =>
       r.id = j.id /\ r.state = "staging"
  /\ j.pc \in {"abort", "discarding", "discarded"} =>
       r.op = IF p = Replay THEN Replay ELSE NoOwner
  /\ j.pc \in {"publish", "compensate", "compensated", "cleanup"} =>
       r.id = j.id /\ r.op = p
  /\ j.pc = "publish" => r.state = "publishing" /\ r.decision = "pending"
  /\ j.pc \in {"compensate", "compensated"} =>
       /\ r.state \in {"publishing", "published"}
       /\ r.decision \in {"compensate", "compensated"}
  /\ j.pc = "cleanup" => r.state = "cleaning"

Rows == \A q \in Queue : RowInv(pub[q], queue[q])
Places == \A p \in Proc : PlaceInv(p, proc[p], guard)
Knowledge == \A p \in Proc : proc[p].pc \in GuardedPc =>
               proc[p].q \in Queue /\ Knows(p, proc[p], pub[proc[p].q])

IInv == TypeOK /\ Rows /\ Places /\ Knowledge

\* the variables that the argument does not turn on stay in their types
Rest == /\ todo' \in SUBSET Queue
        /\ service' \in {"down", "drain", "up"}
        /\ fate' \in [Worker -> {"open", "aborted", "committed", "compensated"}]
        /\ crashes' \in 0..MaxCrashes
        /\ faults' \in 0..MaxFaults

\* Process p moves to job j, leaves rows r and k at q, and the lock at g.
Fits(j, r, k) == j \in Job /\ r \in PubRow /\ k \in QueueRow

Writes(p, q, j, r, k, g) ==
  /\ p \in Proc /\ q \in Queue
  /\ proc' = [proc EXCEPT ![p] = j] /\ guard' = g
  /\ pub' = [pub EXCEPT ![q] = r] /\ queue' = [queue EXCEPT ![q] = k]
  /\ Rest

\* The lock was free or p's, the rows agree, p knows what it left.
Keeps(p, q, j, r, k, g) ==
  /\ guard \in {NoOwner, p} /\ g \in {NoOwner, p}
  /\ RowInv(r, k) /\ PlaceInv(p, j, g)
  /\ j.pc \in GuardedPc => j.q = q /\ Knows(p, j, r)

\* Outside the lock p moves between unguarded points and writes at most a
\* queue row.
KeepsOut(p, q, j, r, k, g) ==
  /\ proc[p].pc \notin GuardedPc /\ j.pc \notin GuardedPc
  /\ g = guard /\ r = pub[q]
  /\ RowInv(r, k) /\ PlaceInv(p, j, g)

-----------------------------------------------------------------------------
\* A step that takes, holds or gives back the lock preserves the invariant.
LEMMA LockedUpdate ==
  ASSUME IInv, NEW p, NEW q, NEW j, NEW r, NEW k, NEW g,
         Fits(j, r, k), Writes(p, q, j, r, k, g), Keeps(p, q, j, r, k, g)
  PROVE  IInv'
  <1> USE PipelineAssumption DEF IInv, Fits, Writes, Keeps
  <1>1. TypeOK'
    BY DEF TypeOK, Rest, Proc
  <1>2. Rows'
    BY DEF TypeOK, Rows
  <1>3. \A s \in Proc : s # p => proc'[s] = proc[s] /\ proc[s].pc \notin GuardedPc
    BY DEF TypeOK, Places, PlaceInv, Proc
  <1>4. proc'[p] = j
    BY DEF TypeOK
  <1>5. Places'
    BY <1>3, <1>4 DEF Places, PlaceInv
  <1>6. Knowledge'
    BY <1>3, <1>4 DEF Knowledge, TypeOK
  <1>q. QED
    BY <1>1, <1>2, <1>5, <1>6

\* A step outside the lock that writes no journal row preserves it.
LEMMA UnlockedUpdate ==
  ASSUME IInv, NEW p, NEW q, NEW j, NEW r, NEW k, NEW g,
         Fits(j, r, k), Writes(p, q, j, r, k, g), KeepsOut(p, q, j, r, k, g)
  PROVE  IInv'
  <1> USE PipelineAssumption DEF IInv, Fits, Writes, KeepsOut
  <1>1. TypeOK'
    BY DEF TypeOK, Rest
  <1>2. Rows'
    BY DEF TypeOK, Rows
  <1>3. (\A s \in Proc : s # p => proc'[s] = proc[s]) /\ guard' = guard /\ pub' = pub
    BY DEF TypeOK
  <1>4. proc'[p] = j
    BY DEF TypeOK
  <1>5. Places'
    BY <1>3, <1>4 DEF Places
  <1>6. Knowledge'
    BY <1>3, <1>4 DEF Knowledge
  <1>q. QED
    BY <1>1, <1>2, <1>5, <1>6

-----------------------------------------------------------------------------
\* The members of the sets of states that the actions write.
LEMMA TypeSets ==
  /\ {"absent", "pending", "partial", "importing", "imported", "failed", "skipped",
      "deleted"} \subseteq QueueStatus
  /\ {"none", "finalized", "deleted", "staging", "prepared", "publishing",
      "published", "db_committed", "cleaning"} \subseteq PubState
  /\ {"none", "allocating", "ready", "discarding", "discarded"} \subseteq StagePhase
  /\ {"none", "pending", "commit", "compensate", "compensated"} \subseteq Decision
  /\ {"failCommit", "failing", "cancelling", "done"} = After
  /\ After \union {"binding", "transform", "abort", "discarding", "discarded", "unit",
      "publish", "compensate", "compensated", "cleanup", "idle", "done", "claimed",
      "planned", "bound", "staging", "staged", "refreshed", "artifacts", "completing",
      "aborting", "failing", "cancelling", "pass"} \subseteq GuardedPc \union FreePc
BY DEF GuardedPc, FreePc, QueueStatus, PubState, Active, PreCommit, PostCommit,
   StagePhase, Decision, After

\* What the invariant says where a working process stands.
LEMMA Here ==
  ASSUME IInv, NEW p \in Proc, proc[p].pc \notin {"idle", "done", "pass"}
  PROVE  /\ proc[p] \in Job /\ proc[p].q \in Queue /\ proc[p].id \in Worker
         /\ pub[proc[p].q] \in PubRow /\ queue[proc[p].q] \in QueueRow
         /\ RowInv(pub[proc[p].q], queue[proc[p].q])
         /\ PlaceInv(p, proc[p], guard)
         /\ proc[p].pc \in GuardedPc => guard = p /\ Knows(p, proc[p], pub[proc[p].q])
BY DEF IInv, TypeOK, Rows, Places, PlaceInv, Knowledge

\* The publication unit, by an attempt or by the replay, preserves IInv.
LEMMA UnitStepIInv ==
  ASSUME IInv, NEW p \in Proc, UnitStep(p) PROVE IInv'
  <1> DEFINE q == proc[p].q
             r == pub[q]
             k == queue[q]
             j == proc[p]
  <1> USE PipelineAssumption
  <1>0. p \in Proc /\ j.pc \notin {"idle", "done", "pass"}
    BY DEF Proc, UnitStep, UnitEnter, UnitBusy, UnitReturns, UnitBlocked, UnitLost,
       _claim_publication_operation, _publish_publication_owned, PublishBlocked,
       CommitPublication, AdmissionChanged, ResumeCompensation, CompensateFiles,
       _compensate_publication, claim_publication_cleanup, finalize_publication,
       Entered
  <1>1. /\ p \in Proc /\ q \in Queue /\ j \in Job /\ r \in PubRow /\ k \in QueueRow
        /\ j.id \in Worker /\ RowInv(r, k) /\ PlaceInv(p, j, guard)
        /\ j.pc \in GuardedPc => guard = p /\ Knows(p, j, r)
    BY <1>0, Here
  <1>2. CASE UnitEnter(p)
    <2> DEFINE j2 == [j EXCEPT !.pc = "unit"]
    <2>1. Fits(j2, r, k)
      BY <1>1, TypeSets DEF Fits, QueueRow, PubRow, Job, Proc
    <2>2. Writes(p, q, j2, r, k, p)
      BY <1>2, <1>1 DEF UnitEnter, Goto, SetPub, SetQueue, Writes, Rest, IInv, TypeOK
    <2>3. Keeps(p, q, j2, r, k, p)
      BY <1>2, <1>1 DEF UnitEnter, Goto, OperationFree, Loaded, Keeps, RowInv,
         PlaceInv, Knows, QueueRow, PubRow, Job, Proc, GuardedPc, Active, PreCommit,
         PostCommit
    <2>q. QED
      BY <2>1, <2>2, <2>3, LockedUpdate
  <1>3. CASE UnitBusy(p)
    <2> DEFINE j2 == Ended(p)
    <2>1. Fits(j2, r, k)
      BY <1>1, TypeSets DEF Fits, QueueRow, PubRow, Job, Proc, Ended, Idle
    <2>2. Writes(p, q, j2, r, k, guard)
      BY <1>3, <1>1 DEF UnitBusy, EndUnit, Ended, Idle, SetPub, SetQueue, Writes,
         Rest, IInv, TypeOK
    <2>3. KeepsOut(p, q, j2, r, k, guard)
      BY <1>3, <1>1 DEF UnitBusy, EndUnit, Ended, Idle, OperationFree, Loaded,
         KeepsOut, RowInv, PlaceInv, Knows, QueueRow, PubRow, Job, Proc, GuardedPc,
         Active, PreCommit, PostCommit
    <2>q. QED
      BY <2>1, <2>2, <2>3, UnlockedUpdate
  <1>4. CASE UnitReturns(p)
    <2> DEFINE j2 == Ended(p)
               r2 == Retire(r, p)
    <2>1. Fits(j2, r2, k)
      <3>1. j2 \in Job
        BY <1>1, TypeSets DEF Job, Ended, Idle
      <3>2. r2 \in PubRow
        BY <1>1, TypeSets DEF PubRow, Proc, Retire
      <3>q. QED BY <1>1, <3>1, <3>2 DEF Fits
    <2>2. Writes(p, q, j2, r2, k, NoOwner)
      <3>1. pub' = [pub EXCEPT ![q] = r2]
        BY <1>4 DEF UnitReturns, LeaveUnit, Retire, EndUnit, Ended, Idle, SetPub
      <3>2. proc' = [proc EXCEPT ![p] = j2] /\ guard' = NoOwner
        BY <1>4, <1>1 DEF UnitReturns, LeaveUnit, Retire, EndUnit, Ended, Idle,
           IInv, TypeOK
      <3>3. queue' = [queue EXCEPT ![q] = k]
        BY <1>4, <1>1 DEF UnitReturns, LeaveUnit, Retire, EndUnit, Ended, Idle,
           SetQueue, IInv, TypeOK
      <3>4. Rest
        BY <1>4, <1>1 DEF UnitReturns, LeaveUnit, Retire, EndUnit, Ended, Idle,
           Rest, IInv, TypeOK
      <3>q. QED BY <1>1, <3>1, <3>2, <3>3, <3>4 DEF Writes
    <2>3. Keeps(p, q, j2, r2, k, NoOwner)
      BY <1>4, <1>1 DEF UnitReturns, LeaveUnit, Retire, EndUnit, Ended, Idle,
         OperationFree, Loaded, Keeps, RowInv, PlaceInv, Knows, QueueRow, PubRow,
         Job, Proc, GuardedPc, Active, PreCommit, PostCommit
    <2>q. QED
      BY <2>1, <2>2, <2>3, LockedUpdate
  <1>5. CASE UnitBlocked(p)
    <2>1. CASE r.op = p
      <3> DEFINE j2 == Ended(p)
                 r2 == [r EXCEPT !.op = NoOwner, !.opLive = FALSE]
      <3>1. Fits(j2, r2, k)
        <4>1. j2 \in Job
          BY <1>1, <2>1, TypeSets DEF Job, Ended, Idle
        <4>2. r2 \in PubRow
          BY <1>1, <2>1, TypeSets DEF PubRow, Proc
        <4>q. QED BY <1>1, <4>1, <4>2 DEF Fits
      <3>2. Writes(p, q, j2, r2, k, NoOwner)
        <4>1. pub' = [pub EXCEPT ![q] = r2]
          BY <1>5, <2>1 DEF UnitBlocked, Entered, Fault, LeaveUnit, Retire, EndUnit,
             Ended, Idle, SetPub
        <4>2. proc' = [proc EXCEPT ![p] = j2] /\ guard' = NoOwner
          BY <1>5, <2>1, <1>1 DEF UnitBlocked, Entered, Fault, LeaveUnit, Retire,
             EndUnit, Ended, Idle, IInv, TypeOK
        <4>3. queue' = [queue EXCEPT ![q] = k]
          BY <1>5, <2>1, <1>1 DEF UnitBlocked, Entered, Fault, LeaveUnit, Retire,
             EndUnit, Ended, Idle, SetQueue, IInv, TypeOK
        <4>4. Rest
          BY <1>5, <2>1, <1>1 DEF UnitBlocked, Entered, Fault, LeaveUnit, Retire,
             EndUnit, Ended, Idle, Rest, IInv, TypeOK
        <4>q. QED BY <1>1, <4>1, <4>2, <4>3, <4>4 DEF Writes
      <3>3. Keeps(p, q, j2, r2, k, NoOwner)
        BY <1>5, <2>1, <1>1 DEF UnitBlocked, Entered, Fault, LeaveUnit, Retire,
           EndUnit, Ended, Idle, OperationFree, Loaded, Keeps, RowInv, PlaceInv,
           Knows, QueueRow, PubRow, Job, Proc, GuardedPc, Active, PreCommit,
           PostCommit
      <3>q. QED
        BY <3>1, <3>2, <3>3, LockedUpdate
    <2>2. CASE r.op # p
      <3> DEFINE j2 == Ended(p)
      <3>1. Fits(j2, r, k)
        BY <1>1, TypeSets DEF Fits, QueueRow, PubRow, Job, Proc, Ended, Idle
      <3>2. Writes(p, q, j2, r, k, NoOwner)
        BY <1>5, <2>2, <1>1 DEF UnitBlocked, Entered, Fault, LeaveUnit, Retire,
           EndUnit, Ended, Idle, SetPub, SetQueue, Writes, Rest, IInv, TypeOK
      <3>3. Keeps(p, q, j2, r, k, NoOwner)
        BY <1>5, <2>2, <1>1 DEF UnitBlocked, Entered, Fault, LeaveUnit, Retire,
           EndUnit, Ended, Idle, OperationFree, Loaded, Keeps, RowInv, PlaceInv,
           Knows, QueueRow, PubRow, Job, Proc, GuardedPc, Active, PreCommit,
           PostCommit
      <3>q. QED
        BY <3>1, <3>2, <3>3, LockedUpdate
    <2>q. QED BY <2>1, <2>2
  <1>6. CASE UnitLost(p)
    <2> DEFINE j2 == Ended(p)
               r2 == Retire(r, p)
    <2>1. Fits(j2, r2, k)
      <3>1. j2 \in Job
        BY <1>1, TypeSets DEF Job, Ended, Idle
      <3>2. r2 \in PubRow
        BY <1>1, TypeSets DEF PubRow, Proc, Retire
      <3>q. QED BY <1>1, <3>1, <3>2 DEF Fits
    <2>2. Writes(p, q, j2, r2, k, NoOwner)
      <3>1. pub' = [pub EXCEPT ![q] = r2]
        BY <1>6 DEF UnitLost, LeaveUnit, Retire, EndUnit, Ended, Idle, SetPub
      <3>2. proc' = [proc EXCEPT ![p] = j2] /\ guard' = NoOwner
        BY <1>6, <1>1 DEF UnitLost, LeaveUnit, Retire, EndUnit, Ended, Idle, IInv,
           TypeOK
      <3>3. queue' = [queue EXCEPT ![q] = k]
        BY <1>6, <1>1 DEF UnitLost, LeaveUnit, Retire, EndUnit, Ended, Idle,
           SetQueue, IInv, TypeOK
      <3>4. Rest
        BY <1>6, <1>1 DEF UnitLost, LeaveUnit, Retire, EndUnit, Ended, Idle, Rest,
           IInv, TypeOK
      <3>q. QED BY <1>1, <3>1, <3>2, <3>3, <3>4 DEF Writes
    <2>3. Keeps(p, q, j2, r2, k, NoOwner)
      BY <1>6, <1>1 DEF UnitLost, LeaveUnit, Retire, EndUnit, Ended, Idle,
         OperationFree, Loaded, Keeps, RowInv, PlaceInv, Knows, QueueRow, PubRow,
         Job, Proc, GuardedPc, Active, PreCommit, PostCommit
    <2>q. QED
      BY <2>1, <2>2, <2>3, LockedUpdate
  <1>7. CASE _claim_publication_operation(p)
    <2>1. CASE r.decision = "pending"
      <3> DEFINE j2 == [j EXCEPT !.pc = "publish"]
                 r2 == [r EXCEPT !.state = "publishing", !.op = p, !.opLive = TRUE]
      <3>1. Fits(j2, r2, k)
        <4>1. j2 \in Job
          BY <1>1, <2>1, TypeSets DEF Job
        <4>2. r2 \in PubRow
          BY <1>1, <2>1, TypeSets DEF PubRow, Proc
        <4>q. QED BY <1>1, <4>1, <4>2 DEF Fits
      <3>2. Writes(p, q, j2, r2, k, p)
        <4>1. pub' = [pub EXCEPT ![q] = r2]
          BY <1>7, <2>1 DEF _claim_publication_operation, Entered, Claimed, Goto,
             SetPub
        <4>2. proc' = [proc EXCEPT ![p] = j2] /\ guard' = p
          BY <1>7, <2>1, <1>1 DEF _claim_publication_operation, Entered, Claimed,
             Goto, GuardedPc, IInv, TypeOK
        <4>3. queue' = [queue EXCEPT ![q] = k]
          BY <1>7, <2>1, <1>1 DEF _claim_publication_operation, Entered, Claimed,
             Goto, SetQueue, IInv, TypeOK
        <4>4. Rest
          BY <1>7, <2>1, <1>1 DEF _claim_publication_operation, Entered, Claimed,
             Goto, Rest, IInv, TypeOK
        <4>q. QED BY <1>1, <4>1, <4>2, <4>3, <4>4 DEF Writes
      <3>3. Keeps(p, q, j2, r2, k, p)
        BY <1>7, <2>1, <1>1 DEF _claim_publication_operation, Entered, Claimed,
           Goto, OperationFree, Loaded, Keeps, RowInv, PlaceInv, Knows, QueueRow,
           PubRow, Job, Proc, GuardedPc, Active, PreCommit, PostCommit
      <3>q. QED
        BY <3>1, <3>2, <3>3, LockedUpdate
    <2>2. CASE r.decision # "pending"
      <3> DEFINE j2 == [j EXCEPT !.pc = "compensate"]
                 r2 == [r EXCEPT !.state = "publishing", !.op = p, !.opLive = TRUE]
      <3>1. Fits(j2, r2, k)
        <4>1. j2 \in Job
          BY <1>1, <2>2, TypeSets DEF Job
        <4>2. r2 \in PubRow
          BY <1>1, <2>2, TypeSets DEF PubRow, Proc
        <4>q. QED BY <1>1, <4>1, <4>2 DEF Fits
      <3>2. Writes(p, q, j2, r2, k, p)
        <4>1. pub' = [pub EXCEPT ![q] = r2]
          BY <1>7, <2>2 DEF _claim_publication_operation, Entered, Claimed, Goto,
             SetPub
        <4>2. proc' = [proc EXCEPT ![p] = j2] /\ guard' = p
          BY <1>7, <2>2, <1>1 DEF _claim_publication_operation, Entered, Claimed,
             Goto, GuardedPc, IInv, TypeOK
        <4>3. queue' = [queue EXCEPT ![q] = k]
          BY <1>7, <2>2, <1>1 DEF _claim_publication_operation, Entered, Claimed,
             Goto, SetQueue, IInv, TypeOK
        <4>4. Rest
          BY <1>7, <2>2, <1>1 DEF _claim_publication_operation, Entered, Claimed,
             Goto, Rest, IInv, TypeOK
        <4>q. QED BY <1>1, <4>1, <4>2, <4>3, <4>4 DEF Writes
      <3>3. Keeps(p, q, j2, r2, k, p)
        BY <1>7, <2>2, <1>1 DEF _claim_publication_operation, Entered, Claimed,
           Goto, OperationFree, Loaded, Keeps, RowInv, PlaceInv, Knows, QueueRow,
           PubRow, Job, Proc, GuardedPc, Active, PreCommit, PostCommit
      <3>q. QED
        BY <3>1, <3>2, <3>3, LockedUpdate
    <2>q. QED BY <2>1, <2>2
  <1>8. CASE _publish_publication_owned(p)
    <2> DEFINE j2 == [j EXCEPT !.pc = "unit"]
               r2 == [r EXCEPT !.state = "published",
                       !.op = NoOwner, !.opLive = FALSE]
    <2>1. Fits(j2, r2, k)
      <3>1. j2 \in Job
        BY <1>1, TypeSets DEF Job
      <3>2. r2 \in PubRow
        BY <1>1, TypeSets DEF PubRow, Proc
      <3>q. QED BY <1>1, <3>1, <3>2 DEF Fits
    <2>2. Writes(p, q, j2, r2, k, p)
      <3>1. pub' = [pub EXCEPT ![q] = r2]
        BY <1>8 DEF _publish_publication_owned, Goto, SetPub
      <3>2. proc' = [proc EXCEPT ![p] = j2] /\ guard' = p
        BY <1>8, <1>1 DEF _publish_publication_owned, Goto, GuardedPc, IInv, TypeOK
      <3>3. queue' = [queue EXCEPT ![q] = k]
        BY <1>8, <1>1 DEF _publish_publication_owned, Goto, SetQueue, IInv, TypeOK
      <3>4. Rest
        BY <1>8, <1>1 DEF _publish_publication_owned, Goto, Rest, IInv, TypeOK
      <3>q. QED BY <1>1, <3>1, <3>2, <3>3, <3>4 DEF Writes
    <2>3. Keeps(p, q, j2, r2, k, p)
      BY <1>8, <1>1 DEF _publish_publication_owned, Goto, OperationFree, Loaded,
         Keeps, RowInv, PlaceInv, Knows, QueueRow, PubRow, Job, Proc, GuardedPc,
         Active, PreCommit, PostCommit
    <2>q. QED
      BY <2>1, <2>2, <2>3, LockedUpdate
  <1>9. CASE PublishBlocked(p)
    <2> DEFINE j2 == [j EXCEPT !.pc = "unit"]
               r2 == [r EXCEPT !.decision = "compensate",
                       !.op = NoOwner, !.opLive = FALSE]
    <2>1. Fits(j2, r2, k)
      <3>1. j2 \in Job
        BY <1>1, TypeSets DEF Job
      <3>2. r2 \in PubRow
        BY <1>1, TypeSets DEF PubRow, Proc
      <3>q. QED BY <1>1, <3>1, <3>2 DEF Fits
    <2>2. Writes(p, q, j2, r2, k, p)
      <3>1. pub' = [pub EXCEPT ![q] = r2]
        BY <1>9 DEF PublishBlocked, Fault, Goto, SetPub
      <3>2. proc' = [proc EXCEPT ![p] = j2] /\ guard' = p
        BY <1>9, <1>1 DEF PublishBlocked, Fault, Goto, GuardedPc, IInv, TypeOK
      <3>3. queue' = [queue EXCEPT ![q] = k]
        BY <1>9, <1>1 DEF PublishBlocked, Fault, Goto, SetQueue, IInv, TypeOK
      <3>4. Rest
        BY <1>9, <1>1 DEF PublishBlocked, Fault, Goto, Rest, IInv, TypeOK
      <3>q. QED BY <1>1, <3>1, <3>2, <3>3, <3>4 DEF Writes
    <2>3. Keeps(p, q, j2, r2, k, p)
      BY <1>9, <1>1 DEF PublishBlocked, Fault, Goto, OperationFree, Loaded, Keeps,
         RowInv, PlaceInv, Knows, QueueRow, PubRow, Job, Proc, GuardedPc, Active,
         PreCommit, PostCommit
    <2>q. QED
      BY <2>1, <2>2, <2>3, LockedUpdate
  <1>10. CASE CommitPublication(p)
    <2>5. PICK s \in {"partial", "imported"} : SetQueue(q, Released(s))
            /\ SetPub(q, [r EXCEPT !.state = "db_committed", !.decision = "commit",
                       !.result = s, !.op = NoOwner, !.opLive = FALSE])
      BY <1>10 DEF CommitPublication
    <2> DEFINE r2 == [r EXCEPT !.state = "db_committed", !.decision = "commit",
                              !.result = s, !.op = NoOwner, !.opLive = FALSE]
               k2 == Released(s)
    <2>1. Fits(j, r2, k2)
      <3>1. r2 \in PubRow
        BY <1>1, <2>5, TypeSets DEF PubRow, Proc
      <3>2. k2 \in QueueRow
        BY <1>1, <2>5, TypeSets DEF QueueRow, Released
      <3>q. QED BY <1>1, <3>1, <3>2 DEF Fits
    <2>2. Writes(p, q, j, r2, k2, p)
      <3>1. pub' = [pub EXCEPT ![q] = r2]
        BY <1>10, <2>5 DEF CommitPublication, Entered, Released, SetPub
      <3>2. proc' = [proc EXCEPT ![p] = j] /\ guard' = p
        BY <1>10, <2>5, <1>1 DEF CommitPublication, Entered, Released, GuardedPc,
           IInv, TypeOK
      <3>3. queue' = [queue EXCEPT ![q] = k2]
        BY <1>10, <2>5, <1>1 DEF CommitPublication, Entered, Released, SetQueue,
           IInv, TypeOK
      <3>4. Rest
        BY <1>10, <2>5, <1>1 DEF CommitPublication, Entered, Released, Rest, IInv,
           TypeOK
      <3>q. QED BY <1>1, <3>1, <3>2, <3>3, <3>4 DEF Writes
    <2>3. Keeps(p, q, j, r2, k2, p)
      BY <1>10, <2>5, <1>1 DEF CommitPublication, Entered, Released, OperationFree,
         Loaded, Keeps, RowInv, PlaceInv, Knows, QueueRow, PubRow, Job, Proc,
         GuardedPc, Active, PreCommit, PostCommit
    <2>q. QED
      BY <2>1, <2>2, <2>3, LockedUpdate
  <1>11. CASE AdmissionChanged(p)
    <2> DEFINE j2 == [j EXCEPT !.pc = "compensate"]
               r2 == [r EXCEPT !.decision = "compensate", !.op = p, !.opLive = TRUE]
    <2>1. Fits(j2, r2, k)
      <3>1. j2 \in Job
        BY <1>1, TypeSets DEF Job
      <3>2. r2 \in PubRow
        BY <1>1, TypeSets DEF PubRow, Proc
      <3>q. QED BY <1>1, <3>1, <3>2 DEF Fits
    <2>2. Writes(p, q, j2, r2, k, p)
      <3>1. pub' = [pub EXCEPT ![q] = r2]
        BY <1>11 DEF AdmissionChanged, Entered, Goto, SetPub
      <3>2. proc' = [proc EXCEPT ![p] = j2] /\ guard' = p
        BY <1>11, <1>1 DEF AdmissionChanged, Entered, Goto, GuardedPc, IInv, TypeOK
      <3>3. queue' = [queue EXCEPT ![q] = k]
        BY <1>11, <1>1 DEF AdmissionChanged, Entered, Goto, SetQueue, IInv, TypeOK
      <3>4. Rest
        BY <1>11, <1>1 DEF AdmissionChanged, Entered, Goto, Rest, IInv, TypeOK
      <3>q. QED BY <1>1, <3>1, <3>2, <3>3, <3>4 DEF Writes
    <2>3. Keeps(p, q, j2, r2, k, p)
      BY <1>11, <1>1 DEF AdmissionChanged, Entered, Goto, OperationFree, Loaded,
         Keeps, RowInv, PlaceInv, Knows, QueueRow, PubRow, Job, Proc, GuardedPc,
         Active, PreCommit, PostCommit
    <2>q. QED
      BY <2>1, <2>2, <2>3, LockedUpdate
  <1>12. CASE ResumeCompensation(p)
    <2> DEFINE j2 == [j EXCEPT !.pc = "compensate"]
               r2 == [r EXCEPT !.state = "published", !.op = p, !.opLive = TRUE]
    <2>1. Fits(j2, r2, k)
      <3>1. j2 \in Job
        BY <1>1, TypeSets DEF Job
      <3>2. r2 \in PubRow
        BY <1>1, TypeSets DEF PubRow, Proc
      <3>q. QED BY <1>1, <3>1, <3>2 DEF Fits
    <2>2. Writes(p, q, j2, r2, k, p)
      <3>1. pub' = [pub EXCEPT ![q] = r2]
        BY <1>12 DEF ResumeCompensation, Entered, Claimed, Goto, SetPub
      <3>2. proc' = [proc EXCEPT ![p] = j2] /\ guard' = p
        BY <1>12, <1>1 DEF ResumeCompensation, Entered, Claimed, Goto, GuardedPc,
           IInv, TypeOK
      <3>3. queue' = [queue EXCEPT ![q] = k]
        BY <1>12, <1>1 DEF ResumeCompensation, Entered, Claimed, Goto, SetQueue,
           IInv, TypeOK
      <3>4. Rest
        BY <1>12, <1>1 DEF ResumeCompensation, Entered, Claimed, Goto, Rest, IInv,
           TypeOK
      <3>q. QED BY <1>1, <3>1, <3>2, <3>3, <3>4 DEF Writes
    <2>3. Keeps(p, q, j2, r2, k, p)
      BY <1>12, <1>1 DEF ResumeCompensation, Entered, Claimed, Goto, OperationFree,
         Loaded, Keeps, RowInv, PlaceInv, Knows, QueueRow, PubRow, Job, Proc,
         GuardedPc, Active, PreCommit, PostCommit
    <2>q. QED
      BY <2>1, <2>2, <2>3, LockedUpdate
  <1>13. CASE CompensateFiles(p)
    <2> DEFINE j2 == [j EXCEPT !.pc = "compensated"]
               r2 == [r EXCEPT !.decision = "compensated", !.stage = "discarded"]
    <2>1. Fits(j2, r2, k)
      <3>1. j2 \in Job
        BY <1>1, TypeSets DEF Job
      <3>2. r2 \in PubRow
        BY <1>1, TypeSets DEF PubRow, Proc
      <3>q. QED BY <1>1, <3>1, <3>2 DEF Fits
    <2>2. Writes(p, q, j2, r2, k, p)
      <3>1. pub' = [pub EXCEPT ![q] = r2]
        BY <1>13 DEF CompensateFiles, Goto, SetPub
      <3>2. proc' = [proc EXCEPT ![p] = j2] /\ guard' = p
        BY <1>13, <1>1 DEF CompensateFiles, Goto, GuardedPc, IInv, TypeOK
      <3>3. queue' = [queue EXCEPT ![q] = k]
        BY <1>13, <1>1 DEF CompensateFiles, Goto, SetQueue, IInv, TypeOK
      <3>4. Rest
        BY <1>13, <1>1 DEF CompensateFiles, Goto, Rest, IInv, TypeOK
      <3>q. QED BY <1>1, <3>1, <3>2, <3>3, <3>4 DEF Writes
    <2>3. Keeps(p, q, j2, r2, k, p)
      BY <1>13, <1>1 DEF CompensateFiles, Goto, OperationFree, Loaded, Keeps,
         RowInv, PlaceInv, Knows, QueueRow, PubRow, Job, Proc, GuardedPc, Active,
         PreCommit, PostCommit
    <2>q. QED
      BY <2>1, <2>2, <2>3, LockedUpdate
  <1>14. CASE _compensate_publication(p)
    <2> DEFINE j2 == Ended(p)
               r2 == [r EXCEPT !.state = "finalized", !.result = "failed",
                       !.op = NoOwner, !.opLive = FALSE]
               k2 == IF k.status = "importing" THEN Released("failed") ELSE k
    <2>1. Fits(j2, r2, k2)
      <3>1. j2 \in Job
        BY <1>1, TypeSets DEF Job, Ended, Idle
      <3>2. r2 \in PubRow
        BY <1>1, TypeSets DEF PubRow, Proc
      <3>3. k2 \in QueueRow
        BY <1>1, TypeSets DEF QueueRow, Released
      <3>q. QED BY <1>1, <3>1, <3>2, <3>3 DEF Fits
    <2>2. Writes(p, q, j2, r2, k2, NoOwner)
      <3>1. pub' = [pub EXCEPT ![q] = r2]
        BY <1>14 DEF _compensate_publication, Released, LeaveUnit, Retire, EndUnit,
           Ended, Idle, SetPub
      <3>2. proc' = [proc EXCEPT ![p] = j2] /\ guard' = NoOwner
        BY <1>14, <1>1 DEF _compensate_publication, Released, LeaveUnit, Retire,
           EndUnit, Ended, Idle, IInv, TypeOK
      <3>3. queue' = [queue EXCEPT ![q] = k2]
        BY <1>14, <1>1 DEF _compensate_publication, Released, LeaveUnit, Retire,
           EndUnit, Ended, Idle, SetQueue, IInv, TypeOK
      <3>4. Rest
        BY <1>14, <1>1 DEF _compensate_publication, Released, LeaveUnit, Retire,
           EndUnit, Ended, Idle, Rest, IInv, TypeOK
      <3>q. QED BY <1>1, <3>1, <3>2, <3>3, <3>4 DEF Writes
    <2>3. Keeps(p, q, j2, r2, k2, NoOwner)
      BY <1>14, <1>1 DEF _compensate_publication, Released, LeaveUnit, Retire,
         EndUnit, Ended, Idle, OperationFree, Loaded, Keeps, RowInv, PlaceInv,
         Knows, QueueRow, PubRow, Job, Proc, GuardedPc, Active, PreCommit,
         PostCommit
    <2>q. QED
      BY <2>1, <2>2, <2>3, LockedUpdate
  <1>15. CASE claim_publication_cleanup(p)
    <2> DEFINE j2 == [j EXCEPT !.pc = "cleanup"]
               r2 == [r EXCEPT !.state = "cleaning", !.op = p, !.opLive = TRUE]
    <2>1. Fits(j2, r2, k)
      <3>1. j2 \in Job
        BY <1>1, TypeSets DEF Job
      <3>2. r2 \in PubRow
        BY <1>1, TypeSets DEF PubRow, Proc
      <3>q. QED BY <1>1, <3>1, <3>2 DEF Fits
    <2>2. Writes(p, q, j2, r2, k, p)
      <3>1. pub' = [pub EXCEPT ![q] = r2]
        BY <1>15 DEF claim_publication_cleanup, Entered, Claimed, Goto, SetPub
      <3>2. proc' = [proc EXCEPT ![p] = j2] /\ guard' = p
        BY <1>15, <1>1 DEF claim_publication_cleanup, Entered, Claimed, Goto,
           GuardedPc, IInv, TypeOK
      <3>3. queue' = [queue EXCEPT ![q] = k]
        BY <1>15, <1>1 DEF claim_publication_cleanup, Entered, Claimed, Goto,
           SetQueue, IInv, TypeOK
      <3>4. Rest
        BY <1>15, <1>1 DEF claim_publication_cleanup, Entered, Claimed, Goto, Rest,
           IInv, TypeOK
      <3>q. QED BY <1>1, <3>1, <3>2, <3>3, <3>4 DEF Writes
    <2>3. Keeps(p, q, j2, r2, k, p)
      BY <1>15, <1>1 DEF claim_publication_cleanup, Entered, Claimed, Goto,
         OperationFree, Loaded, Keeps, RowInv, PlaceInv, Knows, QueueRow, PubRow,
         Job, Proc, GuardedPc, Active, PreCommit, PostCommit
    <2>q. QED
      BY <2>1, <2>2, <2>3, LockedUpdate
  <1>16. CASE finalize_publication(p)
    <2>1. CASE r.result = "imported"
      <3> DEFINE j2 == Ended(p)
                 r2 == [r EXCEPT !.state = "deleted", !.stage = "discarded",
                         !.op = NoOwner, !.opLive = FALSE]
                 k2 == Released("deleted")
      <3>1. Fits(j2, r2, k2)
        <4>1. j2 \in Job
          BY <1>1, <2>1, TypeSets DEF Job, Ended, Idle
        <4>2. r2 \in PubRow
          BY <1>1, <2>1, TypeSets DEF PubRow, Proc
        <4>3. k2 \in QueueRow
          BY <1>1, <2>1, TypeSets DEF QueueRow, Released
        <4>q. QED BY <1>1, <4>1, <4>2, <4>3 DEF Fits
      <3>2. Writes(p, q, j2, r2, k2, NoOwner)
        <4>1. pub' = [pub EXCEPT ![q] = r2]
          BY <1>16, <2>1 DEF finalize_publication, Released, LeaveUnit, Retire,
             EndUnit, Ended, Idle, SetPub
        <4>2. proc' = [proc EXCEPT ![p] = j2] /\ guard' = NoOwner
          BY <1>16, <2>1, <1>1 DEF finalize_publication, Released, LeaveUnit,
             Retire, EndUnit, Ended, Idle, IInv, TypeOK
        <4>3. queue' = [queue EXCEPT ![q] = k2]
          BY <1>16, <2>1, <1>1 DEF finalize_publication, Released, LeaveUnit,
             Retire, EndUnit, Ended, Idle, SetQueue, IInv, TypeOK
        <4>4. Rest
          BY <1>16, <2>1, <1>1 DEF finalize_publication, Released, LeaveUnit,
             Retire, EndUnit, Ended, Idle, Rest, IInv, TypeOK
        <4>q. QED BY <1>1, <4>1, <4>2, <4>3, <4>4 DEF Writes
      <3>3. Keeps(p, q, j2, r2, k2, NoOwner)
        BY <1>16, <2>1, <1>1 DEF finalize_publication, Released, LeaveUnit, Retire,
           EndUnit, Ended, Idle, OperationFree, Loaded, Keeps, RowInv, PlaceInv,
           Knows, QueueRow, PubRow, Job, Proc, GuardedPc, Active, PreCommit,
           PostCommit
      <3>q. QED
        BY <3>1, <3>2, <3>3, LockedUpdate
    <2>2. CASE r.result # "imported"
      <3> DEFINE j2 == Ended(p)
                 r2 == [r EXCEPT !.state = "finalized", !.stage = "discarded",
                         !.op = NoOwner, !.opLive = FALSE]
      <3>1. Fits(j2, r2, k)
        <4>1. j2 \in Job
          BY <1>1, <2>2, TypeSets DEF Job, Ended, Idle
        <4>2. r2 \in PubRow
          BY <1>1, <2>2, TypeSets DEF PubRow, Proc
        <4>q. QED BY <1>1, <4>1, <4>2 DEF Fits
      <3>2. Writes(p, q, j2, r2, k, NoOwner)
        <4>1. pub' = [pub EXCEPT ![q] = r2]
          BY <1>16, <2>2 DEF finalize_publication, Released, LeaveUnit, Retire,
             EndUnit, Ended, Idle, SetPub
        <4>2. proc' = [proc EXCEPT ![p] = j2] /\ guard' = NoOwner
          BY <1>16, <2>2, <1>1 DEF finalize_publication, Released, LeaveUnit,
             Retire, EndUnit, Ended, Idle, IInv, TypeOK
        <4>3. queue' = [queue EXCEPT ![q] = k]
          BY <1>16, <2>2, <1>1 DEF finalize_publication, Released, LeaveUnit,
             Retire, EndUnit, Ended, Idle, SetQueue, IInv, TypeOK
        <4>4. Rest
          BY <1>16, <2>2, <1>1 DEF finalize_publication, Released, LeaveUnit,
             Retire, EndUnit, Ended, Idle, Rest, IInv, TypeOK
        <4>q. QED BY <1>1, <4>1, <4>2, <4>3, <4>4 DEF Writes
      <3>3. Keeps(p, q, j2, r2, k, NoOwner)
        BY <1>16, <2>2, <1>1 DEF finalize_publication, Released, LeaveUnit, Retire,
           EndUnit, Ended, Idle, OperationFree, Loaded, Keeps, RowInv, PlaceInv,
           Knows, QueueRow, PubRow, Job, Proc, GuardedPc, Active, PreCommit,
           PostCommit
      <3>q. QED
        BY <3>1, <3>2, <3>3, LockedUpdate
    <2>q. QED BY <2>1, <2>2
  <1>q. QED BY <1>2, <1>3, <1>4, <1>5, <1>6, <1>7, <1>8, <1>9, <1>10, <1>11, <1>12,
     <1>13, <1>14, <1>15, <1>16 DEF UnitStep

\* The abort of a stage, by an attempt or by the replay, preserves IInv.
LEMMA AbortStepIInv ==
  ASSUME IInv, NEW p \in Proc, AbortStep(p) PROVE IInv'
  <1> DEFINE q == proc[p].q
             r == pub[q]
             k == queue[q]
             j == proc[p]
  <1> USE PipelineAssumption
  <1>0. p \in Proc /\ j.pc \notin {"idle", "done", "pass"}
    BY DEF Proc, AbortStep, AbortEnter, AbortRefused, AbortDiscarding,
       AbortDiscarded, AbortRetained, abort_staging_publication, StageRecord
  <1>1. /\ p \in Proc /\ q \in Queue /\ j \in Job /\ r \in PubRow /\ k \in QueueRow
        /\ j.id \in Worker /\ RowInv(r, k) /\ PlaceInv(p, j, guard)
        /\ j.pc \in GuardedPc => guard = p /\ Knows(p, j, r)
    BY <1>0, Here
  <1>2. CASE AbortEnter(p)
    <2>1. CASE p = Replay
      <3> DEFINE j2 == [j EXCEPT !.pc = "abort"]
                 r2 == [r EXCEPT !.op = p, !.opLive = TRUE]
      <3>1. Fits(j2, r2, k)
        <4>1. j2 \in Job
          BY <1>1, <2>1, TypeSets DEF Job
        <4>2. r2 \in PubRow
          BY <1>1, <2>1, TypeSets DEF PubRow, Proc
        <4>q. QED BY <1>1, <4>1, <4>2 DEF Fits
      <3>2. Writes(p, q, j2, r2, k, p)
        <4>1. pub' = [pub EXCEPT ![q] = r2]
          BY <1>2, <2>1 DEF AbortEnter, MayAbort, Goto, SetPub
        <4>2. proc' = [proc EXCEPT ![p] = j2] /\ guard' = p
          BY <1>2, <2>1, <1>1 DEF AbortEnter, MayAbort, Goto, GuardedPc, IInv, TypeOK
        <4>3. queue' = [queue EXCEPT ![q] = k]
          BY <1>2, <2>1, <1>1 DEF AbortEnter, MayAbort, Goto, SetQueue, IInv, TypeOK
        <4>4. Rest
          BY <1>2, <2>1, <1>1 DEF AbortEnter, MayAbort, Goto, Rest, IInv, TypeOK
        <4>q. QED BY <1>1, <4>1, <4>2, <4>3, <4>4 DEF Writes
      <3>3. Keeps(p, q, j2, r2, k, p)
        BY <1>2, <2>1, <1>1 DEF AbortEnter, MayAbort, Goto, OperationFree, Loaded,
           Keeps, RowInv, PlaceInv, Knows, QueueRow, PubRow, Job, Proc, GuardedPc,
           Active, PreCommit, PostCommit
      <3>q. QED
        BY <3>1, <3>2, <3>3, LockedUpdate
    <2>2. CASE p # Replay
      <3> DEFINE j2 == [j EXCEPT !.pc = "abort"]
      <3>1. Fits(j2, r, k)
        BY <1>1, TypeSets DEF Fits, QueueRow, PubRow, Job, Proc
      <3>2. Writes(p, q, j2, r, k, p)
        BY <1>2, <2>2, <1>1 DEF AbortEnter, MayAbort, Goto, SetPub, SetQueue,
           Writes, Rest, IInv, TypeOK
      <3>3. Keeps(p, q, j2, r, k, p)
        BY <1>2, <2>2, <1>1 DEF AbortEnter, MayAbort, Goto, OperationFree, Loaded,
           Keeps, RowInv, PlaceInv, Knows, QueueRow, PubRow, Job, Proc, GuardedPc,
           Active, PreCommit, PostCommit
      <3>q. QED
        BY <3>1, <3>2, <3>3, LockedUpdate
    <2>q. QED BY <2>1, <2>2
  <1>3. CASE AbortRefused(p)
    <2>1. CASE EndUnit(p) /\ p = Replay
      <3> DEFINE j2 == Ended(p)
      <3>1. Fits(j2, r, k)
        BY <1>1, TypeSets DEF Fits, QueueRow, PubRow, Job, Proc, Ended, Idle
      <3>2. Writes(p, q, j2, r, k, guard)
        BY <1>3, <2>1, <1>1 DEF AbortRefused, AbortFailed, Goto, EndUnit, Ended,
           Idle, SetPub, SetQueue, Writes, Rest, IInv, TypeOK
      <3>3. KeepsOut(p, q, j2, r, k, guard)
        BY <1>3, <2>1, <1>1 DEF AbortRefused, AbortFailed, Goto, EndUnit, Ended,
           Idle, OperationFree, Loaded, KeepsOut, RowInv, PlaceInv, Knows, QueueRow,
           PubRow, Job, Proc, GuardedPc, Active, PreCommit, PostCommit
      <3>q. QED
        BY <3>1, <3>2, <3>3, UnlockedUpdate
    <2>2. CASE Goto(p, "failing") /\ p # Replay
      <3> DEFINE j2 == [j EXCEPT !.pc = "failing"]
      <3>1. Fits(j2, r, k)
        BY <1>1, TypeSets DEF Fits, QueueRow, PubRow, Job, Proc
      <3>2. Writes(p, q, j2, r, k, guard)
        BY <1>3, <2>2, <1>1 DEF AbortRefused, AbortFailed, Goto, EndUnit, Ended,
           Idle, SetPub, SetQueue, Writes, Rest, IInv, TypeOK
      <3>3. KeepsOut(p, q, j2, r, k, guard)
        BY <1>3, <2>2, <1>1 DEF AbortRefused, AbortFailed, Goto, EndUnit, Ended,
           Idle, OperationFree, Loaded, KeepsOut, RowInv, PlaceInv, Knows, QueueRow,
           PubRow, Job, Proc, GuardedPc, Active, PreCommit, PostCommit
      <3>q. QED
        BY <3>1, <3>2, <3>3, UnlockedUpdate
    <2>3. CASE Goto(p, "cancelling") /\ p # Replay
      <3> DEFINE j2 == [j EXCEPT !.pc = "cancelling"]
      <3>1. Fits(j2, r, k)
        BY <1>1, TypeSets DEF Fits, QueueRow, PubRow, Job, Proc
      <3>2. Writes(p, q, j2, r, k, guard)
        BY <1>3, <2>3, <1>1 DEF AbortRefused, AbortFailed, Goto, EndUnit, Ended,
           Idle, SetPub, SetQueue, Writes, Rest, IInv, TypeOK
      <3>3. KeepsOut(p, q, j2, r, k, guard)
        BY <1>3, <2>3, <1>1 DEF AbortRefused, AbortFailed, Goto, EndUnit, Ended,
           Idle, OperationFree, Loaded, KeepsOut, RowInv, PlaceInv, Knows, QueueRow,
           PubRow, Job, Proc, GuardedPc, Active, PreCommit, PostCommit
      <3>q. QED
        BY <3>1, <3>2, <3>3, UnlockedUpdate
    <2>q. QED BY <1>3, <1>1, <2>1, <2>2, <2>3 DEF AbortRefused, AbortFailed, Goto,
       EndUnit, Ended, Idle
  <1>4. CASE AbortDiscarding(p)
    <2> DEFINE j2 == [j EXCEPT !.pc = "discarding"]
               r2 == [r EXCEPT !.stage = "discarding"]
    <2>1. Fits(j2, r2, k)
      <3>1. j2 \in Job
        BY <1>1, TypeSets DEF Job
      <3>2. r2 \in PubRow
        BY <1>1, TypeSets DEF PubRow, Proc
      <3>q. QED BY <1>1, <3>1, <3>2 DEF Fits
    <2>2. Writes(p, q, j2, r2, k, p)
      <3>1. pub' = [pub EXCEPT ![q] = r2]
        BY <1>4 DEF AbortDiscarding, StageRecord, Goto, SetPub
      <3>2. proc' = [proc EXCEPT ![p] = j2] /\ guard' = p
        BY <1>4, <1>1 DEF AbortDiscarding, StageRecord, Goto, GuardedPc, IInv, TypeOK
      <3>3. queue' = [queue EXCEPT ![q] = k]
        BY <1>4, <1>1 DEF AbortDiscarding, StageRecord, Goto, SetQueue, IInv, TypeOK
      <3>4. Rest
        BY <1>4, <1>1 DEF AbortDiscarding, StageRecord, Goto, Rest, IInv, TypeOK
      <3>q. QED BY <1>1, <3>1, <3>2, <3>3, <3>4 DEF Writes
    <2>3. Keeps(p, q, j2, r2, k, p)
      BY <1>4, <1>1 DEF AbortDiscarding, StageRecord, Goto, OperationFree, Loaded,
         Keeps, RowInv, PlaceInv, Knows, QueueRow, PubRow, Job, Proc, GuardedPc,
         Active, PreCommit, PostCommit
    <2>q. QED
      BY <2>1, <2>2, <2>3, LockedUpdate
  <1>5. CASE AbortDiscarded(p)
    <2> DEFINE j2 == [j EXCEPT !.pc = "discarded"]
               r2 == [r EXCEPT !.stage = "discarded"]
    <2>1. Fits(j2, r2, k)
      <3>1. j2 \in Job
        BY <1>1, TypeSets DEF Job
      <3>2. r2 \in PubRow
        BY <1>1, TypeSets DEF PubRow, Proc
      <3>q. QED BY <1>1, <3>1, <3>2 DEF Fits
    <2>2. Writes(p, q, j2, r2, k, p)
      <3>1. pub' = [pub EXCEPT ![q] = r2]
        BY <1>5 DEF AbortDiscarded, StageRecord, Goto, SetPub
      <3>2. proc' = [proc EXCEPT ![p] = j2] /\ guard' = p
        BY <1>5, <1>1 DEF AbortDiscarded, StageRecord, Goto, GuardedPc, IInv, TypeOK
      <3>3. queue' = [queue EXCEPT ![q] = k]
        BY <1>5, <1>1 DEF AbortDiscarded, StageRecord, Goto, SetQueue, IInv, TypeOK
      <3>4. Rest
        BY <1>5, <1>1 DEF AbortDiscarded, StageRecord, Goto, Rest, IInv, TypeOK
      <3>q. QED BY <1>1, <3>1, <3>2, <3>3, <3>4 DEF Writes
    <2>3. Keeps(p, q, j2, r2, k, p)
      BY <1>5, <1>1 DEF AbortDiscarded, StageRecord, Goto, OperationFree, Loaded,
         Keeps, RowInv, PlaceInv, Knows, QueueRow, PubRow, Job, Proc, GuardedPc,
         Active, PreCommit, PostCommit
    <2>q. QED
      BY <2>1, <2>2, <2>3, LockedUpdate
  <1>6. CASE AbortRetained(p)
    <2>1. CASE EndUnit(p) /\ p = Replay
      <3> DEFINE j2 == Ended(p)
                 r2 == [r EXCEPT !.op = NoOwner, !.opLive = FALSE]
      <3>1. Fits(j2, r2, k)
        <4>1. j2 \in Job
          BY <1>1, <2>1, TypeSets DEF Job, Ended, Idle
        <4>2. r2 \in PubRow
          BY <1>1, <2>1, TypeSets DEF PubRow, Proc
        <4>q. QED BY <1>1, <4>1, <4>2 DEF Fits
      <3>2. Writes(p, q, j2, r2, k, NoOwner)
        <4>1. pub' = [pub EXCEPT ![q] = r2]
          BY <1>6, <2>1 DEF AbortRetained, AbortFailed, Fault, Goto, EndUnit, Ended,
             Idle, SetPub
        <4>2. proc' = [proc EXCEPT ![p] = j2] /\ guard' = NoOwner
          BY <1>6, <2>1, <1>1 DEF AbortRetained, AbortFailed, Fault, Goto, EndUnit,
             Ended, Idle, IInv, TypeOK
        <4>3. queue' = [queue EXCEPT ![q] = k]
          BY <1>6, <2>1, <1>1 DEF AbortRetained, AbortFailed, Fault, Goto, EndUnit,
             Ended, Idle, SetQueue, IInv, TypeOK
        <4>4. Rest
          BY <1>6, <2>1, <1>1 DEF AbortRetained, AbortFailed, Fault, Goto, EndUnit,
             Ended, Idle, Rest, IInv, TypeOK
        <4>q. QED BY <1>1, <4>1, <4>2, <4>3, <4>4 DEF Writes
      <3>3. Keeps(p, q, j2, r2, k, NoOwner)
        BY <1>6, <2>1, <1>1 DEF AbortRetained, AbortFailed, Fault, Goto, EndUnit,
           Ended, Idle, OperationFree, Loaded, Keeps, RowInv, PlaceInv, Knows,
           QueueRow, PubRow, Job, Proc, GuardedPc, Active, PreCommit, PostCommit
      <3>q. QED
        BY <3>1, <3>2, <3>3, LockedUpdate
    <2>2. CASE Goto(p, "failing") /\ p # Replay
      <3> DEFINE j2 == [j EXCEPT !.pc = "failing"]
      <3>1. Fits(j2, r, k)
        BY <1>1, TypeSets DEF Fits, QueueRow, PubRow, Job, Proc
      <3>2. Writes(p, q, j2, r, k, NoOwner)
        BY <1>6, <2>2, <1>1 DEF AbortRetained, AbortFailed, Fault, Goto, EndUnit,
           Ended, Idle, SetPub, SetQueue, Writes, Rest, IInv, TypeOK
      <3>3. Keeps(p, q, j2, r, k, NoOwner)
        BY <1>6, <2>2, <1>1 DEF AbortRetained, AbortFailed, Fault, Goto, EndUnit,
           Ended, Idle, OperationFree, Loaded, Keeps, RowInv, PlaceInv, Knows,
           QueueRow, PubRow, Job, Proc, GuardedPc, Active, PreCommit, PostCommit
      <3>q. QED
        BY <3>1, <3>2, <3>3, LockedUpdate
    <2>3. CASE Goto(p, "cancelling") /\ p # Replay
      <3> DEFINE j2 == [j EXCEPT !.pc = "cancelling"]
      <3>1. Fits(j2, r, k)
        BY <1>1, TypeSets DEF Fits, QueueRow, PubRow, Job, Proc
      <3>2. Writes(p, q, j2, r, k, NoOwner)
        BY <1>6, <2>3, <1>1 DEF AbortRetained, AbortFailed, Fault, Goto, EndUnit,
           Ended, Idle, SetPub, SetQueue, Writes, Rest, IInv, TypeOK
      <3>3. Keeps(p, q, j2, r, k, NoOwner)
        BY <1>6, <2>3, <1>1 DEF AbortRetained, AbortFailed, Fault, Goto, EndUnit,
           Ended, Idle, OperationFree, Loaded, Keeps, RowInv, PlaceInv, Knows,
           QueueRow, PubRow, Job, Proc, GuardedPc, Active, PreCommit, PostCommit
      <3>q. QED
        BY <3>1, <3>2, <3>3, LockedUpdate
    <2>q. QED BY <1>6, <1>1, <2>1, <2>2, <2>3 DEF AbortRetained, AbortFailed, Fault,
       Goto, EndUnit, Ended, Idle
  <1>7. CASE abort_staging_publication(p)
    <2>1. ASSUME NEW s \in {"pending", "partial"}, p = Replay, EndUnit(p),
                 SetQueue(q, IF k.status = "importing" THEN Released(s) ELSE k)
          PROVE  IInv'
      <3> DEFINE j2 == Ended(p)
                 r2 == NoPub
                 k2 == IF k.status = "importing" THEN Released(s) ELSE k
      <3>1. Fits(j2, r2, k2)
        <4>1. j2 \in Job
          BY <1>1, <2>1, TypeSets DEF Job, Ended, Idle
        <4>2. r2 \in PubRow
          BY <1>1, <2>1, TypeSets DEF PubRow, Proc, NoPub
        <4>3. k2 \in QueueRow
          BY <1>1, <2>1, TypeSets DEF QueueRow, Released
        <4>q. QED BY <1>1, <4>1, <4>2, <4>3 DEF Fits
      <3>2. Writes(p, q, j2, r2, k2, NoOwner)
        <4>1. pub' = [pub EXCEPT ![q] = r2]
          BY <1>7, <2>1 DEF abort_staging_publication, Goto, Released, NoPub, After,
             EndUnit, Ended, Idle, SetPub
        <4>2. proc' = [proc EXCEPT ![p] = j2] /\ guard' = NoOwner
          BY <1>7, <2>1, <1>1 DEF abort_staging_publication, Goto, Released, NoPub,
             After, EndUnit, Ended, Idle, IInv, TypeOK
        <4>3. queue' = [queue EXCEPT ![q] = k2]
          BY <1>7, <2>1, <1>1 DEF abort_staging_publication, Goto, Released, NoPub,
             After, EndUnit, Ended, Idle, SetQueue, IInv, TypeOK
        <4>4. Rest
          BY <1>7, <2>1, <1>1 DEF abort_staging_publication, Goto, Released, NoPub,
             After, EndUnit, Ended, Idle, Rest, IInv, TypeOK
        <4>q. QED BY <1>1, <4>1, <4>2, <4>3, <4>4 DEF Writes
      <3>3. Keeps(p, q, j2, r2, k2, NoOwner)
        BY <1>7, <2>1, <1>1 DEF abort_staging_publication, Goto, Released, NoPub,
           After, EndUnit, Ended, Idle, OperationFree, Loaded, Keeps, RowInv,
           PlaceInv, Knows, QueueRow, PubRow, Job, Proc, GuardedPc, Active,
           PreCommit, PostCommit
      <3>q. QED
        BY <3>1, <3>2, <3>3, LockedUpdate
    <2>2. CASE p # Replay
      <3> DEFINE j2 == [j EXCEPT !.pc = j.after]
                 r2 == NoPub
      <3>1. Fits(j2, r2, k)
        <4>1. j2 \in Job
          BY <1>1, <2>2, TypeSets DEF Job
        <4>2. r2 \in PubRow
          BY <1>1, <2>2, TypeSets DEF PubRow, Proc, NoPub
        <4>q. QED BY <1>1, <4>1, <4>2 DEF Fits
      <3>2. Writes(p, q, j2, r2, k, NoOwner)
        <4>1. pub' = [pub EXCEPT ![q] = r2]
          BY <1>7, <2>2 DEF abort_staging_publication, Goto, Released, NoPub, After,
             EndUnit, Ended, Idle, SetPub
        <4>2. proc' = [proc EXCEPT ![p] = j2] /\ guard' = NoOwner
          BY <1>7, <2>2, <1>1 DEF abort_staging_publication, Goto, Released, NoPub,
             After, EndUnit, Ended, Idle, IInv, TypeOK
        <4>3. queue' = [queue EXCEPT ![q] = k]
          BY <1>7, <2>2, <1>1 DEF abort_staging_publication, Goto, Released, NoPub,
             After, EndUnit, Ended, Idle, SetQueue, IInv, TypeOK
        <4>4. Rest
          BY <1>7, <2>2, <1>1 DEF abort_staging_publication, Goto, Released, NoPub,
             After, EndUnit, Ended, Idle, Rest, IInv, TypeOK
        <4>q. QED BY <1>1, <4>1, <4>2, <4>3, <4>4 DEF Writes
      <3>3. Keeps(p, q, j2, r2, k, NoOwner)
        BY <1>7, <2>2, <1>1 DEF abort_staging_publication, Goto, Released, NoPub,
           After, EndUnit, Ended, Idle, OperationFree, Loaded, Keeps, RowInv,
           PlaceInv, Knows, QueueRow, PubRow, Job, Proc, GuardedPc, Active,
           PreCommit, PostCommit
      <3>q. QED
        BY <3>1, <3>2, <3>3, LockedUpdate
    <2>q. QED BY <1>7, <1>1, <2>1, <2>2 DEF abort_staging_publication, Goto,
       Released, NoPub, After, EndUnit, Ended, Idle
  <1>q. QED BY <1>2, <1>3, <1>4, <1>5, <1>6, <1>7 DEF AbortStep

\* The steps of an attempt preserve IInv; commit_prepared_barrier writes the
\* journal outside the lock, but only a row that no lock holder is working on.
LEMMA AttemptStepIInv ==
  ASSUME IInv, NEW w \in Worker, AttemptStep(w) \/ Cancel(w) PROVE IInv'
  <1> DEFINE q == proc[w].q
             r == pub[q]
             k == queue[q]
             j == proc[w]
  <1> USE PipelineAssumption
  <1>0. w \in Proc /\ j.pc \notin {"idle", "done", "pass"}
    BY DEF Proc, AttemptStep, PlanImport, CommitWithoutPublication,
       create_publication, CreateRefused, BindStageCarrier, ConfirmPublication,
       StageBegin, StageEnd, StageRefused, RefreshBeforeBarrier,
       prepare_staged_artifacts, commit_prepared_barrier, SettleAttempt, Cancel
  <1>1. /\ w \in Proc /\ q \in Queue /\ j \in Job /\ r \in PubRow /\ k \in QueueRow
        /\ j.id \in Worker /\ RowInv(r, k) /\ PlaceInv(w, j, guard)
        /\ j.pc \in GuardedPc => guard = w /\ Knows(w, j, r)
    BY <1>0, Here
  <1>2. CASE PlanImport(w)
    <2>1. CASE OwnsLiveLease(q, w) /\ Goto(w, "planned") /\ UNCHANGED queue
      <3> DEFINE j2 == [j EXCEPT !.pc = "planned"]
      <3>1. Fits(j2, r, k)
        BY <1>1, TypeSets DEF Fits, QueueRow, PubRow, Job, Proc
      <3>2. Writes(w, q, j2, r, k, guard)
        BY <1>2, <2>1, <1>1 DEF PlanImport, Goto, OwnsLiveLease, CanTransition,
           ActivePublication, Released, EndUnit, Ended, Idle, SetPub, SetQueue,
           Writes, Rest, IInv, TypeOK
      <3>3. KeepsOut(w, q, j2, r, k, guard)
        BY <1>2, <2>1, <1>1 DEF PlanImport, Goto, OwnsLiveLease, CanTransition,
           ActivePublication, Released, EndUnit, Ended, Idle, OperationFree, Loaded,
           KeepsOut, RowInv, PlaceInv, Knows, QueueRow, PubRow, Job, Proc,
           GuardedPc, Active, PreCommit, PostCommit
      <3>q. QED
        BY <3>1, <3>2, <3>3, UnlockedUpdate
    <2>2. ASSUME NEW s \in {"failed", "pending", "partial"}, SetQueue(q, Released(s)),
                 EndUnit(w), CanTransition(w)
          PROVE  IInv'
      <3> DEFINE j2 == Ended(w)
                 k2 == Released(s)
      <3>1. Fits(j2, r, k2)
        <4>1. j2 \in Job
          BY <1>1, <2>2, TypeSets DEF Job, Ended, Idle
        <4>2. k2 \in QueueRow
          BY <1>1, <2>2, TypeSets DEF QueueRow, Released
        <4>q. QED BY <1>1, <4>1, <4>2 DEF Fits
      <3>2. Writes(w, q, j2, r, k2, guard)
        BY <1>2, <2>2, <1>1 DEF PlanImport, Goto, OwnsLiveLease, CanTransition,
           ActivePublication, Released, EndUnit, Ended, Idle, SetPub, SetQueue,
           Writes, Rest, IInv, TypeOK
      <3>3. KeepsOut(w, q, j2, r, k2, guard)
        BY <1>2, <2>2, <1>1 DEF PlanImport, Goto, OwnsLiveLease, CanTransition,
           ActivePublication, Released, EndUnit, Ended, Idle, OperationFree, Loaded,
           KeepsOut, RowInv, PlaceInv, Knows, QueueRow, PubRow, Job, Proc,
           GuardedPc, Active, PreCommit, PostCommit
      <3>q. QED
        BY <3>1, <3>2, <3>3, UnlockedUpdate
    <2>3. CASE EndUnit(w) /\ UNCHANGED queue
      <3> DEFINE j2 == Ended(w)
      <3>1. Fits(j2, r, k)
        BY <1>1, TypeSets DEF Fits, QueueRow, PubRow, Job, Proc, Ended, Idle
      <3>2. Writes(w, q, j2, r, k, guard)
        BY <1>2, <2>3, <1>1 DEF PlanImport, Goto, OwnsLiveLease, CanTransition,
           ActivePublication, Released, EndUnit, Ended, Idle, SetPub, SetQueue,
           Writes, Rest, IInv, TypeOK
      <3>3. KeepsOut(w, q, j2, r, k, guard)
        BY <1>2, <2>3, <1>1 DEF PlanImport, Goto, OwnsLiveLease, CanTransition,
           ActivePublication, Released, EndUnit, Ended, Idle, OperationFree, Loaded,
           KeepsOut, RowInv, PlaceInv, Knows, QueueRow, PubRow, Job, Proc,
           GuardedPc, Active, PreCommit, PostCommit
      <3>q. QED
        BY <3>1, <3>2, <3>3, UnlockedUpdate
    <2>q. QED BY <1>2, <1>1, <2>1, <2>2, <2>3 DEF PlanImport, Goto, OwnsLiveLease,
       CanTransition, ActivePublication, Released, EndUnit, Ended, Idle
  <1>3. CASE CommitWithoutPublication(w)
    <2>1. ASSUME NEW s \in {"failed", "partial", "deleted"}, SetQueue(q, Released(s)),
                 EndUnit(w), CanTransition(w)
          PROVE  IInv'
      <3> DEFINE j2 == Ended(w)
                 k2 == Released(s)
      <3>1. Fits(j2, r, k2)
        <4>1. j2 \in Job
          BY <1>1, <2>1, TypeSets DEF Job, Ended, Idle
        <4>2. k2 \in QueueRow
          BY <1>1, <2>1, TypeSets DEF QueueRow, Released
        <4>q. QED BY <1>1, <4>1, <4>2 DEF Fits
      <3>2. Writes(w, q, j2, r, k2, guard)
        BY <1>3, <2>1, <1>1 DEF CommitWithoutPublication, OwnsLiveLease,
           CanTransition, ActivePublication, Released, EndUnit, Ended, Idle, SetPub,
           SetQueue, Writes, Rest, IInv, TypeOK
      <3>3. KeepsOut(w, q, j2, r, k2, guard)
        BY <1>3, <2>1, <1>1 DEF CommitWithoutPublication, OwnsLiveLease,
           CanTransition, ActivePublication, Released, EndUnit, Ended, Idle,
           OperationFree, Loaded, KeepsOut, RowInv, PlaceInv, Knows, QueueRow,
           PubRow, Job, Proc, GuardedPc, Active, PreCommit, PostCommit
      <3>q. QED
        BY <3>1, <3>2, <3>3, UnlockedUpdate
    <2>2. CASE EndUnit(w) /\ UNCHANGED queue
      <3> DEFINE j2 == Ended(w)
      <3>1. Fits(j2, r, k)
        BY <1>1, TypeSets DEF Fits, QueueRow, PubRow, Job, Proc, Ended, Idle
      <3>2. Writes(w, q, j2, r, k, guard)
        BY <1>3, <2>2, <1>1 DEF CommitWithoutPublication, OwnsLiveLease,
           CanTransition, ActivePublication, Released, EndUnit, Ended, Idle, SetPub,
           SetQueue, Writes, Rest, IInv, TypeOK
      <3>3. KeepsOut(w, q, j2, r, k, guard)
        BY <1>3, <2>2, <1>1 DEF CommitWithoutPublication, OwnsLiveLease,
           CanTransition, ActivePublication, Released, EndUnit, Ended, Idle,
           OperationFree, Loaded, KeepsOut, RowInv, PlaceInv, Knows, QueueRow,
           PubRow, Job, Proc, GuardedPc, Active, PreCommit, PostCommit
      <3>q. QED
        BY <3>1, <3>2, <3>3, UnlockedUpdate
    <2>q. QED BY <1>3, <1>1, <2>1, <2>2 DEF CommitWithoutPublication, OwnsLiveLease,
       CanTransition, ActivePublication, Released, EndUnit, Ended, Idle
  <1>4. CASE create_publication(w)
    <2> DEFINE j2 == [j EXCEPT !.pc = "binding"]
               r2 == [id |-> w, state |-> "staging",
               stage |-> "allocating", decision |-> "pending",
               result |-> "none", op |-> NoOwner, opLive |-> FALSE]
    <2>1. Fits(j2, r2, k)
      <3>1. j2 \in Job
        BY <1>1, TypeSets DEF Job
      <3>2. r2 \in PubRow
        BY <1>1, TypeSets DEF PubRow, Proc
      <3>q. QED BY <1>1, <3>1, <3>2 DEF Fits
    <2>2. Writes(w, q, j2, r2, k, w)
      <3>1. pub' = [pub EXCEPT ![q] = r2]
        BY <1>4 DEF create_publication, Goto, OwnsLiveLease, SetPub
      <3>2. proc' = [proc EXCEPT ![w] = j2] /\ guard' = w
        BY <1>4, <1>1 DEF create_publication, Goto, OwnsLiveLease, GuardedPc, IInv,
           TypeOK
      <3>3. queue' = [queue EXCEPT ![q] = k]
        BY <1>4, <1>1 DEF create_publication, Goto, OwnsLiveLease, SetQueue, IInv,
           TypeOK
      <3>4. Rest
        BY <1>4, <1>1 DEF create_publication, Goto, OwnsLiveLease, Rest, IInv, TypeOK
      <3>q. QED BY <1>1, <3>1, <3>2, <3>3, <3>4 DEF Writes
    <2>3. Keeps(w, q, j2, r2, k, w)
      BY <1>4, <1>1 DEF create_publication, Goto, OwnsLiveLease, OperationFree,
         Loaded, Keeps, RowInv, PlaceInv, Knows, QueueRow, PubRow, Job, Proc,
         GuardedPc, Active, PreCommit, PostCommit
    <2>q. QED
      BY <2>1, <2>2, <2>3, LockedUpdate
  <1>5. CASE CreateRefused(w)
    <2> DEFINE j2 == [j EXCEPT !.pc = "failing"]
    <2>1. Fits(j2, r, k)
      BY <1>1, TypeSets DEF Fits, QueueRow, PubRow, Job, Proc
    <2>2. Writes(w, q, j2, r, k, guard)
      BY <1>5, <1>1 DEF CreateRefused, Goto, Fault, SetPub, SetQueue, Writes, Rest,
         IInv, TypeOK
    <2>3. KeepsOut(w, q, j2, r, k, guard)
      BY <1>5, <1>1 DEF CreateRefused, Goto, Fault, OperationFree, Loaded, KeepsOut,
         RowInv, PlaceInv, Knows, QueueRow, PubRow, Job, Proc, GuardedPc, Active,
         PreCommit, PostCommit
    <2>q. QED
      BY <2>1, <2>2, <2>3, UnlockedUpdate
  <1>6. CASE BindStageCarrier(w)
    <2>1. CASE Goto(w, "bound") /\ SetPub(q, [r EXCEPT !.stage = "ready"])
      <3> DEFINE j2 == [j EXCEPT !.pc = "bound"]
                 r2 == [r EXCEPT !.stage = "ready"]
      <3>1. Fits(j2, r2, k)
        <4>1. j2 \in Job
          BY <1>1, <2>1, TypeSets DEF Job
        <4>2. r2 \in PubRow
          BY <1>1, <2>1, TypeSets DEF PubRow, Proc
        <4>q. QED BY <1>1, <4>1, <4>2 DEF Fits
      <3>2. Writes(w, q, j2, r2, k, NoOwner)
        <4>1. pub' = [pub EXCEPT ![q] = r2]
          BY <1>6, <2>1 DEF BindStageCarrier, Goto, Fault, SetPub
        <4>2. proc' = [proc EXCEPT ![w] = j2] /\ guard' = NoOwner
          BY <1>6, <2>1, <1>1 DEF BindStageCarrier, Goto, Fault, IInv, TypeOK
        <4>3. queue' = [queue EXCEPT ![q] = k]
          BY <1>6, <2>1, <1>1 DEF BindStageCarrier, Goto, Fault, SetQueue, IInv,
             TypeOK
        <4>4. Rest
          BY <1>6, <2>1, <1>1 DEF BindStageCarrier, Goto, Fault, Rest, IInv, TypeOK
        <4>q. QED BY <1>1, <4>1, <4>2, <4>3, <4>4 DEF Writes
      <3>3. Keeps(w, q, j2, r2, k, NoOwner)
        BY <1>6, <2>1, <1>1 DEF BindStageCarrier, Goto, Fault, OperationFree,
           Loaded, Keeps, RowInv, PlaceInv, Knows, QueueRow, PubRow, Job, Proc,
           GuardedPc, Active, PreCommit, PostCommit
      <3>q. QED
        BY <3>1, <3>2, <3>3, LockedUpdate
    <2>2. CASE Goto(w, "failing") /\ UNCHANGED pub
      <3> DEFINE j2 == [j EXCEPT !.pc = "failing"]
      <3>1. Fits(j2, r, k)
        BY <1>1, TypeSets DEF Fits, QueueRow, PubRow, Job, Proc
      <3>2. Writes(w, q, j2, r, k, NoOwner)
        BY <1>6, <2>2, <1>1 DEF BindStageCarrier, Goto, Fault, SetPub, SetQueue,
           Writes, Rest, IInv, TypeOK
      <3>3. Keeps(w, q, j2, r, k, NoOwner)
        BY <1>6, <2>2, <1>1 DEF BindStageCarrier, Goto, Fault, OperationFree,
           Loaded, Keeps, RowInv, PlaceInv, Knows, QueueRow, PubRow, Job, Proc,
           GuardedPc, Active, PreCommit, PostCommit
      <3>q. QED
        BY <3>1, <3>2, <3>3, LockedUpdate
    <2>q. QED BY <1>6, <1>1, <2>1, <2>2 DEF BindStageCarrier, Goto, Fault
  <1>7. CASE ConfirmPublication(w)
    <2>1. CASE Goto(w, "staging")
      <3> DEFINE j2 == [j EXCEPT !.pc = "staging"]
      <3>1. Fits(j2, r, k)
        BY <1>1, TypeSets DEF Fits, QueueRow, PubRow, Job, Proc
      <3>2. Writes(w, q, j2, r, k, guard)
        BY <1>7, <2>1, <1>1 DEF ConfirmPublication, Goto, AbortThen, SetPub,
           SetQueue, Writes, Rest, IInv, TypeOK
      <3>3. KeepsOut(w, q, j2, r, k, guard)
        BY <1>7, <2>1, <1>1 DEF ConfirmPublication, Goto, AbortThen, OperationFree,
           Loaded, KeepsOut, RowInv, PlaceInv, Knows, QueueRow, PubRow, Job, Proc,
           GuardedPc, Active, PreCommit, PostCommit
      <3>q. QED
        BY <3>1, <3>2, <3>3, UnlockedUpdate
    <2>2. CASE AbortThen(w, "failing")
      <3> DEFINE j2 == [j EXCEPT !.pc = "aborting", !.after = "failing"]
      <3>1. Fits(j2, r, k)
        BY <1>1, TypeSets DEF Fits, QueueRow, PubRow, Job, Proc
      <3>2. Writes(w, q, j2, r, k, guard)
        BY <1>7, <2>2, <1>1 DEF ConfirmPublication, Goto, AbortThen, SetPub,
           SetQueue, Writes, Rest, IInv, TypeOK
      <3>3. KeepsOut(w, q, j2, r, k, guard)
        BY <1>7, <2>2, <1>1 DEF ConfirmPublication, Goto, AbortThen, OperationFree,
           Loaded, KeepsOut, RowInv, PlaceInv, Knows, QueueRow, PubRow, Job, Proc,
           GuardedPc, Active, PreCommit, PostCommit
      <3>q. QED
        BY <3>1, <3>2, <3>3, UnlockedUpdate
    <2>q. QED BY <1>7, <1>1, <2>1, <2>2 DEF ConfirmPublication, Goto, AbortThen
  <1>8. CASE StageBegin(w)
    <2> DEFINE j2 == [j EXCEPT !.pc = "transform"]
    <2>1. Fits(j2, r, k)
      BY <1>1, TypeSets DEF Fits, QueueRow, PubRow, Job, Proc
    <2>2. Writes(w, q, j2, r, k, w)
      BY <1>8, <1>1 DEF StageBegin, Goto, SetPub, SetQueue, Writes, Rest, IInv, TypeOK
    <2>3. Keeps(w, q, j2, r, k, w)
      BY <1>8, <1>1 DEF StageBegin, Goto, OperationFree, Loaded, Keeps, RowInv,
         PlaceInv, Knows, QueueRow, PubRow, Job, Proc, GuardedPc, Active, PreCommit,
         PostCommit
    <2>q. QED
      BY <2>1, <2>2, <2>3, LockedUpdate
  <1>9. CASE StageEnd(w)
    <2>1. CASE Goto(w, "staged")
      <3> DEFINE j2 == [j EXCEPT !.pc = "staged"]
      <3>1. Fits(j2, r, k)
        BY <1>1, TypeSets DEF Fits, QueueRow, PubRow, Job, Proc
      <3>2. Writes(w, q, j2, r, k, NoOwner)
        BY <1>9, <2>1, <1>1 DEF StageEnd, Goto, AbortThen, Fault, SetPub, SetQueue,
           Writes, Rest, IInv, TypeOK
      <3>3. Keeps(w, q, j2, r, k, NoOwner)
        BY <1>9, <2>1, <1>1 DEF StageEnd, Goto, AbortThen, Fault, OperationFree,
           Loaded, Keeps, RowInv, PlaceInv, Knows, QueueRow, PubRow, Job, Proc,
           GuardedPc, Active, PreCommit, PostCommit
      <3>q. QED
        BY <3>1, <3>2, <3>3, LockedUpdate
    <2>2. CASE AbortThen(w, "failCommit")
      <3> DEFINE j2 == [j EXCEPT !.pc = "aborting", !.after = "failCommit"]
      <3>1. Fits(j2, r, k)
        BY <1>1, TypeSets DEF Fits, QueueRow, PubRow, Job, Proc
      <3>2. Writes(w, q, j2, r, k, NoOwner)
        BY <1>9, <2>2, <1>1 DEF StageEnd, Goto, AbortThen, Fault, SetPub, SetQueue,
           Writes, Rest, IInv, TypeOK
      <3>3. Keeps(w, q, j2, r, k, NoOwner)
        BY <1>9, <2>2, <1>1 DEF StageEnd, Goto, AbortThen, Fault, OperationFree,
           Loaded, Keeps, RowInv, PlaceInv, Knows, QueueRow, PubRow, Job, Proc,
           GuardedPc, Active, PreCommit, PostCommit
      <3>q. QED
        BY <3>1, <3>2, <3>3, LockedUpdate
    <2>q. QED BY <1>9, <1>1, <2>1, <2>2 DEF StageEnd, Goto, AbortThen, Fault
  <1>10. CASE StageRefused(w)
    <2> DEFINE j2 == [j EXCEPT !.pc = "aborting", !.after = "failCommit"]
    <2>1. Fits(j2, r, k)
      BY <1>1, TypeSets DEF Fits, QueueRow, PubRow, Job, Proc
    <2>2. Writes(w, q, j2, r, k, guard)
      BY <1>10, <1>1 DEF StageRefused, AbortThen, SetPub, SetQueue, Writes, Rest,
         IInv, TypeOK
    <2>3. KeepsOut(w, q, j2, r, k, guard)
      BY <1>10, <1>1 DEF StageRefused, AbortThen, OperationFree, Loaded, KeepsOut,
         RowInv, PlaceInv, Knows, QueueRow, PubRow, Job, Proc, GuardedPc, Active,
         PreCommit, PostCommit
    <2>q. QED
      BY <2>1, <2>2, <2>3, UnlockedUpdate
  <1>11. CASE RefreshBeforeBarrier(w)
    <2>1. CASE Goto(w, "refreshed")
      <3> DEFINE j2 == [j EXCEPT !.pc = "refreshed"]
      <3>1. Fits(j2, r, k)
        BY <1>1, TypeSets DEF Fits, QueueRow, PubRow, Job, Proc
      <3>2. Writes(w, q, j2, r, k, guard)
        BY <1>11, <2>1, <1>1 DEF RefreshBeforeBarrier, Goto, AbortThen, SetPub,
           SetQueue, Writes, Rest, IInv, TypeOK
      <3>3. KeepsOut(w, q, j2, r, k, guard)
        BY <1>11, <2>1, <1>1 DEF RefreshBeforeBarrier, Goto, AbortThen,
           OperationFree, Loaded, KeepsOut, RowInv, PlaceInv, Knows, QueueRow,
           PubRow, Job, Proc, GuardedPc, Active, PreCommit, PostCommit
      <3>q. QED
        BY <3>1, <3>2, <3>3, UnlockedUpdate
    <2>2. CASE AbortThen(w, "done")
      <3> DEFINE j2 == [j EXCEPT !.pc = "aborting", !.after = "done"]
      <3>1. Fits(j2, r, k)
        BY <1>1, TypeSets DEF Fits, QueueRow, PubRow, Job, Proc
      <3>2. Writes(w, q, j2, r, k, guard)
        BY <1>11, <2>2, <1>1 DEF RefreshBeforeBarrier, Goto, AbortThen, SetPub,
           SetQueue, Writes, Rest, IInv, TypeOK
      <3>3. KeepsOut(w, q, j2, r, k, guard)
        BY <1>11, <2>2, <1>1 DEF RefreshBeforeBarrier, Goto, AbortThen,
           OperationFree, Loaded, KeepsOut, RowInv, PlaceInv, Knows, QueueRow,
           PubRow, Job, Proc, GuardedPc, Active, PreCommit, PostCommit
      <3>q. QED
        BY <3>1, <3>2, <3>3, UnlockedUpdate
    <2>q. QED BY <1>11, <1>1, <2>1, <2>2 DEF RefreshBeforeBarrier, Goto, AbortThen
  <1>12. CASE prepare_staged_artifacts(w)
    <2>1. CASE Goto(w, "artifacts")
      <3> DEFINE j2 == [j EXCEPT !.pc = "artifacts"]
      <3>1. Fits(j2, r, k)
        BY <1>1, TypeSets DEF Fits, QueueRow, PubRow, Job, Proc
      <3>2. Writes(w, q, j2, r, k, guard)
        BY <1>12, <2>1, <1>1 DEF prepare_staged_artifacts, Goto, AbortThen, SetPub,
           SetQueue, Writes, Rest, IInv, TypeOK
      <3>3. KeepsOut(w, q, j2, r, k, guard)
        BY <1>12, <2>1, <1>1 DEF prepare_staged_artifacts, Goto, AbortThen,
           OperationFree, Loaded, KeepsOut, RowInv, PlaceInv, Knows, QueueRow,
           PubRow, Job, Proc, GuardedPc, Active, PreCommit, PostCommit
      <3>q. QED
        BY <3>1, <3>2, <3>3, UnlockedUpdate
    <2>2. CASE AbortThen(w, "failing")
      <3> DEFINE j2 == [j EXCEPT !.pc = "aborting", !.after = "failing"]
      <3>1. Fits(j2, r, k)
        BY <1>1, TypeSets DEF Fits, QueueRow, PubRow, Job, Proc
      <3>2. Writes(w, q, j2, r, k, guard)
        BY <1>12, <2>2, <1>1 DEF prepare_staged_artifacts, Goto, AbortThen, SetPub,
           SetQueue, Writes, Rest, IInv, TypeOK
      <3>3. KeepsOut(w, q, j2, r, k, guard)
        BY <1>12, <2>2, <1>1 DEF prepare_staged_artifacts, Goto, AbortThen,
           OperationFree, Loaded, KeepsOut, RowInv, PlaceInv, Knows, QueueRow,
           PubRow, Job, Proc, GuardedPc, Active, PreCommit, PostCommit
      <3>q. QED
        BY <3>1, <3>2, <3>3, UnlockedUpdate
    <2>q. QED BY <1>12, <1>1, <2>1, <2>2 DEF prepare_staged_artifacts, Goto, AbortThen
  <1>13. CASE commit_prepared_barrier(w)
    <2>1. CASE Loaded(w) /\ r.state = "staging" /\ r.op = NoOwner
      <3> DEFINE j2 == [j EXCEPT !.pc = "completing"]
                  r2 == [r EXCEPT !.state = "prepared"]
      <3>1. /\ pub' = [pub EXCEPT ![q] = r2] /\ proc' = [proc EXCEPT ![w] = j2]
            /\ guard' = guard /\ queue' = queue /\ Rest
        BY <1>13, <2>1 DEF commit_prepared_barrier, Goto, SetPub, Rest, IInv, TypeOK
      <3>2. r2 \in PubRow /\ j2 \in Job
        BY <1>1, TypeSets DEF PubRow, Job
      <3>3. j.pc = "artifacts" /\ r.id = w
        BY <1>13, <2>1, <1>1 DEF commit_prepared_barrier, Loaded, PlaceInv
      <3>4. TypeOK'
        BY <3>1, <3>2, <1>1 DEF IInv, TypeOK, Rest
      <3>5. Rows'
        <4>1. RowInv(r2, k)
          BY <1>1, <2>1 DEF RowInv, PubRow, Active, PreCommit, PostCommit
        <4>q. QED BY <4>1, <3>1, <1>1 DEF IInv, TypeOK, Rows
      <3>6. Places'
        <4>1. PlaceInv(w, j2, guard)
          BY <1>1, <3>3 DEF PlaceInv, Job, GuardedPc
        <4>q. QED BY <4>1, <3>1, <1>1 DEF IInv, TypeOK, Places
      <3>7. Knowledge'
        <4> SUFFICES ASSUME NEW s \in Proc, proc'[s].pc \in GuardedPc
                     PROVE  proc'[s].q \in Queue /\ Knows(s, proc'[s], pub'[proc'[s].q])
          BY DEF Knowledge
        <4>1. s # w /\ proc'[s] = proc[s]
          BY <3>1, <1>1 DEF IInv, TypeOK, GuardedPc, Job
        <4>2. proc[s].q \in Queue /\ Knows(s, proc[s], pub[proc[s].q])
              /\ PlaceInv(s, proc[s], guard)
          BY <4>1 DEF IInv, Knowledge, Places
        <4>3. CASE proc[s].q # q
          BY <4>1, <4>2, <4>3, <3>1, <1>1 DEF IInv, TypeOK
        <4>4. CASE proc[s].q = q
          <5>1. pub'[q] = r2
            BY <3>1, <1>1 DEF IInv, TypeOK
          <5>2. proc[s].pc \notin {"binding", "abort", "discarding", "discarded"}
            BY <4>1, <4>2, <4>4, <3>3, <2>1, <1>1 DEF Knows, PlaceInv, Proc
          <5>3. proc[s].pc \notin {"publish", "compensate", "compensated", "cleanup"}
            BY <4>1, <4>2, <4>4, <2>1, <1>1 DEF Knows, Proc
          <5>q. QED BY <5>1, <5>2, <5>3, <4>1, <4>2, <4>4 DEF Knows
        <4>q. QED BY <4>3, <4>4
      <3>q. QED BY <3>4, <3>5, <3>6, <3>7 DEF IInv
    <2>2. CASE ~(Loaded(w) /\ r.state = "staging" /\ r.op = NoOwner)
      <3> DEFINE j2 == [j EXCEPT !.pc = "aborting", !.after = "failing"]
      <3>1. Fits(j2, r, k)
        BY <1>1, TypeSets DEF Fits, QueueRow, PubRow, Job, Proc
      <3>2. Writes(w, q, j2, r, k, guard)
        BY <1>13, <2>2, <1>1 DEF commit_prepared_barrier, Goto, AbortThen, SetPub,
           SetQueue, Writes, Rest, IInv, TypeOK
      <3>3. KeepsOut(w, q, j2, r, k, guard)
        BY <1>13, <2>2, <1>1 DEF commit_prepared_barrier, Goto, AbortThen,
           OperationFree, Loaded, KeepsOut, RowInv, PlaceInv, Knows, QueueRow,
           PubRow, Job, Proc, GuardedPc, Active, PreCommit, PostCommit
      <3>q. QED
        BY <3>1, <3>2, <3>3, UnlockedUpdate
    <2>q. QED BY <1>13, <1>1, <2>1, <2>2 DEF commit_prepared_barrier, Goto, AbortThen
  <1>14. CASE SettleAttempt(w)
    <2>1. ASSUME NEW s \in {"failed", "pending", "partial"}, SetQueue(q, Released(s)),
                 EndUnit(w), CanTransition(w)
          PROVE  IInv'
      <3> DEFINE j2 == Ended(w)
                 k2 == Released(s)
      <3>1. Fits(j2, r, k2)
        <4>1. j2 \in Job
          BY <1>1, <2>1, TypeSets DEF Job, Ended, Idle
        <4>2. k2 \in QueueRow
          BY <1>1, <2>1, TypeSets DEF QueueRow, Released
        <4>q. QED BY <1>1, <4>1, <4>2 DEF Fits
      <3>2. Writes(w, q, j2, r, k2, guard)
        BY <1>14, <2>1, <1>1 DEF SettleAttempt, OwnsLiveLease, CanTransition,
           ActivePublication, Released, EndUnit, Ended, Idle, SetPub, SetQueue,
           Writes, Rest, IInv, TypeOK
      <3>3. KeepsOut(w, q, j2, r, k2, guard)
        BY <1>14, <2>1, <1>1 DEF SettleAttempt, OwnsLiveLease, CanTransition,
           ActivePublication, Released, EndUnit, Ended, Idle, OperationFree, Loaded,
           KeepsOut, RowInv, PlaceInv, Knows, QueueRow, PubRow, Job, Proc,
           GuardedPc, Active, PreCommit, PostCommit
      <3>q. QED
        BY <3>1, <3>2, <3>3, UnlockedUpdate
    <2>2. CASE EndUnit(w) /\ UNCHANGED queue
      <3> DEFINE j2 == Ended(w)
      <3>1. Fits(j2, r, k)
        BY <1>1, TypeSets DEF Fits, QueueRow, PubRow, Job, Proc, Ended, Idle
      <3>2. Writes(w, q, j2, r, k, guard)
        BY <1>14, <2>2, <1>1 DEF SettleAttempt, OwnsLiveLease, CanTransition,
           ActivePublication, Released, EndUnit, Ended, Idle, SetPub, SetQueue,
           Writes, Rest, IInv, TypeOK
      <3>3. KeepsOut(w, q, j2, r, k, guard)
        BY <1>14, <2>2, <1>1 DEF SettleAttempt, OwnsLiveLease, CanTransition,
           ActivePublication, Released, EndUnit, Ended, Idle, OperationFree, Loaded,
           KeepsOut, RowInv, PlaceInv, Knows, QueueRow, PubRow, Job, Proc,
           GuardedPc, Active, PreCommit, PostCommit
      <3>q. QED
        BY <3>1, <3>2, <3>3, UnlockedUpdate
    <2>q. QED BY <1>14, <1>1, <2>1, <2>2 DEF SettleAttempt, OwnsLiveLease,
       CanTransition, ActivePublication, Released, EndUnit, Ended, Idle
  <1>15. CASE Cancel(w)
    <2>1. CASE Goto(w, "cancelling")
      <3> DEFINE j2 == [j EXCEPT !.pc = "cancelling"]
      <3>1. Fits(j2, r, k)
        BY <1>1, TypeSets DEF Fits, QueueRow, PubRow, Job, Proc
      <3>2. Writes(w, q, j2, r, k, guard)
        BY <1>15, <2>1, <1>1 DEF Cancel, Goto, AbortThen, SetPub, SetQueue, Writes,
           Rest, IInv, TypeOK
      <3>3. KeepsOut(w, q, j2, r, k, guard)
        BY <1>15, <2>1, <1>1 DEF Cancel, Goto, AbortThen, OperationFree, Loaded,
           KeepsOut, RowInv, PlaceInv, Knows, QueueRow, PubRow, Job, Proc,
           GuardedPc, Active, PreCommit, PostCommit
      <3>q. QED
        BY <3>1, <3>2, <3>3, UnlockedUpdate
    <2>2. CASE AbortThen(w, "cancelling")
      <3> DEFINE j2 == [j EXCEPT !.pc = "aborting", !.after = "cancelling"]
      <3>1. Fits(j2, r, k)
        BY <1>1, TypeSets DEF Fits, QueueRow, PubRow, Job, Proc
      <3>2. Writes(w, q, j2, r, k, guard)
        BY <1>15, <2>2, <1>1 DEF Cancel, Goto, AbortThen, SetPub, SetQueue, Writes,
           Rest, IInv, TypeOK
      <3>3. KeepsOut(w, q, j2, r, k, guard)
        BY <1>15, <2>2, <1>1 DEF Cancel, Goto, AbortThen, OperationFree, Loaded,
           KeepsOut, RowInv, PlaceInv, Knows, QueueRow, PubRow, Job, Proc,
           GuardedPc, Active, PreCommit, PostCommit
      <3>q. QED
        BY <3>1, <3>2, <3>3, UnlockedUpdate
    <2>q. QED BY <1>15, <1>1, <2>1, <2>2 DEF Cancel, Goto, AbortThen
  <1>q. QED BY <1>2, <1>3, <1>4, <1>5, <1>6, <1>7, <1>8, <1>9, <1>10, <1>11, <1>12,
     <1>13, <1>14, <1>15 DEF AttemptStep


\* A step that writes one queue row preserves IInv if the row still agrees
\* with its journal.
LEMMA QueueUpdate ==
  ASSUME IInv, NEW q \in Queue, NEW k \in QueueRow, SetQueue(q, k), QueueOnly,
         RowInv(pub[q], k)
  PROVE  IInv'
  <1> USE DEF IInv, SetQueue, QueueOnly
  <1>1. TypeOK'
    BY DEF TypeOK
  <1>2. Rows'
    BY DEF TypeOK, Rows
  <1>3. Places' /\ Knowledge'
    BY DEF Places, Knowledge
  <1>q. QED BY <1>1, <1>2, <1>3

\* A step that only moves a process between unguarded points preserves IInv.
LEMMA ProcUpdate ==
  ASSUME IInv, NEW p \in Proc, NEW j \in Job, proc' = [proc EXCEPT ![p] = j],
         proc[p].pc \notin GuardedPc, j.pc \notin GuardedPc, PlaceInv(p, j, guard),
         UNCHANGED <<queue, pub, guard>>, Rest
  PROVE  IInv'
  <1> USE DEF IInv
  <1>1. TypeOK'
    BY DEF TypeOK, Rest
  <1>2. Rows'
    BY DEF Rows
  <1>3. Places'
    BY DEF TypeOK, Places
  <1>4. Knowledge'
    BY DEF TypeOK, Knowledge
  <1>q. QED BY <1>1, <1>2, <1>3, <1>4

\* Discovery, the operators' requests and the sweeps preserve IInv: they leave
\* a row alone while a publication of it is active.
LEMMA QueueStepIInv ==
  ASSUME IInv, NEW q \in Queue, QueueStep(q) \/ ExpireImportLease(q) PROVE IInv'
  <1> DEFINE k == queue[q]
  <1>0. k \in QueueRow /\ pub[q] \in PubRow /\ RowInv(pub[q], k)
    BY DEF IInv, TypeOK, Rows
  <1>1. ASSUME NEW s \in QueueStatus, ~ActivePublication(q),
               \/ SetQueue(q, Released(s))
               \/ SetQueue(q, [k EXCEPT !.status = s]),
               QueueOnly
        PROVE  IInv'
    <2>1. Released(s) \in QueueRow /\ [k EXCEPT !.status = s] \in QueueRow
      BY <1>0 DEF Released, QueueRow
    <2>2. \A m : RowInv(pub[q], m)
      BY <1>0, <1>1 DEF RowInv, ActivePublication, Active, PreCommit, PostCommit,
         PubRow
    <2>q. QED BY <1>1, <2>1, <2>2, QueueUpdate
  <1>2. CASE Enqueue(q)
    <2>1. ~ActivePublication(q)
      BY <1>0, <1>2 DEF Enqueue, RowInv, ActivePublication, Active, PreCommit,
         PostCommit, PubRow
    <2>q. QED BY <1>1, <1>2, <2>1, TypeSets DEF Enqueue
  <1>3. CASE skip_import_queue_entry(q)
    BY <1>1, <1>3, TypeSets DEF skip_import_queue_entry, Unleased
  <1>4. CASE retry_import_queue_entry(q)
    BY <1>1, <1>4, TypeSets DEF retry_import_queue_entry, Unleased
  <1>5. CASE fail_stale_pending_import_queue_row(q)
    BY <1>1, <1>5, TypeSets DEF fail_stale_pending_import_queue_row, Unleased
  <1>6. CASE clear_inactive_import_queue_entries(q)
    BY <1>1, <1>6, TypeSets DEF clear_inactive_import_queue_entries, Unleased
  <1>7. CASE dismiss_import_queue_entry(q)
    BY <1>1, <1>7, TypeSets DEF dismiss_import_queue_entry, Unleased
  <1>8. CASE recover_expired_import_leases(q)
    BY <1>1, <1>8, TypeSets DEF recover_expired_import_leases
  <1>9. CASE ExpireImportLease(q)
    <2>1. [k EXCEPT !.live = FALSE] \in QueueRow
      BY <1>0 DEF QueueRow
    <2>2. RowInv(pub[q], [k EXCEPT !.live = FALSE])
      BY <1>0 DEF RowInv, QueueRow
    <2>q. QED BY <1>9, <2>1, <2>2, QueueUpdate DEF ExpireImportLease
  <1>10. CASE process_import(q)
    BY <1>1, <1>10, TypeSets DEF process_import, Unleased
  <1>q. QED
    BY <1>2, <1>3, <1>4, <1>5, <1>6, <1>7, <1>8, <1>9, <1>10 DEF QueueStep

\* An operation lease that runs out changes no fact of IInv: nothing in it
\* depends on the clock.
LEMMA ExpireOperationIInv ==
  ASSUME IInv, NEW q \in Queue, ExpireOperationLease(q) PROVE IInv'
  <1> DEFINE r2 == [pub[q] EXCEPT !.opLive = FALSE]
  <1>0. pub[q] \in PubRow /\ RowInv(pub[q], queue[q])
    BY DEF IInv, TypeOK, Rows
  <1>1. r2 \in PubRow /\ RowInv(r2, queue[q])
    BY <1>0 DEF PubRow, RowInv
  <1>2. pub' = [pub EXCEPT ![q] = r2] /\ UNCHANGED <<queue, proc, guard>> /\ Rest
    BY PipelineAssumption DEF ExpireOperationLease, SetPub, Fault, Rest, IInv, TypeOK
  <1>3. TypeOK'
    BY <1>1, <1>2 DEF IInv, TypeOK, Rest
  <1>4. Rows'
    BY <1>1, <1>2 DEF IInv, TypeOK, Rows
  <1>5. Places'
    BY <1>2 DEF IInv, Places
  <1>6. Knowledge'
    <2>1. \A p \in Proc, j \in Job : Knows(p, j, pub[q]) => Knows(p, j, r2)
      BY <1>0 DEF Knows, PubRow
    <2>q. QED BY <2>1, <1>2 DEF IInv, TypeOK, Knowledge
  <1>q. QED BY <1>3, <1>4, <1>5, <1>6 DEF IInv

\* A claim of a queue row preserves IInv.
LEMMA ClaimIInv ==
  ASSUME IInv, NEW w \in Worker, NEW q \in Queue, claim_import_queue_row(w, q)
  PROVE  IInv'
  <1> DEFINE j2 == [pc |-> "claimed", q |-> q, id |-> w, after |-> "done"]
             k2 == Leased(w)
  <1>0. w \in Proc /\ pub[q] \in PubRow /\ proc[w] \in Job
    BY DEF IInv, TypeOK, Proc
  <1>1. Fits(j2, pub[q], k2)
    BY <1>0, TypeSets DEF Fits, Job, QueueRow, Leased
  <1>2. Writes(w, q, j2, pub[q], k2, guard)
    BY <1>0 DEF claim_import_queue_row, SetQueue, Writes, Rest, IInv, TypeOK
  <1>3. KeepsOut(w, q, j2, pub[q], k2, guard)
    BY <1>0 DEF claim_import_queue_row, KeepsOut, RowInv, PlaceInv, ActivePublication,
       Active, PreCommit, PostCommit, PubRow, GuardedPc
  <1>q. QED BY <1>1, <1>2, <1>3, UnlockedUpdate

\* The replay loop's own bookkeeping preserves IInv.
LEMMA ReplayStepIInv ==
  ASSUME IInv, ReplayStep PROVE IInv'
  <1>0. Replay \in Proc /\ Replay \notin Worker /\ proc[Replay] \in Job
    BY PipelineAssumption DEF IInv, TypeOK, Proc
  <1>1. CASE StartPass
    <2> DEFINE j2 == [proc[Replay] EXCEPT !.pc = "pass"]
    <2>1. j2 \in Job
      BY <1>0, TypeSets DEF Job
    <2>2. proc' = [proc EXCEPT ![Replay] = j2] /\ UNCHANGED <<queue, pub, guard>> /\ Rest
      BY <1>1 DEF StartPass, Goto, Rest, IInv, TypeOK
    <2>3. /\ proc[Replay].pc \notin GuardedPc /\ j2.pc \notin GuardedPc
          /\ PlaceInv(Replay, j2, guard)
      BY <1>0, <1>1 DEF StartPass, PlaceInv, GuardedPc, Job
    <2>q. QED BY <1>0, <2>1, <2>2, <2>3, ProcUpdate
  <1>2. ASSUME NEW q \in Queue, PickPublication(q) PROVE IInv'
    <2> DEFINE j2 == IF ~ActivePublication(q) THEN [Idle EXCEPT !.pc = "pass"]
                     ELSE [pc |-> IF pub[q].state = "staging" THEN "aborting"
                                                              ELSE "completing",
                           q |-> q, id |-> pub[q].id, after |-> "done"]
    <2>0. ActivePublication(q) => pub[q].id \in Worker
      BY DEF IInv, Rows, RowInv, ActivePublication
    <2>1. j2 \in Job
      BY <1>0, <2>0, TypeSets DEF Job, Idle
    <2>2. proc' = [proc EXCEPT ![Replay] = j2] /\ UNCHANGED <<queue, pub, guard>> /\ Rest
      BY <1>2 DEF PickPublication, Rest, IInv, TypeOK
    <2>3. /\ proc[Replay].pc \notin GuardedPc /\ j2.pc \notin GuardedPc
          /\ PlaceInv(Replay, j2, guard)
      BY <1>0, <1>2, <2>0 DEF PickPublication, PlaceInv, GuardedPc, Idle
    <2>q. QED BY <1>0, <2>1, <2>2, <2>3, ProcUpdate
  <1>3. CASE EndPass
    <2>1. Idle \in Job
      BY TypeSets DEF Job, Idle
    <2>2. proc' = [proc EXCEPT ![Replay] = Idle] /\ UNCHANGED <<queue, pub, guard>> /\ Rest
      BY <1>3 DEF EndPass, Rest, IInv, TypeOK
    <2>3. /\ proc[Replay].pc \notin GuardedPc /\ Idle.pc \notin GuardedPc
          /\ PlaceInv(Replay, Idle, guard)
      BY <1>0, <1>3 DEF EndPass, PlaceInv, GuardedPc, Idle
    <2>q. QED BY <1>0, <2>1, <2>2, <2>3, ProcUpdate
  <1>q. QED BY <1>1, <1>2, <1>3 DEF ReplayStep

\* A crash leaves no process at a guarded point, and the rows as they were but
\* for the name of a replay's token.
LEMMA CrashIInv ==
  ASSUME IInv, Crash PROVE IInv'
  <1> USE PipelineAssumption
  <1> DEFINE job(p) == IF p = Replay THEN Idle
                       ELSE IF Running(p) THEN [proc[p] EXCEPT !.pc = "done"] ELSE proc[p]
  <1>1. \A q \in Queue : Retire(pub[q], Replay) \in PubRow
                         /\ RowInv(Retire(pub[q], Replay), queue[q])
    <2> TAKE q \in Queue
    <2>1. pub[q] \in PubRow /\ RowInv(pub[q], queue[q])
      BY DEF IInv, TypeOK, Rows
    <2>q. QED BY <2>1 DEF Retire, PubRow, RowInv, Proc
  <1>2. \A p \in Proc : job(p) \in Job /\ job(p).pc \in {"idle", "done"}
                        /\ PlaceInv(p, job(p), guard')
    <2> TAKE p \in Proc
    <2>1. proc[p] \in Job
      BY DEF IInv, TypeOK
    <2>2. job(p) \in Job
      BY <2>1, TypeSets DEF Job, Idle
    <2>3. job(p).pc \in {"idle", "done"}
      BY <2>1 DEF Job, Idle, Running
    <2>q. QED BY <2>2, <2>3 DEF PlaceInv, GuardedPc
  <1>3. guard' \in Proc \union {NoOwner, Orphan}
    BY DEF Crash, IInv, TypeOK
  <1>4. /\ proc' = [p \in Proc |-> job(p)] /\ queue' = queue
        /\ pub' = [q \in Queue |-> Retire(pub[q], Replay)]
    BY DEF Crash
  <1>5. Rest
    BY DEF Crash, Rest, IInv, TypeOK
  <1>6. TypeOK'
    BY <1>1, <1>2, <1>3, <1>4, <1>5 DEF IInv, TypeOK, Rest
  <1>7. Rows'
    BY <1>1, <1>4 DEF Rows
  <1>8. Places'
    BY <1>2, <1>4 DEF Places
  <1>9. Knowledge'
    BY <1>2, <1>4 DEF Knowledge, GuardedPc
  <1>q. QED BY <1>6, <1>7, <1>8, <1>9 DEF IInv

-----------------------------------------------------------------------------
\* Every step preserves the invariant.
LEMMA NextIInv ==
  ASSUME IInv, [Next]_vars PROVE IInv'
  <1>1. CASE \E q \in Queue : QueueStep(q) \/ ExpireImportLease(q)
    BY <1>1, QueueStepIInv
  <1>2. CASE \E q \in Queue : ExpireOperationLease(q)
    BY <1>2, ExpireOperationIInv
  <1>3. CASE \E w \in Worker, q \in Queue : claim_import_queue_row(w, q)
    BY <1>3, ClaimIInv
  <1>4. CASE \E w \in Worker : AttemptStep(w) \/ Cancel(w)
    BY <1>4, AttemptStepIInv
  <1>5. CASE \E p \in Proc : ProcStep(p)
    BY <1>5, AbortStepIInv, UnitStepIInv DEF ProcStep
  <1>6. CASE ReplayStep
    BY <1>6, ReplayStepIInv
  <1>7. CASE Crash
    BY <1>7, CrashIInv
  <1>8. CASE OrphanExits
    <2>1. TypeOK'
      BY <1>8 DEF OrphanExits, IInv, TypeOK
    <2>2. Rows' /\ Knowledge'
      BY <1>8 DEF OrphanExits, IInv, Rows, Knowledge
    <2>3. Places'
      BY <1>8, PipelineAssumption DEF OrphanExits, IInv, Places, PlaceInv, Proc
    <2>q. QED BY <2>1, <2>2, <2>3 DEF IInv
  <1>9. CASE Restart
    BY <1>9 DEF Restart, IInv, TypeOK, Rows, Places, Knowledge
  <1>10. CASE UNCHANGED vars
    BY <1>10 DEF vars, IInv, TypeOK, Rows, Places, Knowledge
  <1>q. QED
    BY <1>1, <1>2, <1>3, <1>4, <1>5, <1>6, <1>7, <1>8, <1>9, <1>10 DEF Next

\* The invariant holds initially.
LEMMA InitIInv ==
  ASSUME Init PROVE IInv
  <1> USE PipelineAssumption
  <1>1. Idle \in Job /\ NoPub \in PubRow
    BY TypeSets DEF Idle, Job, NoPub, PubRow
  <1>2. [status |-> "absent", owner |-> NoOwner, live |-> FALSE] \in QueueRow
    BY TypeSets DEF QueueRow
  <1>3. TypeOK
    BY <1>1, <1>2 DEF Init, TypeOK
  <1>4. Rows
    BY DEF Init, Rows, RowInv, NoPub, Active, PreCommit, PostCommit
  <1>5. Places /\ Knowledge
    BY DEF Init, Places, PlaceInv, Knowledge, Idle, GuardedPc
  <1>q. QED BY <1>3, <1>4, <1>5 DEF IInv

\* IInv is an invariant of the import pipeline, for every number of rows,
\* attempts, crashes and errors.
THEOREM Inductive == Spec => []IInv
  <1>1. Init => IInv
    BY InitIInv
  <1>2. IInv /\ [Next]_vars => IInv'
    BY NextIInv
  <1>q. QED BY <1>1, <1>2, PTL DEF Spec

\* Type correctness of the rows, the jobs and the lock.
THEOREM TypeCorrect == Spec => []TypeOK
  <1>1. IInv => TypeOK
    BY DEF IInv
  <1>q. QED BY <1>1, Inductive, PTL

\* The fence: no queue row leaves 'importing', or its owner, while a
\* publication of it is still to be committed.
THEOREM FenceHolds == Spec => []PublicationFencesQueue
  <1>1. IInv => PublicationFencesQueue
    BY DEF IInv, Rows, RowInv, PublicationFencesQueue
  <1>q. QED BY <1>1, Inductive, PTL

\* What the Phase 3 commit recorded stands until the cleanup is final.
THEOREM ResultStands == Spec => []CommittedResultStands
  <1>1. IInv => CommittedResultStands
    BY DEF IInv, Rows, RowInv, CommittedResultStands
  <1>q. QED BY <1>1, Inductive, PTL

\* Nothing is published for good out of a stage that was being discarded.
THEOREM WholeStage == Spec => []PublishedFromWholeStage
  <1>1. IInv => PublishedFromWholeStage
    BY DEF IInv, Rows, RowInv, PublishedFromWholeStage
  <1>q. QED BY <1>1, Inductive, PTL

\* A unit keeps its journal row and operation token although the lease on
\* the token can expire under it.
THEOREM NoTakeOver == Spec => []OperationNotTakenOver
  <1>1. IInv => OperationNotTakenOver
    <2> SUFFICES ASSUME IInv, NEW p \in Proc,
                        proc[p].pc \in {"publish", "compensate", "compensated", "cleanup"}
                 PROVE  Loaded(p) /\ pub[proc[p].q].op = p
      BY DEF OperationNotTakenOver
    <2>1. proc[p].q \in Queue /\ proc[p].id \in Worker /\ Knows(p, proc[p], pub[proc[p].q])
      BY Here DEF GuardedPc
    <2>q. QED BY <2>1, PipelineAssumption DEF Knows, Loaded
  <1>q. QED BY <1>1, Inductive, PTL

-----------------------------------------------------------------------------
(***************************************************************************)
(* ImportPipeline implements AtomicImport, for every number of rows,       *)
(* attempts, crashes and errors.                                           *)
(*                                                                         *)
(* The invariant above says what a journal row and its queue row owe each  *)
(* other.  The abstract guards need three facts more, about the tokens     *)
(* that stand for transactions: an attempt that has not reached its        *)
(* journal names no transaction and has no outcome (Fresh), a token names  *)
(* one transaction at most (OneEach), and an open transaction has no       *)
(* outcome yet (OpenUndecided).                                            *)
(***************************************************************************)
Early == {"idle", "claimed", "planned"}

\* The journal of row q is open for a transaction of attempt w.
Names(q, w) == pub[q].state \in Active /\ pub[q].id = w

Fresh == \A w \in Worker : proc[w].pc \in Early =>
           fate[w] = "open" /\ \A q \in Queue : ~Names(q, w)
OneEach == \A q, r \in Queue, w \in Worker : Names(q, w) /\ Names(r, w) => q = r
OpenUndecided == \A q \in Queue : pub[q].state \in PreCommit => fate[pub[q].id] = "open"

Tokens == Fresh /\ OneEach /\ OpenUndecided
RInv == IInv /\ Tokens

-----------------------------------------------------------------------------
(* The refinement mapping, row by row *)

\* The journal row keeps its token, its result and its side of the commit.
SameSide(q) ==
  /\ pub'[q].id = pub[q].id /\ pub'[q].result = pub[q].result
  /\ pub'[q].state \in PreCommit <=> pub[q].state \in PreCommit
  /\ pub'[q].state \in PostCommit <=> pub[q].state \in PostCommit

\* Then it stands for the same transaction.
LEMMA SameTransaction ==
  ASSUME NEW q \in Queue, SameSide(q) PROVE Transaction(q)' = Transaction(q)
  BY DEF SameSide, Transaction

\* Nothing that AtomicImport sees of row q changes.
Hidden(q) == queue'[q].status = queue[q].status /\ SameSide(q)

\* A step that is hidden at every row is a stutter of AtomicImport.
LEMMA HiddenStutters ==
  ASSUME fate' = fate, \A q \in Queue : Hidden(q) PROVE UNCHANGED Atomic!avars
  <1>1. \A q \in Queue : queue'[q].status = queue[q].status
                         /\ Transaction(q)' = Transaction(q)
    BY SameTransaction DEF Hidden
  <1>2. [q \in Queue |-> queue[q].status]' = [q \in Queue |-> queue[q].status]
    BY <1>1
  <1>3. [q \in Queue |-> Transaction(q)]' = [q \in Queue |-> Transaction(q)]
    BY <1>1
  <1>q. QED
    BY <1>2, <1>3 DEF Atomic!avars

\* A row without a journal at work carries no transaction.
LEMMA NoTransaction ==
  ASSUME NEW q \in Queue, pub[q].state \notin Active PROVE Transaction(q) = Atomic!NoTxn
  BY DEF Active, Transaction, Atomic!NoTxn

\* A write of one row that no publication fences is a Write.
LEMMA WriteMapped ==
  ASSUME TypeOK, NEW q \in Queue, NEW k \in QueueRow, SetQueue(q, k),
         pub' = pub, fate' = fate, pub[q].state \notin Active,
         queue[q].status # "deleted", k.status \in Atomic!RowStatus,
         queue[q].status = "absent" => k.status = "pending"
  PROVE  Atomic!Write(q, k.status)
  <1>1. [r \in Queue |-> queue[r].status]' =
          [[r \in Queue |-> queue[r].status] EXCEPT ![q] = k.status]
    BY DEF SetQueue, TypeOK
  <1>2. [r \in Queue |-> Transaction(r)]' = [r \in Queue |-> Transaction(r)]
    BY DEF Transaction
  <1>3. [r \in Queue |-> Transaction(r)][q] = Atomic!NoTxn
    BY NoTransaction
  <1>4. k.status # "absent"
    BY DEF Atomic!RowStatus
  <1>q. QED
    BY <1>1, <1>2, <1>3, <1>4 DEF Atomic!Write

\* What a step that writes the rows k and r at q writes of the abstract state.
LEMMA RowsMapped ==
  ASSUME TypeOK, NEW q \in Queue, NEW k, NEW r, SetQueue(q, k), SetPub(q, r)
  PROVE  /\ [x \in Queue |-> queue[x].status]' =
              [[x \in Queue |-> queue[x].status] EXCEPT ![q] = k.status]
         /\ [x \in Queue |-> Transaction(x)]' =
              [[x \in Queue |-> Transaction(x)] EXCEPT ![q] = Transaction(q)']
         /\ [x \in Queue |-> queue[x].status][q] = queue[q].status
         /\ [x \in Queue |-> Transaction(x)][q] = Transaction(q)
  <1>1. queue'[q] = k /\ pub'[q] = r
    BY DEF SetQueue, SetPub, TypeOK
  <1>2. \A x \in Queue : x # q => queue'[x] = queue[x] /\ pub'[x] = pub[x]
    BY DEF SetQueue, SetPub, TypeOK
  <1>3. \A x \in Queue : x # q => Transaction(x)' = Transaction(x)
    BY <1>2 DEF Transaction
  <1>q. QED
    BY <1>1, <1>2, <1>3

\* create_publication by an attempt that is fresh begins a transaction.
LEMMA BeginMapped ==
  ASSUME TypeOK, Tokens, NEW q \in Queue, NEW w \in Worker, NEW r, SetPub(q, r),
         queue' = queue, fate' = fate, proc[w].pc \in Early,
         pub[q].state \notin Active, queue[q].status = "importing",
         r.state = "staging", r.id = w
  PROVE  Atomic!Begin(q, w)
  <1> DEFINE status == [x \in Queue |-> queue[x].status]
             txn == [x \in Queue |-> Transaction(x)]
  <1>1. SetQueue(q, queue[q])
    BY DEF SetQueue, TypeOK
  <1>2. Transaction(q)' = [by |-> w, st |-> "open", result |-> "none"]
    <2>1. pub'[q] = r
      BY DEF SetPub, TypeOK
    <2>q. QED
      BY <2>1 DEF Transaction, PreCommit, PostCommit
  <1>3. txn' = [txn EXCEPT ![q] = [by |-> w, st |-> "open", result |-> "none"]]
        /\ txn[q] = Transaction(q) /\ status' = status /\ status[q] = "importing"
    BY <1>1, <1>2, RowsMapped
  <1>4. txn[q] = Atomic!NoTxn
    BY <1>3, NoTransaction
  <1>5. fate[w] = "open" /\ \A x \in Queue : txn[x].by # w
    <2>1. fate[w] = "open" /\ \A x \in Queue : ~Names(x, w)
      BY DEF Tokens, Fresh
    <2>2. \A x \in Queue : Transaction(x).by # w
      BY <2>1, PipelineAssumption DEF Names, Transaction, Active
    <2>q. QED
      BY <2>1, <2>2
  <1>q. QED
    BY <1>3, <1>4, <1>5 DEF Atomic!Begin

\* The end of an open transaction, whatever becomes of its row and its journal.
LEMMA EndMapped ==
  ASSUME TypeOK, Tokens, NEW q \in Queue, NEW k, NEW r, NEW o,
         SetQueue(q, k), SetPub(q, r), fate' = [fate EXCEPT ![pub[q].id] = o],
         pub[q].state \in PreCommit
  PROVE  Atomic!End(q, k.status, o)
  <1>1. Transaction(q) = [by |-> pub[q].id, st |-> "open", result |-> "none"]
    BY DEF Transaction, PreCommit, PostCommit
  <1>2. fate[pub[q].id] = "open"
    BY DEF Tokens, OpenUndecided
  <1> DEFINE status == [x \in Queue |-> queue[x].status]
             txn == [x \in Queue |-> Transaction(x)]
  <1>3. status' = [status EXCEPT ![q] = k.status]
    BY RowsMapped
  <1>4. txn[q].st = "open" /\ txn[q].by = pub[q].id
    BY <1>1
  <1>q. QED
    BY <1>2, <1>3, <1>4 DEF Atomic!End

\* abort_staging_publication ends it with the row importing or released.
LEMMA AbortMapped ==
  ASSUME TypeOK, Tokens, NEW q \in Queue, NEW k, SetQueue(q, k), SetPub(q, NoPub),
         fate' = [fate EXCEPT ![pub[q].id] = "aborted"], pub[q].state \in PreCommit,
         k.status \in {"importing", "pending", "partial"}
  PROVE  Atomic!Abort(q)
  <1>1. Transaction(q)' = Atomic!NoTxn
    <2>1. pub'[q] = NoPub
      BY DEF SetPub, TypeOK
    <2>q. QED
      BY <2>1 DEF NoPub, Transaction, PreCommit, PostCommit, Atomic!NoTxn
  <1>2. [x \in Queue |-> Transaction(x)]' =
          [[x \in Queue |-> Transaction(x)] EXCEPT ![q] = Atomic!NoTxn]
    BY <1>1, RowsMapped
  <1>q. QED
    BY <1>2, EndMapped DEF Atomic!Abort

\* _compensate_publication ends it with a failed row.
LEMMA CompensateMapped ==
  ASSUME TypeOK, Tokens, NEW q \in Queue, NEW k, NEW r, SetQueue(q, k), SetPub(q, r),
         fate' = [fate EXCEPT ![pub[q].id] = "compensated"], pub[q].state \in PreCommit,
         k.status = "failed", r.state = "finalized"
  PROVE  Atomic!Compensate(q)
  <1>1. Transaction(q)' = Atomic!NoTxn
    <2>1. pub'[q] = r
      BY DEF SetPub, TypeOK
    <2>q. QED
      BY <2>1 DEF Transaction, PreCommit, PostCommit, Atomic!NoTxn
  <1>2. [x \in Queue |-> Transaction(x)]' =
          [[x \in Queue |-> Transaction(x)] EXCEPT ![q] = Atomic!NoTxn]
    BY <1>1, RowsMapped
  <1>q. QED
    BY <1>2, EndMapped DEF Atomic!Compensate

\* The Phase 3 commit commits it with the status it leaves in the row.
LEMMA CommitMapped ==
  ASSUME TypeOK, Tokens, NEW q \in Queue, NEW k, NEW r, SetQueue(q, k), SetPub(q, r),
         fate' = [fate EXCEPT ![pub[q].id] = "committed"], pub[q].state \in PreCommit,
         r.state = "db_committed", r.id = pub[q].id, r.result = k.status
  PROVE  Atomic!Commit(q, k.status)
  <1>1. Transaction(q) = [by |-> pub[q].id, st |-> "open", result |-> "none"]
    BY DEF Transaction, PreCommit, PostCommit
  <1>2. Transaction(q)' = [by |-> pub[q].id, st |-> "committed", result |-> k.status]
    <2>1. pub'[q] = r
      BY DEF SetPub, TypeOK
    <2>q. QED
      BY <2>1 DEF Transaction, PreCommit, PostCommit
  <1> DEFINE txn == [x \in Queue |-> Transaction(x)]
  <1>3. txn' = [txn EXCEPT ![q] = Transaction(q)'] /\ txn[q] = Transaction(q)
    BY RowsMapped
  <1>4. txn[q].by = pub[q].id
    BY <1>1, <1>3
  <1>5. txn' = [txn EXCEPT ![q] = [by |-> txn[q].by, st |-> "committed",
                                   result |-> k.status]]
    <2> HIDE DEF txn
    <2>q. QED
      BY <1>2, <1>3, <1>4
  <1>q. QED
    BY <1>5, EndMapped DEF Atomic!Commit

\* finalize_publication closes it, and takes an imported row away.
LEMMA FinalizeMapped ==
  ASSUME TypeOK, NEW q \in Queue, NEW k, NEW r, SetQueue(q, k), SetPub(q, r),
         fate' = fate, pub[q].state \in PostCommit, queue[q].status = pub[q].result,
         k.status = IF queue[q].status = "imported" THEN "deleted" ELSE queue[q].status,
         r.state \in {"finalized", "deleted"}
  PROVE  Atomic!Finalize(q)
  <1>1. Transaction(q) = [by |-> pub[q].id, st |-> "committed", result |-> pub[q].result]
    BY DEF Transaction, PreCommit, PostCommit
  <1>2. Transaction(q)' = Atomic!NoTxn
    <2>1. pub'[q] = r
      BY DEF SetPub, TypeOK
    <2>q. QED
      BY <2>1 DEF Transaction, PreCommit, PostCommit, Atomic!NoTxn
  <1> DEFINE status == [x \in Queue |-> queue[x].status]
             txn == [x \in Queue |-> Transaction(x)]
  <1>3. txn[q].st = "committed" /\ status[q] = txn[q].result
    BY <1>1
  <1>4. /\ status[q] = queue[q].status
        /\ txn' = [txn EXCEPT ![q] = Transaction(q)']
        /\ status' = [status EXCEPT ![q] = k.status]
    BY RowsMapped
  <1>q. QED
    BY <1>2, <1>3, <1>4 DEF Atomic!Finalize
-----------------------------------------------------------------------------
(* The tokens *)

\* No attempt goes back to a point before its journal.
Later == \A w \in Worker : proc'[w].pc \in Early => proc[w].pc \in Early

\* A step that leaves every journal row on its side of the commit keeps the tokens.
LEMMA KeptTokens ==
  ASSUME Tokens, Later, fate' = fate, \A q \in Queue : SameSide(q) PROVE Tokens'
  <1>1. \A q \in Queue, w \in Worker : Names(q, w)' => Names(q, w)
    BY DEF Names, SameSide, Active
  <1>2. Fresh'
    BY <1>1 DEF Tokens, Fresh, Later
  <1>3. OneEach'
    BY <1>1 DEF Tokens, OneEach
  <1>4. OpenUndecided'
    BY DEF Tokens, OpenUndecided, SameSide
  <1>q. QED
    BY <1>2, <1>3, <1>4 DEF Tokens

\* So does a step that ends the transaction of one row with the outcome o.
LEMMA EndTokens ==
  ASSUME TypeOK, Tokens, Later, NEW q \in Queue, NEW r, NEW o, SetPub(q, r),
         fate' = [fate EXCEPT ![pub[q].id] = o], pub[q].id \in Worker,
         pub[q].state \in PreCommit, r.state \notin PreCommit,
         r.state \in PostCommit => r.id = pub[q].id
  PROVE  Tokens'
  <1>1. pub'[q] = r /\ \A x \in Queue : x # q => pub'[x] = pub[x]
    BY DEF SetPub, TypeOK
  <1>2. \A x \in Queue, w \in Worker : Names(x, w)' => Names(x, w)
    BY <1>1 DEF Names, Active
  <1>3. \A w \in Worker : w # pub[q].id => fate'[w] = fate[w]
    BY DEF TypeOK
  <1>4. Names(q, pub[q].id)
    BY DEF Names, Active
  <1>5. Fresh'
    BY <1>2, <1>3, <1>4 DEF Tokens, Fresh, Later
  <1>6. OneEach'
    BY <1>2 DEF Tokens, OneEach
  <1>7. ASSUME NEW x \in Queue, pub'[x].state \in PreCommit
        PROVE  fate'[pub'[x].id] = "open"
    <2>1. x # q /\ pub'[x] = pub[x]
      BY <1>1, <1>7
    <2>2. fate[pub[x].id] = "open"
      BY <2>1, <1>7 DEF Tokens, OpenUndecided
    <2>3. pub[x].id # pub[q].id
      BY <2>1, <1>4, <1>7 DEF Tokens, OneEach, Names, Active
    <2>4. fate'[pub[x].id] = fate[pub[x].id]
      BY <2>3 DEF TypeOK
    <2>q. QED
      BY <2>1, <2>2, <2>4
  <1>8. OpenUndecided'
    BY <1>7 DEF OpenUndecided
  <1>q. QED
    BY <1>5, <1>6, <1>8 DEF Tokens

\* So does one that closes the journal of one row.
LEMMA CloseTokens ==
  ASSUME TypeOK, Tokens, Later, NEW q \in Queue, NEW r, SetPub(q, r), fate' = fate,
         r.state \notin Active
  PROVE  Tokens'
  <1>1. pub'[q] = r /\ \A x \in Queue : x # q => pub'[x] = pub[x]
    BY DEF SetPub, TypeOK
  <1>2. \A x \in Queue, w \in Worker : Names(x, w)' => Names(x, w)
    BY <1>1 DEF Names
  <1>3. Fresh'
    BY <1>2 DEF Tokens, Fresh, Later
  <1>4. OneEach'
    BY <1>2 DEF Tokens, OneEach
  <1>5. OpenUndecided'
    BY <1>1 DEF Tokens, OpenUndecided, Active
  <1>q. QED
    BY <1>3, <1>4, <1>5 DEF Tokens

\* And one by which a fresh attempt opens a journal and is fresh no longer.
LEMMA BeginTokens ==
  ASSUME TypeOK, Tokens, Later, NEW q \in Queue, NEW w \in Worker, NEW r, SetPub(q, r),
         fate' = fate, proc[w].pc \in Early, proc'[w].pc \notin Early, r.id = w
  PROVE  Tokens'
  <1>1. pub'[q] = r /\ \A x \in Queue : x # q => pub'[x] = pub[x]
    BY DEF SetPub, TypeOK
  <1>2. fate[w] = "open" /\ \A x \in Queue : ~Names(x, w)
    BY DEF Tokens, Fresh
  <1>3. \A x \in Queue, v \in Worker : Names(x, v)' => Names(x, v) \/ (x = q /\ v = w)
    BY <1>1 DEF Names
  <1>4. Fresh'
    BY <1>3 DEF Tokens, Fresh, Later
  <1>5. OneEach'
    BY <1>2, <1>3 DEF Tokens, OneEach
  <1>6. OpenUndecided'
    BY <1>1, <1>2 DEF Tokens, OpenUndecided
  <1>q. QED
    BY <1>4, <1>5, <1>6 DEF Tokens

-----------------------------------------------------------------------------
(* Where the processes go *)

LEMMA Stays ==
  ASSUME proc' = proc PROVE Later
  BY DEF Later

LEMMA Moves ==
  ASSUME TypeOK, NEW p \in Proc, NEW j, proc' = [proc EXCEPT ![p] = j],
         p \in Worker => j.pc \notin Early \/ proc[p].pc \in Early
  PROVE  Later
  BY DEF Later, TypeOK, Proc

LEMMA Goes ==
  ASSUME TypeOK, NEW p \in Proc, NEW pc, Goto(p, pc), pc \notin Early \/ proc[p].pc \in Early
  PROVE  Later
  <1>1. [proc[p] EXCEPT !.pc = pc].pc = pc
    BY DEF TypeOK, Job
  <1>q. QED
    BY <1>1, Moves DEF Goto

LEMMA GoesToAbort ==
  ASSUME TypeOK, NEW p \in Proc, NEW a, AbortThen(p, a) PROVE Later
  <1>1. [proc[p] EXCEPT !.pc = "aborting", !.after = a].pc = "aborting"
    BY DEF TypeOK, Job
  <1>q. QED
    BY <1>1, Moves DEF AbortThen, Early

LEMMA Ends ==
  ASSUME TypeOK, NEW p \in Proc, EndUnit(p) PROVE Later
  <1>1. p \in Worker => Ended(p).pc = "done"
    BY PipelineAssumption DEF Ended, TypeOK, Job, Proc
  <1>q. QED
    BY <1>1, Moves DEF EndUnit, Early

LEMMA FailsAbort ==
  ASSUME TypeOK, NEW p \in Proc, AbortFailed(p) PROVE Later
  BY Ends, Goes DEF AbortFailed, Early

-----------------------------------------------------------------------------
(* The steps, by what they do to the abstract state *)

\* A step of AtomicImport or a stutter, that keeps the tokens.
RStep == [Atomic!ANext]_(Atomic!avars) /\ Tokens'

LEMMA HiddenStep ==
  ASSUME Tokens, Later, fate' = fate, \A q \in Queue : Hidden(q) PROVE RStep
  BY HiddenStutters, KeptTokens DEF RStep, Hidden

\* Most steps write neither a row nor an outcome.
LEMMA QuietStep ==
  ASSUME Tokens, Later, queue' = queue, pub' = pub, fate' = fate PROVE RStep
  <1>1. \A q \in Queue : Hidden(q)
    BY DEF Hidden, SameSide
  <1>q. QED
    BY <1>1, HiddenStep

\* Many write one journal row on its side of the commit.
LEMMA JournalStep ==
  ASSUME TypeOK, Tokens, Later, NEW q \in Queue, NEW r, SetPub(q, r), queue' = queue,
         fate' = fate, r.id = pub[q].id, r.result = pub[q].result,
         r.state = pub[q].state \/ {r.state, pub[q].state} \subseteq PreCommit
                                \/ {r.state, pub[q].state} \subseteq PostCommit
  PROVE  RStep
  <1>1. pub'[q] = r /\ \A x \in Queue : x # q => pub'[x] = pub[x]
    BY DEF SetPub, TypeOK
  <1>2. \A s : ~(s \in PreCommit /\ s \in PostCommit)
    BY DEF PreCommit, PostCommit
  <1>3. \A x \in Queue : Hidden(x)
    BY <1>1, <1>2 DEF Hidden, SameSide
  <1>q. QED
    BY <1>3, HiddenStep

LEMMA WriteStep ==
  ASSUME TypeOK, Tokens, Later, NEW q \in Queue, NEW k \in QueueRow, SetQueue(q, k),
         pub' = pub, fate' = fate, pub[q].state \notin Active,
         queue[q].status # "deleted", k.status \in Atomic!RowStatus,
         queue[q].status = "absent" => k.status = "pending"
  PROVE  RStep
  <1>1. Atomic!ANext
    BY WriteMapped DEF Atomic!ANext
  <1>2. \A x \in Queue : SameSide(x)
    BY DEF SameSide
  <1>q. QED
    BY <1>1, <1>2, KeptTokens DEF RStep

\* The row released with status s.
LEMMA ReleaseStep ==
  ASSUME TypeOK, Tokens, Later, NEW q \in Queue, NEW s \in Atomic!RowStatus,
         SetQueue(q, Released(s)), pub' = pub, fate' = fate, pub[q].state \notin Active,
         queue[q].status # "deleted", queue[q].status = "absent" => s = "pending"
  PROVE  RStep
  <1>1. Released(s) \in QueueRow /\ Released(s).status = s
    BY DEF Released, QueueRow, QueueStatus, Atomic!RowStatus
  <1>q. QED
    BY <1>1, WriteStep

\* The row given the status s and nothing else.
LEMMA RelabelStep ==
  ASSUME TypeOK, Tokens, Later, NEW q \in Queue, NEW s \in Atomic!RowStatus,
         SetQueue(q, [queue[q] EXCEPT !.status = s]), pub' = pub, fate' = fate,
         pub[q].state \notin Active, queue[q].status \notin {"absent", "deleted"}
  PROVE  RStep
  <1> DEFINE k == [queue[q] EXCEPT !.status = s]
  <1>1. k \in QueueRow /\ k.status = s
    BY DEF TypeOK, QueueRow, QueueStatus, Atomic!RowStatus
  <1>q. QED
    BY <1>1, WriteStep

-----------------------------------------------------------------------------
(* The steps of the queue and of the clock *)

LEMMA QueueStepMapped ==
  ASSUME RInv, NEW q \in Queue, QueueStep(q) PROVE RStep
  <1>1. TypeOK /\ Tokens
    BY DEF RInv, IInv
  <1>2. QueueOnly
    BY DEF QueueStep, Enqueue, skip_import_queue_entry, process_import,
       retry_import_queue_entry, fail_stale_pending_import_queue_row,
       dismiss_import_queue_entry, clear_inactive_import_queue_entries,
       recover_expired_import_leases
  <1>3. Later /\ pub' = pub /\ fate' = fate
    BY <1>2, Stays DEF QueueOnly
  <1>4. {"pending", "partial", "failed", "skipped", "deleted"} \subseteq Atomic!RowStatus
    BY DEF Atomic!RowStatus
  <1>5. queue[q].status # "absent" => pub[q].state \notin Active
    BY DEF QueueStep, Enqueue, skip_import_queue_entry, process_import,
       retry_import_queue_entry, fail_stale_pending_import_queue_row,
       dismiss_import_queue_entry, clear_inactive_import_queue_entries,
       recover_expired_import_leases, Unleased, ActivePublication
  <1>6. CASE Enqueue(q)
    <2>1. pub[q].state \notin Active
      BY <1>6, <1>1 DEF Enqueue, RInv, IInv, Rows, RowInv, Active, TypeOK, PubRow
    <2>q. QED
      BY <2>1, <1>6, <1>1, <1>3, <1>4, ReleaseStep DEF Enqueue
  <1>7. CASE skip_import_queue_entry(q)
    BY <1>7, <1>1, <1>3, <1>4, <1>5, RelabelStep DEF skip_import_queue_entry
  <1>8. CASE process_import(q)
    BY <1>8, <1>1, <1>3, <1>4, <1>5, RelabelStep DEF process_import
  <1>9. CASE retry_import_queue_entry(q)
    BY <1>9, <1>1, <1>3, <1>4, <1>5, RelabelStep DEF retry_import_queue_entry
  <1>10. CASE fail_stale_pending_import_queue_row(q)
    BY <1>10, <1>1, <1>3, <1>4, <1>5, ReleaseStep DEF fail_stale_pending_import_queue_row
  <1>11. CASE dismiss_import_queue_entry(q)
    BY <1>11, <1>1, <1>3, <1>4, <1>5, ReleaseStep DEF dismiss_import_queue_entry
  <1>12. CASE clear_inactive_import_queue_entries(q)
    BY <1>12, <1>1, <1>3, <1>4, <1>5, ReleaseStep DEF clear_inactive_import_queue_entries
  <1>13. CASE recover_expired_import_leases(q)
    BY <1>13, <1>1, <1>3, <1>4, <1>5, ReleaseStep DEF recover_expired_import_leases
  <1>q. QED
    BY <1>6, <1>7, <1>8, <1>9, <1>10, <1>11, <1>12, <1>13 DEF QueueStep

LEMMA ClockMapped ==
  ASSUME RInv, NEW q \in Queue, ExpireImportLease(q) \/ ExpireOperationLease(q)
  PROVE  RStep
  <1>1. TypeOK /\ Tokens
    BY DEF RInv, IInv
  <1>2. CASE ExpireImportLease(q)
    <2>1. Later /\ pub' = pub /\ fate' = fate
      BY <1>2, Stays DEF ExpireImportLease, QueueOnly
    <2>2. \A x \in Queue : queue'[x].status = queue[x].status
      BY <1>2, <1>1 DEF ExpireImportLease, SetQueue, TypeOK, QueueRow
    <2>3. \A x \in Queue : Hidden(x)
      BY <2>1, <2>2 DEF Hidden, SameSide
    <2>q. QED
      BY <1>1, <2>1, <2>3, HiddenStep
  <1>3. CASE ExpireOperationLease(q)
    <2> DEFINE r == [pub[q] EXCEPT !.opLive = FALSE]
    <2>1. Later /\ SetPub(q, r) /\ queue' = queue /\ fate' = fate
      BY <1>3, Stays DEF ExpireOperationLease
    <2>2. r.id = pub[q].id /\ r.result = pub[q].result /\ r.state = pub[q].state
      BY <1>1 DEF TypeOK, PubRow
    <2>q. QED
      BY <1>1, <2>1, <2>2, JournalStep
  <1>q. QED
    BY <1>2, <1>3

-----------------------------------------------------------------------------
(* The steps of an attempt *)

LEMMA ClaimMapped ==
  ASSUME RInv, NEW w \in Worker, NEW q \in Queue, claim_import_queue_row(w, q) PROVE RStep
  <1>1. TypeOK /\ Tokens /\ w \in Proc
    BY DEF RInv, IInv, Proc
  <1>2. Later
    BY <1>1, Moves DEF claim_import_queue_row, Early
  <1>3. Leased(w) \in QueueRow /\ Leased(w).status \in Atomic!RowStatus
    BY DEF Leased, QueueRow, QueueStatus, Atomic!RowStatus
  <1>q. QED
    BY <1>1, <1>2, <1>3, WriteStep DEF claim_import_queue_row, ActivePublication

LEMMA AttemptMapped ==
  ASSUME RInv, NEW w \in Worker, AttemptStep(w) \/ Cancel(w) PROVE RStep
  <1> DEFINE q == proc[w].q
  <1>1. TypeOK /\ Tokens /\ IInv /\ w \in Proc
    BY DEF RInv, IInv, Proc
  <1>2. q \in Queue
    <2>1. proc[w].pc \notin {"idle", "done", "pass"}
      BY DEF AttemptStep, PlanImport, CommitWithoutPublication, create_publication,
         CreateRefused, BindStageCarrier, ConfirmPublication, StageBegin, StageEnd,
         StageRefused, RefreshBeforeBarrier, prepare_staged_artifacts,
         commit_prepared_barrier, SettleAttempt, Cancel
    <2>q. QED
      BY <1>1, <2>1, Here
  <1>3. {"pending", "partial", "failed", "deleted"} \subseteq Atomic!RowStatus
    BY DEF Atomic!RowStatus
  <1>4. CanTransition(w) => queue[q].status = "importing" /\ pub[q].state \notin Active
    BY DEF CanTransition, OwnsLiveLease, ActivePublication
  <1>5. CASE PlanImport(w)
    <2>1. Later
      BY <1>5, <1>1, Goes, Ends DEF PlanImport, Early
    <2>2. CASE queue' = queue
      BY <2>1, <2>2, <1>1, <1>5, QuietStep DEF PlanImport
    <2>3. CASE CanTransition(w) /\ \E s \in {"failed", "pending", "partial"} :
                                     SetQueue(q, Released(s))
      BY <2>1, <2>3, <1>1, <1>2, <1>3, <1>4, <1>5, ReleaseStep DEF PlanImport
    <2>q. QED
      BY <1>5, <2>2, <2>3 DEF PlanImport
  <1>6. CASE CommitWithoutPublication(w)
    <2>1. Later
      BY <1>6, <1>1, Ends DEF CommitWithoutPublication
    <2>2. CASE queue' = queue
      BY <2>1, <2>2, <1>1, <1>6, QuietStep DEF CommitWithoutPublication
    <2>3. CASE CanTransition(w) /\ \E s \in {"failed", "partial", "deleted"} :
                                     SetQueue(q, Released(s))
      BY <2>1, <2>3, <1>1, <1>2, <1>3, <1>4, <1>6, ReleaseStep DEF CommitWithoutPublication
    <2>q. QED
      BY <1>6, <2>2, <2>3 DEF CommitWithoutPublication
  <1>7. CASE create_publication(w)
    <2> DEFINE r == [id |-> w, state |-> "staging", stage |-> "allocating",
                     decision |-> "pending", result |-> "none", op |-> NoOwner,
                     opLive |-> FALSE]
    <2>1. /\ SetPub(q, r) /\ queue' = queue /\ fate' = fate /\ proc[w].pc \in Early
          /\ pub[q].state \notin Active /\ queue[q].status = "importing"
      BY <1>7 DEF create_publication, Early, ActivePublication, OwnsLiveLease
    <2>2. Later /\ proc'[w].pc \notin Early
      <3>1. proc'[w].pc = "binding"
        BY <1>7, <1>1 DEF create_publication, Goto, TypeOK, Job
      <3>q. QED
        BY <3>1, <1>7, <1>1, Goes DEF create_publication, Early
    <2>3. Atomic!ANext
      BY <1>1, <1>2, <2>1, BeginMapped DEF Atomic!ANext
    <2>4. Tokens'
      BY <1>1, <1>2, <2>1, <2>2, BeginTokens
    <2>q. QED
      BY <2>3, <2>4 DEF RStep
  <1>8. CASE CreateRefused(w)
    BY <1>8, <1>1, Goes, QuietStep DEF CreateRefused, Early
  <1>9. CASE BindStageCarrier(w)
    <2>1. Later
      BY <1>9, <1>1, Goes DEF BindStageCarrier, Early
    <2>2. CASE pub' = pub
      BY <2>1, <2>2, <1>9, <1>1, QuietStep DEF BindStageCarrier
    <2>3. CASE SetPub(q, [pub[q] EXCEPT !.stage = "ready"])
      <3> DEFINE r == [pub[q] EXCEPT !.stage = "ready"]
      <3>1. r.id = pub[q].id /\ r.result = pub[q].result /\ r.state = pub[q].state
        BY <1>1, <1>2 DEF TypeOK, PubRow
      <3>q. QED
        BY <2>1, <2>3, <3>1, <1>9, <1>1, <1>2, JournalStep DEF BindStageCarrier
    <2>q. QED
      BY <1>9, <2>2, <2>3 DEF BindStageCarrier
  <1>10. CASE ConfirmPublication(w)
    BY <1>10, <1>1, Goes, GoesToAbort, QuietStep DEF ConfirmPublication, Early
  <1>11. CASE StageBegin(w)
    BY <1>11, <1>1, Goes, QuietStep DEF StageBegin, Early
  <1>12. CASE StageEnd(w)
    BY <1>12, <1>1, Goes, GoesToAbort, QuietStep DEF StageEnd, Early
  <1>13. CASE StageRefused(w)
    BY <1>13, <1>1, GoesToAbort, QuietStep DEF StageRefused
  <1>14. CASE RefreshBeforeBarrier(w)
    BY <1>14, <1>1, Goes, GoesToAbort, QuietStep DEF RefreshBeforeBarrier, Early
  <1>15. CASE prepare_staged_artifacts(w)
    BY <1>15, <1>1, Goes, GoesToAbort, QuietStep DEF prepare_staged_artifacts, Early
  <1>16. CASE commit_prepared_barrier(w)
    <2>1. Later
      BY <1>16, <1>1, Goes, GoesToAbort DEF commit_prepared_barrier, Early
    <2>2. CASE pub' = pub
      BY <2>1, <2>2, <1>16, <1>1, QuietStep DEF commit_prepared_barrier
    <2>3. CASE pub[q].state = "staging" /\ SetPub(q, [pub[q] EXCEPT !.state = "prepared"])
      <3> DEFINE r == [pub[q] EXCEPT !.state = "prepared"]
      <3>1. r.id = pub[q].id /\ r.result = pub[q].result /\ r.state = "prepared"
        BY <1>1, <1>2 DEF TypeOK, PubRow
      <3>2. {r.state, pub[q].state} \subseteq PreCommit
        BY <2>3, <3>1 DEF PreCommit
      <3>q. QED
        BY <2>1, <2>3, <3>1, <3>2, <1>16, <1>1, <1>2, JournalStep
           DEF commit_prepared_barrier
    <2>q. QED
      BY <1>16, <2>2, <2>3 DEF commit_prepared_barrier
  <1>17. CASE SettleAttempt(w)
    <2>1. Later
      BY <1>17, <1>1, Ends DEF SettleAttempt
    <2>2. CASE queue' = queue
      BY <2>1, <2>2, <1>1, <1>17, QuietStep DEF SettleAttempt
    <2>3. CASE CanTransition(w) /\ \E s \in {"failed", "pending", "partial"} :
                                     SetQueue(q, Released(s))
      BY <2>1, <2>3, <1>1, <1>2, <1>3, <1>4, <1>17, ReleaseStep DEF SettleAttempt
    <2>q. QED
      BY <1>17, <2>2, <2>3 DEF SettleAttempt
  <1>18. CASE Cancel(w)
    BY <1>18, <1>1, Goes, GoesToAbort, QuietStep DEF Cancel, Early
  <1>q. QED
    BY <1>5, <1>6, <1>7, <1>8, <1>9, <1>10, <1>11, <1>12, <1>13, <1>14, <1>15, <1>16,
       <1>17, <1>18 DEF AttemptStep

-----------------------------------------------------------------------------
(* The staging abort *)

LEMMA AbortStepMapped ==
  ASSUME RInv, NEW p \in Proc, AbortStep(p) PROVE RStep
  <1> DEFINE q == proc[p].q
  <1>1. TypeOK /\ Tokens /\ IInv
    BY DEF RInv, IInv
  <1>2. proc[p].pc \notin {"idle", "done", "pass"}
    BY DEF AbortStep, AbortEnter, AbortRefused, AbortDiscarding, AbortDiscarded,
       AbortRetained, abort_staging_publication
  <1>3. /\ q \in Queue /\ pub[q] \in PubRow /\ RowInv(pub[q], queue[q])
        /\ proc[p].pc \in GuardedPc => Knows(p, proc[p], pub[q])
    BY <1>1, <1>2, Here
  <1>4. ASSUME NEW s, SetPub(q, [pub[q] EXCEPT !.stage = s]), Later,
               queue' = queue, fate' = fate
        PROVE  RStep
    <2> DEFINE r == [pub[q] EXCEPT !.stage = s]
    <2>1. r.id = pub[q].id /\ r.result = pub[q].result /\ r.state = pub[q].state
      BY <1>3 DEF PubRow
    <2>q. QED
      BY <1>1, <1>3, <1>4, <2>1, JournalStep
  <1>5. CASE AbortEnter(p)
    <2> DEFINE r == IF p = Replay THEN [pub[q] EXCEPT !.op = p, !.opLive = TRUE] ELSE pub[q]
    <2>1. r.id = pub[q].id /\ r.result = pub[q].result /\ r.state = pub[q].state
      BY <1>3 DEF PubRow
    <2>2. SetPub(q, r) /\ Later /\ queue' = queue /\ fate' = fate
      BY <1>5, <1>1, Goes DEF AbortEnter, Early
    <2>q. QED
      BY <1>1, <1>3, <2>1, <2>2, JournalStep
  <1>6. CASE AbortRefused(p)
    BY <1>6, <1>1, FailsAbort, QuietStep DEF AbortRefused
  <1>7. CASE AbortDiscarding(p)
    BY <1>7, <1>1, <1>4, Goes DEF AbortDiscarding, StageRecord, Early
  <1>8. CASE AbortDiscarded(p)
    BY <1>8, <1>1, <1>4, Goes DEF AbortDiscarded, StageRecord, Early
  <1>9. CASE AbortRetained(p)
    <2> DEFINE r == IF p = Replay THEN [pub[q] EXCEPT !.op = NoOwner, !.opLive = FALSE]
                                  ELSE pub[q]
    <2>1. r.id = pub[q].id /\ r.result = pub[q].result /\ r.state = pub[q].state
      BY <1>3 DEF PubRow
    <2>2. SetPub(q, r) /\ Later /\ queue' = queue /\ fate' = fate
      BY <1>9, <1>1, FailsAbort DEF AbortRetained
    <2>q. QED
      BY <1>1, <1>3, <2>1, <2>2, JournalStep
  <1>10. CASE abort_staging_publication(p)
    <2>1. /\ pub[q].state \in PreCommit /\ pub[q].id \in Worker
          /\ queue[q].status = "importing"
      BY <1>10, <1>3 DEF abort_staging_publication, Knows, GuardedPc, RowInv, PreCommit,
         Active
    <2>2. SetPub(q, NoPub) /\ fate' = [fate EXCEPT ![pub[q].id] = "aborted"]
      BY <1>10 DEF abort_staging_publication
    <2>3. PICK k : SetQueue(q, k) /\ k.status \in {"importing", "pending", "partial"}
      <3>1. \A s : Released(s).status = s
        BY DEF Released
      <3>2. queue' = queue => SetQueue(q, queue[q])
        BY <1>1, <1>3 DEF SetQueue, TypeOK
      <3>q. QED
        BY <1>10, <2>1, <3>1, <3>2 DEF abort_staging_publication
    <2>4. Later
      <3>1. CASE p = Replay
        BY <3>1, <1>10, <1>1, Ends DEF abort_staging_publication
      <3>2. CASE p # Replay
        <4>1. proc[p].after \notin Early
          BY <1>1 DEF TypeOK, Job, After, Early
        <4>q. QED
          BY <3>2, <4>1, <1>10, <1>1, Goes DEF abort_staging_publication
      <3>q. QED
        BY <3>1, <3>2
    <2>5. Atomic!ANext
      BY <1>1, <1>3, <2>1, <2>2, <2>3, AbortMapped DEF Atomic!ANext
    <2>6. NoPub.state \notin PreCommit \union PostCommit
      BY DEF NoPub, PreCommit, PostCommit
    <2>7. Tokens'
      BY <1>1, <1>3, <2>1, <2>2, <2>4, <2>6, EndTokens
    <2>q. QED
      BY <2>5, <2>7 DEF RStep
  <1>q. QED
    BY <1>5, <1>6, <1>7, <1>8, <1>9, <1>10 DEF AbortStep

-----------------------------------------------------------------------------
(* The publication unit *)

\* Leaving the unit retires the token of the replay and nothing else.
LEMMA Retired ==
  ASSUME NEW r \in PubRow, NEW p
  PROVE  /\ Retire(r, p).id = r.id /\ Retire(r, p).result = r.result
         /\ Retire(r, p).state = r.state
  BY DEF Retire, PubRow

LEMMA UnitStepMapped ==
  ASSUME RInv, NEW p \in Proc, UnitStep(p) PROVE RStep
  <1> DEFINE q == proc[p].q
  <1>1. TypeOK /\ Tokens /\ IInv
    BY DEF RInv, IInv
  <1>2. proc[p].pc \notin {"idle", "done", "pass"}
    BY DEF UnitStep, UnitEnter, UnitBusy, UnitReturns, UnitBlocked, UnitLost,
       _claim_publication_operation, _publish_publication_owned, PublishBlocked,
       CommitPublication, AdmissionChanged, ResumeCompensation, CompensateFiles,
       _compensate_publication, claim_publication_cleanup, finalize_publication,
       Entered
  <1>3. /\ q \in Queue /\ pub[q] \in PubRow /\ RowInv(pub[q], queue[q])
        /\ proc[p].pc \in GuardedPc => Knows(p, proc[p], pub[q])
    BY <1>1, <1>2, Here
  \* the row with other columns, on its side of the commit
  <1>4. ASSUME NEW r, SetPub(q, r), Later, queue' = queue, fate' = fate,
               r.id = pub[q].id, r.result = pub[q].result,
               r.state = pub[q].state \/ {r.state, pub[q].state} \subseteq PreCommit
                                      \/ {r.state, pub[q].state} \subseteq PostCommit
        PROVE  RStep
    BY <1>1, <1>3, <1>4, JournalStep
  <1>5. ASSUME NEW r \in PubRow, LeaveUnit(p, r), queue' = queue, fate' = fate,
               r.id = pub[q].id, r.result = pub[q].result, r.state = pub[q].state
        PROVE  RStep
    BY <1>1, <1>4, <1>5, Retired, Ends DEF LeaveUnit
  <1>6. CASE UnitEnter(p)
    BY <1>6, <1>1, Goes, QuietStep DEF UnitEnter, Early
  <1>7. CASE UnitBusy(p)
    BY <1>7, <1>1, Ends, QuietStep DEF UnitBusy
  <1>8. CASE UnitReturns(p)
    BY <1>8, <1>3, <1>5 DEF UnitReturns
  <1>9. CASE UnitLost(p)
    BY <1>9, <1>3, <1>5 DEF UnitLost
  <1>10. CASE UnitBlocked(p)
    <2> DEFINE r == IF pub[q].op = p THEN [pub[q] EXCEPT !.op = NoOwner, !.opLive = FALSE]
                                     ELSE pub[q]
    <2>1. r \in PubRow /\ r.id = pub[q].id /\ r.result = pub[q].result
          /\ r.state = pub[q].state
      BY <1>3 DEF PubRow
    <2>q. QED
      BY <1>10, <1>5, <2>1 DEF UnitBlocked
  <1>11. CASE _claim_publication_operation(p)
    <2> DEFINE r == [pub[q] EXCEPT !.state = "publishing", !.op = p, !.opLive = TRUE]
    <2>1. r.id = pub[q].id /\ r.result = pub[q].result /\ r.state = "publishing"
      BY <1>3 DEF PubRow
    <2>2. {r.state, pub[q].state} \subseteq PreCommit
      BY <2>1, <1>11 DEF _claim_publication_operation, Entered, PreCommit
    <2>3. SetPub(q, r) /\ Later /\ queue' = queue /\ fate' = fate
      BY <1>11, <1>1, Goes DEF _claim_publication_operation, Claimed, Early
    <2>q. QED
      BY <1>4, <2>1, <2>2, <2>3
  <1>12. CASE _publish_publication_owned(p)
    <2> DEFINE r == [pub[q] EXCEPT !.state = "published", !.op = NoOwner, !.opLive = FALSE]
    <2>1. r.id = pub[q].id /\ r.result = pub[q].result /\ r.state = "published"
      BY <1>3 DEF PubRow
    <2>2. {r.state, pub[q].state} \subseteq PreCommit
      BY <2>1, <1>3, <1>12 DEF _publish_publication_owned, Knows, GuardedPc, PreCommit
    <2>3. SetPub(q, r) /\ Later /\ queue' = queue /\ fate' = fate
      BY <1>12, <1>1, Goes DEF _publish_publication_owned, Early
    <2>q. QED
      BY <1>4, <2>1, <2>2, <2>3
  <1>13. CASE PublishBlocked(p)
    <2> DEFINE r == [pub[q] EXCEPT !.decision = "compensate", !.op = NoOwner,
                                   !.opLive = FALSE]
    <2>1. r.id = pub[q].id /\ r.result = pub[q].result /\ r.state = pub[q].state
      BY <1>3 DEF PubRow
    <2>2. SetPub(q, r) /\ Later /\ queue' = queue /\ fate' = fate
      BY <1>13, <1>1, Goes DEF PublishBlocked, Early
    <2>q. QED
      BY <1>4, <2>1, <2>2
  <1>14. CASE AdmissionChanged(p)
    <2> DEFINE r == [pub[q] EXCEPT !.decision = "compensate", !.op = p, !.opLive = TRUE]
    <2>1. r.id = pub[q].id /\ r.result = pub[q].result /\ r.state = pub[q].state
      BY <1>3 DEF PubRow
    <2>2. SetPub(q, r) /\ Later /\ queue' = queue /\ fate' = fate
      BY <1>14, <1>1, Goes DEF AdmissionChanged, Early
    <2>q. QED
      BY <1>4, <2>1, <2>2
  <1>15. CASE ResumeCompensation(p)
    <2> DEFINE r == [pub[q] EXCEPT !.state = "published", !.op = p, !.opLive = TRUE]
    <2>1. r.id = pub[q].id /\ r.result = pub[q].result /\ r.state = pub[q].state
      BY <1>3, <1>15 DEF ResumeCompensation, Entered, PubRow
    <2>2. SetPub(q, r) /\ Later /\ queue' = queue /\ fate' = fate
      BY <1>15, <1>1, Goes DEF ResumeCompensation, Claimed, Early
    <2>q. QED
      BY <1>4, <2>1, <2>2
  <1>16. CASE CompensateFiles(p)
    <2> DEFINE r == [pub[q] EXCEPT !.decision = "compensated", !.stage = "discarded"]
    <2>1. r.id = pub[q].id /\ r.result = pub[q].result /\ r.state = pub[q].state
      BY <1>3 DEF PubRow
    <2>2. SetPub(q, r) /\ Later /\ queue' = queue /\ fate' = fate
      BY <1>16, <1>1, Goes DEF CompensateFiles, Early
    <2>q. QED
      BY <1>4, <2>1, <2>2
  <1>17. CASE claim_publication_cleanup(p)
    <2> DEFINE r == [pub[q] EXCEPT !.state = "cleaning", !.op = p, !.opLive = TRUE]
    <2>1. r.id = pub[q].id /\ r.result = pub[q].result /\ r.state = "cleaning"
      BY <1>3 DEF PubRow
    <2>2. {r.state, pub[q].state} \subseteq PostCommit
      BY <2>1, <1>17 DEF claim_publication_cleanup, Entered, PostCommit
    <2>3. SetPub(q, r) /\ Later /\ queue' = queue /\ fate' = fate
      BY <1>17, <1>1, Goes DEF claim_publication_cleanup, Claimed, Early
    <2>q. QED
      BY <1>4, <2>1, <2>2, <2>3
  <1>18. CASE CommitPublication(p)
    <2>1. PICK s \in {"partial", "imported"} :
            /\ SetQueue(q, Released(s))
            /\ SetPub(q, [pub[q] EXCEPT !.state = "db_committed", !.decision = "commit",
                                  !.result = s, !.op = NoOwner, !.opLive = FALSE])
      BY <1>18 DEF CommitPublication
    <2> DEFINE r == [pub[q] EXCEPT !.state = "db_committed", !.decision = "commit",
                                   !.result = s, !.op = NoOwner, !.opLive = FALSE]
    <2>2. r.state = "db_committed" /\ r.id = pub[q].id /\ r.result = s
      BY <1>3 DEF PubRow
    <2>3. Released(s).status = s
      BY DEF Released
    <2>4. pub[q].state \in PreCommit /\ pub[q].id \in Worker
      BY <1>18, <1>3 DEF CommitPublication, Entered, RowInv, PreCommit, Active
    <2>5. fate' = [fate EXCEPT ![pub[q].id] = "committed"] /\ Later
      BY <1>18, Stays DEF CommitPublication
    <2>6. SetPub(q, r) /\ SetQueue(q, Released(s))
      BY <2>1
    <2>7. r.state \notin PreCommit
      BY <2>2 DEF PreCommit
    <2> HIDE DEF r
    <2>8. Atomic!ANext
      BY <1>1, <1>3, <2>2, <2>3, <2>4, <2>5, <2>6, CommitMapped DEF Atomic!ANext
    <2>9. Tokens'
      BY <1>1, <1>3, <2>2, <2>4, <2>5, <2>6, <2>7, EndTokens
    <2>q. QED
      BY <2>8, <2>9 DEF RStep
  <1>19. CASE _compensate_publication(p)
    <2> DEFINE s == [pub[q] EXCEPT !.state = "finalized", !.result = "failed",
                                   !.op = NoOwner, !.opLive = FALSE]
               r == Retire(s, p)
    <2>1. s \in PubRow /\ s.state = "finalized"
      BY <1>3, TypeSets DEF PubRow
    <2>2. r.state = "finalized"
      BY <2>1, Retired
    <2>3. pub[q].state \in PreCommit /\ pub[q].id \in Worker
          /\ queue[q].status = "importing"
      BY <1>19, <1>3 DEF _compensate_publication, Knows, GuardedPc, RowInv, PreCommit,
         Active
    <2>4. SetQueue(q, Released("failed")) /\ SetPub(q, r) /\ Later
          /\ fate' = [fate EXCEPT ![pub[q].id] = "compensated"]
      BY <1>19, <1>1, <2>3, Ends DEF _compensate_publication, LeaveUnit
    <2>5. Released("failed").status = "failed"
      BY DEF Released
    <2> HIDE DEF r
    <2>6. Atomic!ANext
      BY <1>1, <1>3, <2>2, <2>3, <2>4, <2>5, CompensateMapped DEF Atomic!ANext
    <2>7. r.state \notin PreCommit /\ r.state \notin PostCommit
      BY <2>2 DEF PreCommit, PostCommit
    <2>8. Tokens'
      BY <1>1, <1>3, <2>3, <2>4, <2>7, EndTokens
    <2>q. QED
      BY <2>6, <2>8 DEF RStep
  <1>20. CASE finalize_publication(p)
    <2> DEFINE imported == pub[q].result = "imported"
               s == [pub[q] EXCEPT !.state = IF imported THEN "deleted" ELSE "finalized",
                                   !.stage = "discarded", !.op = NoOwner, !.opLive = FALSE]
               r == Retire(s, p)
               k == IF imported THEN Released("deleted") ELSE queue[q]
    <2>1. s \in PubRow /\ s.state \in {"finalized", "deleted"}
      BY <1>3, TypeSets DEF PubRow
    <2>2. r.state \in {"finalized", "deleted"}
      <3> HIDE DEF s
      <3>q. QED
        BY <2>1, Retired
    <2>3. pub[q].state \in PostCommit /\ queue[q].status = pub[q].result
      BY <1>20, <1>3 DEF finalize_publication, Knows, GuardedPc, RowInv, PostCommit
    <2>4. SetQueue(q, k) /\ SetPub(q, r) /\ Later /\ fate' = fate
      BY <1>20, <1>1, Ends DEF finalize_publication, LeaveUnit
    <2>5. k.status = IF queue[q].status = "imported" THEN "deleted" ELSE queue[q].status
      BY <2>3 DEF Released
    <2> HIDE DEF r, k
    <2>6. Atomic!ANext
      BY <1>1, <1>3, <2>2, <2>3, <2>4, <2>5, FinalizeMapped DEF Atomic!ANext
    <2>7. r.state \notin Active
      BY <2>2 DEF Active, PreCommit, PostCommit
    <2>8. Tokens'
      BY <1>1, <1>3, <2>4, <2>7, CloseTokens
    <2>q. QED
      BY <2>6, <2>8 DEF RStep
  <1>q. QED
    BY <1>6, <1>7, <1>8, <1>9, <1>10, <1>11, <1>12, <1>13, <1>14, <1>15, <1>16, <1>17,
       <1>18, <1>19, <1>20 DEF UnitStep

-----------------------------------------------------------------------------
(* The replay loop, death and restart *)

LEMMA ReplayMapped ==
  ASSUME RInv, ReplayStep PROVE RStep
  <1>1. TypeOK /\ Tokens /\ Replay \in Proc /\ Replay \notin Worker
    BY PipelineAssumption DEF RInv, IInv, Proc
  <1>2. Later
    BY <1>1, Moves DEF ReplayStep, StartPass, PickPublication, EndPass, Goto
  <1>q. QED
    BY <1>1, <1>2, QuietStep DEF ReplayStep, StartPass, PickPublication, EndPass

LEMMA CrashMapped ==
  ASSUME RInv, Crash PROVE RStep
  <1>1. TypeOK /\ Tokens
    BY DEF RInv, IInv
  <1>2. Later
    <2>1. ASSUME NEW w \in Worker PROVE proc'[w].pc = "done" \/ proc'[w] = proc[w]
      BY <1>1, PipelineAssumption DEF Crash, TypeOK, Proc, Job
    <2>q. QED
      BY <2>1 DEF Later, Early
  <1>3. \A q \in Queue : pub'[q] = Retire(pub[q], Replay) /\ pub[q] \in PubRow
    BY <1>1 DEF Crash, TypeOK
  <1>4. queue' = queue /\ fate' = fate
    BY DEF Crash
  <1>5. \A q \in Queue : Hidden(q)
    BY <1>3, <1>4, Retired DEF Hidden, SameSide
  <1>q. QED
    BY <1>1, <1>2, <1>4, <1>5, HiddenStep

-----------------------------------------------------------------------------
\* Every step of the pipeline is a step of AtomicImport or a stutter, and keeps RInv.
LEMMA NextMapped ==
  ASSUME RInv, [Next]_vars PROVE RStep /\ RInv'
  <1>1. Tokens /\ IInv
    BY DEF RInv
  <1>2. SUFFICES RStep
    BY <1>1, NextIInv DEF RStep, RInv
  <1>3. CASE \E q \in Queue : QueueStep(q) \/ ExpireImportLease(q)
                            \/ ExpireOperationLease(q)
    BY <1>3, QueueStepMapped, ClockMapped
  <1>4. CASE \E w \in Worker : \/ \E q \in Queue : claim_import_queue_row(w, q)
                               \/ AttemptStep(w) \/ Cancel(w)
    BY <1>4, ClaimMapped, AttemptMapped
  <1>5. CASE \E p \in Proc : ProcStep(p)
    BY <1>5, AbortStepMapped, UnitStepMapped DEF ProcStep
  <1>6. CASE ReplayStep
    BY <1>6, ReplayMapped
  <1>7. CASE Crash
    BY <1>7, CrashMapped
  <1>8. CASE OrphanExits \/ Restart \/ UNCHANGED vars
    BY <1>8, <1>1, Stays, QuietStep DEF OrphanExits, Restart, vars
  <1>q. QED
    BY <1>3, <1>4, <1>5, <1>6, <1>7, <1>8 DEF Next

LEMMA InitMapped ==
  ASSUME Init PROVE RInv /\ Atomic!AInit
  <1>1. IInv
    BY InitIInv
  <1>2. \A q \in Queue : pub[q].state = "none" /\ queue[q].status = "absent"
    BY DEF Init, NoPub
  <1>3. \A q \in Queue : pub[q].state \notin Active
    BY <1>2 DEF Active, PreCommit, PostCommit
  <1>4. Tokens
    BY <1>3 DEF Init, Tokens, Fresh, OneEach, OpenUndecided, Names, Active
  <1>5. [q \in Queue |-> Transaction(q)] = [q \in Queue |-> Atomic!NoTxn]
    BY <1>3, NoTransaction
  <1>6. [q \in Queue |-> queue[q].status] = [q \in Queue |-> "absent"]
    BY <1>2
  <1>7. Atomic!AInit
    BY <1>5, <1>6 DEF Init, Atomic!AInit
  <1>q. QED
    BY <1>1, <1>4, <1>7 DEF RInv

\* Attempts, the replay loop, operators, expiring leases and crashes together never
\* do more to a queue row and the outcome of an import than AtomicImport allows: the
\* journaled import is one transaction that begins on an importing row, keeps
\* everybody else from the row while it is open, and is aborted, compensated or
\* committed exactly once.
THEOREM ImportAtomic == Spec => ImportIsAtomic
  <1>1. Init => RInv /\ Atomic!AInit
    BY InitMapped
  <1>2. RInv /\ [Next]_vars => RInv'
    BY NextMapped
  <1>3. RInv /\ [Next]_vars => [Atomic!ANext]_(Atomic!avars)
    BY NextMapped DEF RStep
  <1>q. QED
    BY <1>1, <1>2, <1>3, PTL DEF Spec, ImportIsAtomic, Atomic!ASpec
=============================================================================
