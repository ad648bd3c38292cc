--------------------------- MODULE ImportPipeline ---------------------------
(***************************************************************************)
(* The import pipeline of Mangarr at the level of its database rows.       *)
(*                                                                         *)
(* An import attempt claims an `import_queue` row with a fresh lease token *)
(* (import_lease.py), plans it, journals a publication in                  *)
(* `import_publications`, stages the files, crosses the prepared barrier   *)
(* and settles the journal (import_execute.py, import_publication.py).     *)
(* A replay loop settles or aborts what dead or slow attempts leave.       *)
(* Attempts, the replay loop, lease recovery and the operators' requests   *)
(* interleave between database transactions, and the process can be        *)
(* killed between any two of them; the rows survive.                       *)
(*                                                                         *)
(* One action is one transaction (or one transaction with the filesystem   *)
(* step whose receipt it records).  What happens to the files inside a     *)
(* publication unit is the subject of module PublicationFiles.             *)
(*                                                                         *)
(* Abstractions: the two expiring leases are a Boolean `live`, cleared by  *)
(* the actions ExpireImportLease and ExpireOperationLease, because the     *)
(* code compares an expiry with one clock only as `expiry > now` and its   *)
(* negation.  An attempt journals at most one publication, so its token    *)
(* also stands for the AUTOINCREMENT id of that publication.               *)
(***************************************************************************)
EXTENDS Naturals, FiniteSets

CONSTANTS
  Queue,         \* ids of import_queue rows (AUTOINCREMENT, never reused)
  Worker,        \* lease tokens: one import attempt each (token_urlsafe(32))
  Replay,        \* the replay loop, holding one fresh operation token a time
  Gone,          \* an operation token whose replay has ended or died
  Orphan,        \* a transform subprocess that outlived its parent
  NoOwner,       \* SQL NULL
  NoQueue,       \* "works on no row"
  ImportSlots,   \* max_concurrent_imports
  MaxCrashes,    \* bound: kills of the process
  MaxFaults      \* bound: file-system or database errors met

ASSUME PipelineAssumption ==
  /\ Replay \notin Worker /\ Gone \notin Worker \union {Replay}
  /\ Orphan \notin Worker \union {Replay, Gone}
  /\ NoOwner \notin Worker \union {Replay, Gone, Orphan}
  /\ NoQueue \notin Queue
  /\ ImportSlots \in Nat \ {0} /\ MaxCrashes \in Nat /\ MaxFaults \in Nat

VARIABLES
  queue,     \* import_queue: status, lease_owner, lease_expires_at > now
  pub,       \* import_publications, keyed by its UNIQUE queue_id
  proc,      \* where each attempt and the replay loop is
  guard,     \* holder of the file-mutation lock (flock on a sidecar file)
  todo,      \* rows the current replay pass has still to examine
  service,   \* down, draining at startup, or up
  fate,      \* history: how each attempt's publication was decided
  crashes, faults

vars == <<queue, pub, proc, guard, todo, service, fate, crashes, faults>>

-----------------------------------------------------------------------------
Proc == Worker \union {Replay}

QueueStatus == {"absent", "pending", "partial", "importing", "imported",
                "failed", "skipped", "deleted"}

\* import_publication.ACTIVE states, split at the Phase 3 commit
PreCommit  == {"staging", "prepared", "publishing", "published"}
PostCommit == {"db_committed", "cleaning"}
Active     == PreCommit \union PostCommit
PubState   == Active \union {"none", "finalized", "deleted"}

StagePhase == {"none", "allocating", "ready", "discarding", "discarded"}
Decision   == {"none", "pending", "commit", "compensate", "compensated"}

\* Program points at which a process holds the file-mutation lock
GuardedPc == {"binding", "transform", "abort", "discarding", "discarded",
              "unit", "publish", "compensate", "compensated", "cleanup"}
FreePc    == {"idle", "done", "claimed", "planned", "bound", "staging",
              "staged", "refreshed", "artifacts", "completing", "aborting",
              "failCommit", "failing", "cancelling", "pass", "picked"}
\* What an attempt goes on to after a successful staging abort
After == {"failCommit", "failing", "cancelling", "done"}

NoPub == [id |-> NoOwner, state |-> "none", stage |-> "none",
          decision |-> "none", result |-> "none",
          op |-> NoOwner, opLive |-> FALSE]

QueueRow == [status: QueueStatus, owner: Worker \union {NoOwner}, live: BOOLEAN]

PubRow == [id: Worker \union {NoOwner}, state: PubState,
           stage: StagePhase, decision: Decision,
           result: {"none", "partial", "imported", "failed"},
           op: Proc \union {Gone, NoOwner}, opLive: BOOLEAN]

Job == [pc: GuardedPc \union FreePc, q: Queue \union {NoQueue},
        id: Worker \union {NoOwner}, after: After]

TypeOK ==
  /\ queue \in [Queue -> QueueRow]
  /\ pub \in [Queue -> PubRow]
  /\ proc \in [Proc -> Job]
  /\ guard \in Proc \union {NoOwner, Orphan}
  /\ todo \in SUBSET Queue
  /\ service \in {"down", "drain", "up"}
  /\ fate \in [Worker -> {"open", "aborted", "committed", "compensated"}]
  /\ crashes \in 0..MaxCrashes
  /\ faults \in 0..MaxFaults

Idle == [pc |-> "idle", q |-> NoQueue, id |-> NoOwner, after |-> "done"]

Init ==
  /\ queue = [q \in Queue |-> [status |-> "absent", owner |-> NoOwner,
                               live |-> FALSE]]
  /\ pub = [q \in Queue |-> NoPub]
  /\ proc = [p \in Proc |-> Idle]
  /\ guard = NoOwner
  /\ todo = {}
  /\ service = "up"
  /\ fate = [w \in Worker |-> "open"]
  /\ crashes = 0 /\ faults = 0

-----------------------------------------------------------------------------
(* Helpers: the WHERE clauses that recur in the code's statements.         *)

ActivePublication(q) == pub[q].state \in Active

\* import_queue row with a new status and no lease
Released(status) == [status |-> status, owner |-> NoOwner, live |-> FALSE]

Leased(w) == [status |-> "importing", owner |-> w, live |-> TRUE]

\* status='importing' AND lease_owner=? AND lease_expires_at > now
OwnsLiveLease(q, w) ==
  queue[q].status = "importing" /\ queue[q].owner = w /\ queue[q].live

\* operation_owner IS NULL, or ours, or expired
OperationFree(q, p) ==
  pub[q].op = NoOwner \/ pub[q].op = p \/ ~pub[q].opLive

OwnsLiveOperation(q, p) == pub[q].op = p /\ pub[q].opLive

\* the row that process p refers to by publication id is still there
Loaded(p) ==
  proc[p].q \in Queue /\ proc[p].id # NoOwner /\ pub[proc[p].q].id = proc[p].id

Goto(p, pc) == proc' = [proc EXCEPT ![p] = [proc[p] EXCEPT !.pc = pc]]
AbortThen(p, after) ==
  proc' = [proc EXCEPT ![p] = [proc[p] EXCEPT !.pc = "aborting", !.after = after]]

\* UPDATE import_publications ... WHERE queue_id = q
SetPub(q, r) == pub' = [pub EXCEPT ![q] = r]
SetQueue(q, k) == queue' = [queue EXCEPT ![q] = k]

\* The end of a unit of work: an attempt is over, the replay takes the next
\* id.  The replay's token is never used again, so it becomes Gone.
Ended(p) == IF p = Replay THEN [Idle EXCEPT !.pc = "pass"]
                          ELSE [proc[p] EXCEPT !.pc = "done"]
EndUnit(p) == proc' = [proc EXCEPT ![p] = Ended(p)]
Retire(r, p) == IF r.op = p /\ p = Replay THEN [r EXCEPT !.op = Gone] ELSE r

Fault == faults < MaxFaults /\ faults' = faults + 1

-----------------------------------------------------------------------------
(* The queue row: discovery, operators, sweeps (single transactions).      *)

QueueOnly == UNCHANGED <<pub, proc, guard, todo, service, fate, crashes, faults>>

\* the insert that a discovered download ends in
Enqueue(q) ==
  /\ service = "up"
  /\ queue[q].status = "absent"
  /\ SetQueue(q, Released("pending"))
  /\ QueueOnly

\* Mutation of Unleased: the journal is not consulted.
Unleased_unfenced(q) == queue[q].owner = NoOwner

Unleased(q) == queue[q].owner = NoOwner /\ ~ActivePublication(q)

skip_import_queue_entry(q) ==
  /\ service = "up"
  /\ queue[q].status \in {"pending", "partial"} /\ Unleased(q)
  /\ SetQueue(q, [queue[q] EXCEPT !.status = "skipped"])
  /\ QueueOnly

\* a review with no usable decision; one with decisions goes on to the claim
process_import(q) ==
  /\ service = "up"
  /\ queue[q].status \in {"pending", "partial"} /\ Unleased(q)
  /\ SetQueue(q, [queue[q] EXCEPT !.status = "partial"])
  /\ QueueOnly

\* has_review decides between partial and pending
retry_import_queue_entry(q) ==
  /\ service = "up"
  /\ queue[q].status \in {"failed", "partial"} /\ Unleased(q)
  /\ \E s \in {"pending", "partial"} : SetQueue(q, [queue[q] EXCEPT !.status = s])
  /\ QueueOnly

\* tasks: a pending row that no worker takes is failed by the stale sweep
fail_stale_pending_import_queue_row(q) ==
  /\ service = "up"
  /\ queue[q].status \in {"pending", "partial"} /\ Unleased(q)
  /\ SetQueue(q, Released("failed"))
  /\ QueueOnly

\* the two deletions an operator can ask for: clear failed and skipped rows,
\* or dismiss any row that is not being imported
clear_inactive_import_queue_entries(q) ==
  /\ service = "up"
  /\ queue[q].status \in {"failed", "skipped"} /\ Unleased(q)
  /\ SetQueue(q, Released("deleted"))
  /\ QueueOnly

dismiss_import_queue_entry(q) ==
  /\ service = "up"
  /\ queue[q].status \notin {"absent", "deleted", "importing"} /\ Unleased(q)
  /\ SetQueue(q, Released("deleted"))
  /\ QueueOnly

\* Mutation of recover_expired_import_leases: the publication fence is not
\* consulted.
recover_unfenced(q) ==
  /\ service = "up"
  /\ queue[q].status = "importing"
  /\ queue[q].owner = NoOwner \/ ~queue[q].live
  /\ \E s \in {"pending", "partial"} : SetQueue(q, Released(s))
  /\ QueueOnly

\* Mutation of recover_expired_import_leases: only ownerless rows are recovered.
recover_ownerless(q) ==
  /\ service = "up"
  /\ queue[q].status = "importing" /\ ~ActivePublication(q)
  /\ queue[q].owner = NoOwner
  /\ \E s \in {"pending", "partial"} : SetQueue(q, Released(s))
  /\ QueueOnly

\* an importing row whose lease is gone, and that no publication fences
recover_expired_import_leases(q) ==
  /\ service = "up"
  /\ queue[q].status = "importing" /\ ~ActivePublication(q)
  /\ queue[q].owner = NoOwner \/ ~queue[q].live
  /\ \E s \in {"pending", "partial"} : SetQueue(q, Released(s))
  /\ QueueOnly

-----------------------------------------------------------------------------
(* Clock and heartbeat.                                                    *)

ExpireImportLease(q) ==
  /\ queue[q].live
  /\ SetQueue(q, [queue[q] EXCEPT !.live = FALSE])
  /\ QueueOnly

\* under a unit that is still running this is a fault: the unit outlasted
\* the lease it renews between its files
ExpireOperationLease(q) ==
  /\ pub[q].opLive
  /\ IF guard = pub[q].op THEN Fault ELSE UNCHANGED faults
  /\ SetPub(q, [pub[q] EXCEPT !.opLive = FALSE])
  /\ UNCHANGED <<queue, proc, guard, todo, service, fate, crashes>>

\* transition_import_queue_row: owner CAS, refused under a publication
CanTransition(w) == OwnsLiveLease(proc[w].q, w) /\ ~ActivePublication(proc[w].q)

-----------------------------------------------------------------------------
(* An attempt, up to its publication.                                      *)

Running(w) == proc[w].pc \notin {"idle", "done"}

claim_import_queue_row(w, q) ==
  /\ service = "up" /\ guard = NoOwner
  /\ proc[w].pc = "idle"
  /\ Cardinality({v \in Worker : Running(v)}) < ImportSlots
  /\ queue[q].status \in {"pending", "partial"}
  /\ queue[q].owner = NoOwner
  /\ ~ActivePublication(q)
  /\ SetQueue(q, Leased(w))
  /\ proc' = [proc EXCEPT ![w] = [pc |-> "claimed", q |-> q, id |-> w,
                                  after |-> "done"]]
  /\ UNCHANGED <<pub, guard, todo, service, fate, crashes, faults>>

\* Phase 1: the renewal is the first and the last write of the transaction,
\* so a stale owner's plan is rolled back.  A plan without a destination
\* folder fails the row, one without files releases it, inside the same
\* transaction.
PlanImport(w) ==
  LET q == proc[w].q IN
  /\ proc[w].pc = "claimed"
  /\ \/ /\ OwnsLiveLease(q, w)
        /\ Goto(w, "planned")
        /\ UNCHANGED queue
     \/ /\ CanTransition(w)
        /\ \E s \in {"failed", "pending", "partial"} :
             SetQueue(q, Released(s))
        /\ EndUnit(w)
     \/ /\ ~OwnsLiveLease(q, w)
        /\ EndUnit(w)
        /\ UNCHANGED queue
  /\ UNCHANGED <<pub, guard, todo, service, fate, crashes, faults>>

\* _commit_import without a publication: nothing to publish, no room, or a
\* failed stage.  A lease lost since is either noticed by the renewal (the
\* attempt ends) or, after it, raised and rolled back (the attempt fails).
CommitWithoutPublication(w) ==
  LET q == proc[w].q IN
  /\ proc[w].pc \in {"planned", "failCommit"}
  /\ \/ /\ CanTransition(w)
        /\ \E s \in IF proc[w].pc = "planned" THEN {"failed", "partial", "deleted"}
                                              ELSE {"failed"} :
             SetQueue(q, Released(s))
        /\ EndUnit(w)
     \/ /\ ~OwnsLiveLease(q, w)
        /\ EndUnit(w)
        /\ UNCHANGED queue
  /\ UNCHANGED <<pub, guard, todo, service, fate, crashes, faults>>

-----------------------------------------------------------------------------
(* An attempt's publication: journal first, then the files, then the       *)
(* prepared barrier.                                                       *)

\* create_publication inside _initialize_publication_filesystem_owned: the
\* row and the allocation intent, under the lock, before the carrier exists.
\* A finished journal of the same row is replaced.
create_publication(w) ==
  LET q == proc[w].q IN
  /\ proc[w].pc = "planned" /\ guard = NoOwner
  /\ OwnsLiveLease(q, w) /\ ~ActivePublication(q)
  /\ SetPub(q, [id |-> w, state |-> "staging",
               stage |-> "allocating", decision |-> "pending",
               result |-> "none", op |-> NoOwner, opLive |-> FALSE])
  /\ guard' = w
  /\ Goto(w, "binding")
  /\ UNCHANGED <<queue, todo, service, fate, crashes, faults>>

\* a busy lock, a lost lease or an unreadable source raises before the row
CreateRefused(w) ==
  /\ proc[w].pc = "planned"
  /\ \/ guard # NoOwner /\ UNCHANGED faults
     \/ ~OwnsLiveLease(proc[w].q, w) /\ UNCHANGED faults
     \/ Fault
  /\ Goto(w, "failing")
  /\ UNCHANGED <<queue, pub, guard, todo, service, fate, crashes>>

\* The carrier's receipt, bound only for a live lease.  A lost lease or a
\* failed allocation leaves the intent in the journal, and the carrier, if
\* there is one, on disk.
BindStageCarrier(w) ==
  LET q == proc[w].q IN
  /\ proc[w].pc = "binding"
  /\ guard' = NoOwner
  /\ \/ /\ OwnsLiveLease(q, w) /\ pub[q].state = "staging" /\ pub[q].op = NoOwner
        /\ SetPub(q, [pub[q] EXCEPT !.stage = "ready"])
        /\ Goto(w, "bound")
        /\ UNCHANGED faults
     \/ /\ ~OwnsLiveLease(q, w)
        /\ Goto(w, "failing")
        /\ UNCHANGED <<pub, faults>>
     \/ /\ Fault
        /\ Goto(w, "failing")
        /\ UNCHANGED pub
  /\ UNCHANGED <<queue, todo, service, fate, crashes>>

\* The second create_publication re-reads the journal under the lock.
ConfirmPublication(w) ==
  LET q == proc[w].q IN
  /\ proc[w].pc = "bound"
  /\ \/ /\ guard = NoOwner /\ Loaded(w) /\ OwnsLiveLease(q, w)
        /\ Goto(w, "staging")
     \/ /\ guard # NoOwner \/ ~Loaded(w) \/ ~OwnsLiveLease(q, w)
        /\ AbortThen(w, "failing")
  /\ UNCHANGED <<queue, pub, guard, todo, service, fate, crashes, faults>>

\* open_publication_stage: what a stage mutation requires
StageOpen(w) ==
  LET q == proc[w].q IN
  /\ Loaded(w) /\ pub[q].state = "staging" /\ pub[q].op = NoOwner
  /\ pub[q].stage = "ready" /\ OwnsLiveLease(q, w)

StageBegin(w) ==
  /\ proc[w].pc = "staging" /\ guard = NoOwner /\ StageOpen(w)
  /\ guard' = w
  /\ Goto(w, "transform")
  /\ UNCHANGED <<queue, pub, todo, service, fate, crashes, faults>>

StageEnd(w) ==
  /\ proc[w].pc = "transform"
  /\ guard' = NoOwner
  /\ \/ Goto(w, "staged") /\ UNCHANGED faults
     \/ /\ Fault
        /\ AbortThen(w, "failCommit")
  /\ UNCHANGED <<queue, pub, todo, service, fate, crashes>>

\* a busy lock or a lost stage is a failed file, hence a failed batch
StageRefused(w) ==
  /\ proc[w].pc = "staging"
  /\ guard # NoOwner \/ ~StageOpen(w)
  /\ AbortThen(w, "failCommit")
  /\ UNCHANGED <<queue, pub, guard, todo, service, fate, crashes, faults>>

RefreshBeforeBarrier(w) ==
  /\ proc[w].pc = "staged"
  /\ IF OwnsLiveLease(proc[w].q, w)
     THEN Goto(w, "refreshed")
     ELSE AbortThen(w, "done")
  /\ UNCHANGED <<queue, pub, guard, todo, service, fate, crashes, faults>>

prepare_staged_artifacts(w) ==
  LET ready == /\ guard = NoOwner /\ Loaded(w)
               /\ pub[proc[w].q].state = "staging" /\ pub[proc[w].q].stage = "ready"
  IN
  /\ proc[w].pc = "refreshed"
  /\ \/ ready /\ Goto(w, "artifacts") /\ UNCHANGED faults
     \/ /\ ~ready \/ faults < MaxFaults
        /\ AbortThen(w, "failing")
        /\ faults' = IF ready THEN faults + 1 ELSE faults
  /\ UNCHANGED <<queue, pub, guard, todo, service, fate, crashes>>

\* Neither the lock nor the lease is looked at here: only the fence.
commit_prepared_barrier(w) ==
  LET q == proc[w].q
      ok == Loaded(w) /\ pub[q].state = "staging" /\ pub[q].op = NoOwner
  IN
  /\ proc[w].pc = "artifacts"
  /\ IF ok
     THEN /\ SetPub(q, [pub[q] EXCEPT !.state = "prepared"])
          /\ Goto(w, "completing")
     ELSE /\ AbortThen(w, "failing")
          /\ UNCHANGED pub
  /\ UNCHANGED <<queue, guard, todo, service, fate, crashes, faults>>

\* Cancellation is delivered between the uninterruptible steps.  With a
\* journal it first aborts the stage; once prepared, the unit settles first.
Cancel(w) ==
  /\ proc[w].pc \in {"claimed", "planned", "bound", "staged", "refreshed",
                     "artifacts"}
  /\ IF proc[w].pc \in {"claimed", "planned"} THEN Goto(w, "cancelling")
                                              ELSE AbortThen(w, "cancelling")
  /\ UNCHANGED <<queue, pub, guard, todo, service, fate, crashes, faults>>

\* _guarded_execute_import's last writes: 'failed' after an exception,
\* pending/partial after a cancellation, both refused under a publication
SettleAttempt(w) ==
  LET q == proc[w].q IN
  /\ proc[w].pc \in {"failing", "cancelling"}
  /\ IF CanTransition(w)
     THEN \E s \in IF proc[w].pc = "failing" THEN {"failed"}
                                             ELSE {"pending", "partial"} :
            SetQueue(q, Released(s))
     ELSE UNCHANGED queue
  /\ EndUnit(w)
  /\ UNCHANGED <<pub, guard, todo, service, fate, crashes, faults>>

-----------------------------------------------------------------------------
(* The replay loop and the staging abort it shares with the attempts.      *)

StartPass ==
  /\ service \in {"drain", "up"} /\ proc[Replay].pc = "idle"
  /\ todo' = {q \in Queue : ActivePublication(q)}
  /\ Goto(Replay, "pass")
  /\ UNCHANGED <<queue, pub, guard, service, fate, crashes, faults>>

\* _replay_publication_id reads the row; the id may settle meanwhile
PickPublication(q) ==
  /\ proc[Replay].pc = "pass" /\ q \in todo
  /\ todo' = todo \ {q}
  /\ proc' = [proc EXCEPT ![Replay] =
       IF ~ActivePublication(q) THEN [Idle EXCEPT !.pc = "pass"]
       ELSE [pc |-> IF pub[q].state = "staging" THEN "aborting" ELSE "completing",
             q |-> q, id |-> pub[q].id, after |-> "done"]]
  /\ UNCHANGED <<queue, pub, guard, service, fate, crashes, faults>>

\* the drain at startup is one pass, made before the application serves
EndPass ==
  /\ proc[Replay].pc = "pass" /\ todo = {}
  /\ proc' = [proc EXCEPT ![Replay] = Idle]
  /\ service' = IF service = "drain" THEN "up" ELSE service
  /\ UNCHANGED <<queue, pub, guard, todo, fate, crashes, faults>>

\* abort_private_staging's authority: an attempt needs its own token in the
\* queue row and no fence; the replay needs a dead queue lease and takes the
\* fence (_claim_staging_recovery)
MayAbort(p) ==
  LET q == proc[p].q IN
  /\ Loaded(p) /\ pub[q].state = "staging"
  /\ IF p = Replay THEN OperationFree(q, p) /\ ~queue[q].live
                   ELSE pub[q].op = NoOwner /\ queue[q].owner = pub[q].id

AbortEnter(p) ==
  LET q == proc[p].q IN
  /\ proc[p].pc = "aborting" /\ guard = NoOwner /\ MayAbort(p)
  /\ guard' = p
  /\ SetPub(q, IF p = Replay THEN [pub[q] EXCEPT !.op = p, !.opLive = TRUE] ELSE pub[q])
  /\ Goto(p, "abort")
  /\ UNCHANGED <<queue, todo, service, fate, crashes, faults>>

\* Where a failed abort leaves its process: the replay goes on, an attempt
\* raises (rollback) or re-raises its cancellation
AbortFailed(p) ==
  \/ EndUnit(p) /\ p = Replay
  \/ Goto(p, "failing") /\ p # Replay
  \/ Goto(p, "cancelling") /\ p # Replay /\ proc[p].after = "cancelling"

AbortRefused(p) ==
  /\ proc[p].pc = "aborting"
  /\ guard # NoOwner \/ ~MayAbort(p)
  /\ AbortFailed(p)
  /\ UNCHANGED <<queue, pub, guard, todo, service, fate, crashes, faults>>

\* _remove_owned_staging: discarding is durable before a child is removed,
\* discarded before the journal row may be deleted
StageRecord(p, from, phase) ==
  LET q == proc[p].q IN
  /\ pub[q].stage \in from
  /\ SetPub(q, [pub[q] EXCEPT !.stage = phase])
  /\ Goto(p, phase)
  /\ UNCHANGED <<queue, guard, todo, service, fate, crashes, faults>>

AbortDiscarding(p) ==
  proc[p].pc = "abort" /\ StageRecord(p, {"ready", "discarding"}, "discarding")

AbortDiscarded(p) ==
  \/ proc[p].pc = "discarding" /\ StageRecord(p, {"discarding"}, "discarded")
  \/ proc[p].pc = "abort" /\ StageRecord(p, {"discarded"}, "discarded")

\* No carrier receipt, or an error while removing: the journal is retained
\* and a recovery fence is released.
AbortRetained(p) ==
  LET q == proc[p].q IN
  /\ \/ proc[p].pc = "abort" /\ pub[q].stage = "allocating" /\ UNCHANGED faults
     \/ proc[p].pc \in {"abort", "discarding", "discarded"} /\ Fault
  /\ guard' = NoOwner
  /\ SetPub(q, IF p = Replay THEN [pub[q] EXCEPT !.op = NoOwner, !.opLive = FALSE]
                             ELSE pub[q])
  /\ AbortFailed(p)
  /\ UNCHANGED <<queue, todo, service, fate, crashes>>

\* The row goes; a recovery abort also releases the queue row.
abort_staging_publication(p) ==
  LET q == proc[p].q IN
  /\ proc[p].pc = "discarded"
  /\ IF p = Replay THEN pub[q].op = p /\ ~queue[q].live
                   ELSE pub[q].op = NoOwner /\ queue[q].owner = pub[q].id
  /\ guard' = NoOwner
  /\ SetPub(q, NoPub)
  /\ fate' = [fate EXCEPT ![pub[q].id] = "aborted"]
  /\ IF p = Replay
     THEN /\ \E s \in {"pending", "partial"} :
               SetQueue(q, IF queue[q].status = "importing" THEN Released(s)
                                                            ELSE queue[q])
          /\ EndUnit(p)
     ELSE /\ Goto(p, proc[p].after)
          /\ UNCHANGED queue
  /\ UNCHANGED <<todo, service, crashes, faults>>

-----------------------------------------------------------------------------
(* _complete_publication_unit: one lock holder from the first CAS to the   *)
(* terminal row, run by the attempt and by the replay alike.               *)

\* Mutation of UnitEnter: the lock is not waited for.
UnitEnter_unlocked(p) ==
  /\ proc[p].pc = "completing"
  /\ guard' = p
  /\ Goto(p, "unit")
  /\ UNCHANGED <<queue, pub, todo, service, fate, crashes, faults>>

UnitEnter(p) ==
  /\ proc[p].pc = "completing" /\ guard = NoOwner
  /\ guard' = p
  /\ Goto(p, "unit")
  /\ UNCHANGED <<queue, pub, todo, service, fate, crashes, faults>>

UnitBusy(p) ==
  /\ proc[p].pc = "completing" /\ guard # NoOwner
  /\ EndUnit(p)
  /\ UNCHANGED <<queue, pub, guard, todo, service, fate, crashes, faults>>

\* Leave the unit with row r in place of p's row
LeaveUnit(p, r) ==
  /\ guard' = NoOwner
  /\ SetPub(proc[p].q, Retire(r, p))
  /\ EndUnit(p)

\* nothing to do, or another token's operation is still live
UnitReturns(p) ==
  LET q == proc[p].q IN
  /\ proc[p].pc = "unit"
  /\ ~Loaded(p) \/ ~ActivePublication(q) \/ ~OperationFree(q, p)
  /\ LeaveUnit(p, pub[q])
  /\ UNCHANGED <<queue, todo, service, fate, crashes, faults>>

Entered(p, states) ==
  proc[p].pc = "unit" /\ Loaded(p) /\ pub[proc[p].q].state \in states
    /\ OperationFree(proc[p].q, p)

Claimed(p, q, state) ==
  SetPub(q, [pub[q] EXCEPT !.state = state, !.op = p, !.opLive = TRUE])

_claim_publication_operation(p) ==
  LET q == proc[p].q IN
  /\ Entered(p, {"prepared", "publishing"})
  /\ Claimed(p, q, "publishing")
  /\ Goto(p, IF pub[q].decision = "pending" THEN "publish" ELSE "compensate")
  /\ UNCHANGED <<queue, guard, todo, service, fate, crashes, faults>>

\* Mutation of _publish_publication_owned: the stage receipt is not checked.
publish_any_stage(p) ==
  LET q == proc[p].q IN
  /\ proc[p].pc = "publish" /\ OwnsLiveOperation(q, p)
  /\ SetPub(q, [pub[q] EXCEPT !.state = "published", !.op = NoOwner,
                              !.opLive = FALSE])
  /\ Goto(p, "unit")
  /\ UNCHANGED <<queue, guard, todo, service, fate, crashes, faults>>

\* Every file is published from a ready stage, the operation lease renewed
\* before each; publishing -> published gives the operation token back.
_publish_publication_owned(p) ==
  LET q == proc[p].q IN
  /\ proc[p].pc = "publish" /\ OwnsLiveOperation(q, p)
  /\ pub[q].stage = "ready"
  /\ SetPub(q, [pub[q] EXCEPT !.state = "published", !.op = NoOwner,
                        !.opLive = FALSE])
  /\ Goto(p, "unit")
  /\ UNCHANGED <<queue, guard, todo, service, fate, crashes, faults>>

\* PublicationBlocked: an unproven stage or a changed library file turns the
\* pending decision into compensation
PublishBlocked(p) ==
  LET q == proc[p].q IN
  /\ proc[p].pc = "publish" /\ OwnsLiveOperation(q, p)
  /\ IF pub[q].stage = "ready" THEN Fault ELSE UNCHANGED faults
  /\ SetPub(q, [pub[q] EXCEPT !.decision = "compensate", !.op = NoOwner,
                        !.opLive = FALSE])
  /\ Goto(p, "unit")
  /\ UNCHANGED <<queue, guard, todo, service, fate, crashes>>

\* an OSError while publishing, or any error in the later parts of the unit:
\* every proof and the active state stay, the operation token is released
UnitBlocked(p) ==
  LET q == proc[p].q IN
  /\ \/ proc[p].pc \in {"publish", "compensate", "cleanup"}
     \/ Entered(p, {"published"}) /\ pub[q].decision = "pending"
  /\ Fault
  /\ LeaveUnit(p, IF pub[q].op = p
                  THEN [pub[q] EXCEPT !.op = NoOwner, !.opLive = FALSE]
                  ELSE pub[q])
  /\ UNCHANGED <<queue, todo, service, fate, crashes>>

\* PublicationOwnershipLost: the token expired under us; it stays in the row
UnitLost(p) ==
  LET q == proc[p].q IN
  /\ proc[p].pc \in {"publish", "compensate", "cleanup"}
  /\ ~OwnsLiveOperation(q, p)
  /\ LeaveUnit(p, pub[q])
  /\ UNCHANGED <<queue, todo, service, fate, crashes, faults>>

\* _commit_import(publication_id): claim, decision, library rows, queue row
\* and db_committed in one transaction
CommitPublication(p) ==
  LET q == proc[p].q IN
  /\ Entered(p, {"published"}) /\ pub[q].decision = "pending"
  /\ queue[q].status = "importing"
  /\ \E s \in {"partial", "imported"} :
       /\ SetQueue(q, Released(s))
       /\ SetPub(q, [pub[q] EXCEPT !.state = "db_committed", !.decision = "commit",
                             !.result = s, !.op = NoOwner, !.opLive = FALSE])
  /\ fate' = [fate EXCEPT ![pub[q].id] = "committed"]
  /\ UNCHANGED <<proc, guard, todo, service, crashes, faults>>

\* Mutation of AdmissionChanged: a committed publication is compensated too.
AdmissionChanged_late(p) ==
  LET q == proc[p].q IN
  /\ Entered(p, {"published", "db_committed"})
  /\ SetPub(q, [pub[q] EXCEPT !.decision = "compensate", !.op = p, !.opLive = TRUE])
  /\ Goto(p, "compensate")
  /\ UNCHANGED <<queue, guard, todo, service, fate, crashes, faults>>

\* the library rows the plan was admitted against have changed
AdmissionChanged(p) ==
  LET q == proc[p].q IN
  /\ Entered(p, {"published"}) /\ pub[q].decision = "pending"
  /\ SetPub(q, [pub[q] EXCEPT !.decision = "compensate", !.op = p,
                        !.opLive = TRUE])
  /\ Goto(p, "compensate")
  /\ UNCHANGED <<queue, guard, todo, service, fate, crashes, faults>>

ResumeCompensation(p) ==
  LET q == proc[p].q IN
  /\ Entered(p, {"published"}) /\ pub[q].decision \in {"compensate", "compensated"}
  /\ Claimed(p, q, "published")
  /\ Goto(p, "compensate")
  /\ UNCHANGED <<queue, guard, todo, service, fate, crashes, faults>>

\* _compensate_publication: files back, stage discarded, decision recorded ...
CompensateFiles(p) ==
  LET q == proc[p].q IN
  /\ proc[p].pc = "compensate" /\ OwnsLiveOperation(q, p)
  /\ SetPub(q, [pub[q] EXCEPT !.decision = "compensated", !.stage = "discarded"])
  /\ Goto(p, "compensated")
  /\ UNCHANGED <<queue, guard, todo, service, fate, crashes, faults>>

\* ... then the terminal row and the failed queue row in one transaction
_compensate_publication(p) ==
  LET q == proc[p].q IN
  /\ proc[p].pc = "compensated" /\ pub[q].op = p
  /\ LeaveUnit(p, [pub[q] EXCEPT !.state = "finalized", !.result = "failed",
                                 !.op = NoOwner, !.opLive = FALSE])
  /\ SetQueue(q, IF queue[q].status = "importing" THEN Released("failed") ELSE queue[q])
  /\ fate' = [fate EXCEPT ![pub[q].id] = "compensated"]
  /\ UNCHANGED <<todo, service, crashes, faults>>

claim_publication_cleanup(p) ==
  LET q == proc[p].q IN
  /\ Entered(p, PostCommit)
  /\ Claimed(p, q, "cleaning")
  /\ Goto(p, "cleanup")
  /\ UNCHANGED <<queue, guard, todo, service, fate, crashes, faults>>

\* an imported row is deleted with its journal, any other keeps its status
finalize_publication(p) ==
  LET q == proc[p].q
      imported == pub[q].result = "imported"
  IN
  /\ proc[p].pc = "cleanup" /\ OwnsLiveOperation(q, p)
  /\ SetQueue(q, IF imported THEN Released("deleted") ELSE queue[q])
  /\ LeaveUnit(p, [pub[q] EXCEPT !.state = IF imported THEN "deleted" ELSE "finalized",
                                 !.stage = "discarded",
                                 !.op = NoOwner, !.opLive = FALSE])
  /\ UNCHANGED <<todo, service, fate, crashes, faults>>

-----------------------------------------------------------------------------
(* Death and restart of the process.                                       *)

\* The kernel frees the lock, unless a transform subprocess inherited it.
Crash ==
  /\ service # "down" /\ crashes < MaxCrashes
  /\ service' = "down" /\ crashes' = crashes + 1
  /\ guard' \in IF guard = Orphan \/ \E w \in Worker : proc[w].pc = "transform"
                THEN {guard, Orphan, NoOwner} \ Worker ELSE {NoOwner}
  /\ proc' = [p \in Proc |-> IF p = Replay THEN Idle
                             ELSE IF Running(p) THEN [proc[p] EXCEPT !.pc = "done"]
                             ELSE proc[p]]
  /\ pub' = [q \in Queue |-> Retire(pub[q], Replay)]
  /\ todo' = {}
  /\ UNCHANGED <<queue, fate, faults>>

OrphanExits ==
  /\ guard = Orphan /\ guard' = NoOwner
  /\ UNCHANGED <<queue, pub, proc, todo, service, fate, crashes, faults>>

Restart ==
  /\ service = "down" /\ service' = "drain"
  /\ UNCHANGED <<queue, pub, proc, guard, todo, fate, crashes, faults>>

-----------------------------------------------------------------------------
QueueStep(q) ==
  \/ Enqueue(q) \/ skip_import_queue_entry(q) \/ process_import(q)
  \/ retry_import_queue_entry(q)
  \/ fail_stale_pending_import_queue_row(q) \/ dismiss_import_queue_entry(q)
  \/ clear_inactive_import_queue_entries(q) \/ recover_expired_import_leases(q)

AttemptStep(w) ==
  \/ PlanImport(w) \/ CommitWithoutPublication(w)
  \/ create_publication(w) \/ CreateRefused(w) \/ BindStageCarrier(w)
  \/ ConfirmPublication(w) \/ StageBegin(w) \/ StageEnd(w) \/ StageRefused(w)
  \/ RefreshBeforeBarrier(w) \/ prepare_staged_artifacts(w)
  \/ commit_prepared_barrier(w) \/ SettleAttempt(w)

\* the steps an attempt and the replay have in common
AbortStep(p) ==
  \/ AbortEnter(p) \/ AbortRefused(p) \/ AbortDiscarding(p) \/ AbortDiscarded(p)
  \/ AbortRetained(p) \/ abort_staging_publication(p)

UnitStep(p) ==
  \/ UnitEnter(p) \/ UnitBusy(p) \/ UnitReturns(p) \/ UnitBlocked(p) \/ UnitLost(p)
  \/ _claim_publication_operation(p) \/ _publish_publication_owned(p)
  \/ PublishBlocked(p) \/ CommitPublication(p) \/ AdmissionChanged(p)
  \/ ResumeCompensation(p) \/ CompensateFiles(p) \/ _compensate_publication(p)
  \/ claim_publication_cleanup(p) \/ finalize_publication(p)

ProcStep(p) == AbortStep(p) \/ UnitStep(p)

ReplayStep == StartPass \/ (\E q \in Queue : PickPublication(q)) \/ EndPass

Next ==
  \/ \E q \in Queue : QueueStep(q) \/ ExpireImportLease(q) \/ ExpireOperationLease(q)
  \/ \E w \in Worker : \/ \E q \in Queue : claim_import_queue_row(w, q)
                       \/ AttemptStep(w) \/ Cancel(w)
  \/ \E p \in Proc : ProcStep(p)
  \/ ReplayStep
  \/ Crash \/ OrphanExits \/ Restart

Spec == Init /\ [][Next]_vars

-----------------------------------------------------------------------------
(* Safety.                                                                 *)

\* While a publication is being staged, prepared, published or is waiting for
\* its Phase 3 commit, its queue row stays 'importing' under the token that
\* journaled it: no operator request, lease recovery or second attempt gets
\* between the journal and the row it will commit into, whatever expires.
PublicationFencesQueue ==
  \A q \in Queue : pub[q].state \in PreCommit =>
    queue[q].status = "importing" /\ queue[q].owner = pub[q].id

\* Between the Phase 3 commit and finalize_publication the queue row keeps
\* the status that the commit recorded in the journal, so the cleanup deletes
\* exactly the rows that were imported.
CommittedResultStands ==
  \A q \in Queue : pub[q].state \in PostCommit =>
    queue[q].status = pub[q].result /\ queue[q].owner = NoOwner

\* What is published and not to be compensated came out of a stage that no
\* abort, of the attempt or of the replay, had begun to discard.
PublishedFromWholeStage ==
  \A q \in Queue :
    pub[q].state \in {"published"} \union PostCommit
      /\ pub[q].decision \in {"pending", "commit"} => pub[q].stage = "ready"

\* Inside its unit a process keeps the journal row and the operation token it
\* claimed: an expired operation lease is never taken over under it, because
\* a contender must first get the file-mutation lock.
OperationNotTakenOver ==
  \A p \in Proc : proc[p].pc \in {"publish", "compensate", "compensated", "cleanup"} =>
    Loaded(p) /\ pub[proc[p].q].op = p

-----------------------------------------------------------------------------
(* Liveness.                                                               *)

\* The journal records an allocation whose receipt was lost: the code keeps
\* it, and the row behind it, for an operator (import_publication.py:1730).
RetainedAllocation(q) == pub[q].state = "staging" /\ pub[q].stage = "allocating"

\* Threads and coroutines make progress; the replay loop and the stuck-state
\* sweep run periodically; a supervisor restarts the service; a transform
\* subprocess ends; the clock passes the expiry of a lease nobody renews.
Fairness ==
  /\ \A w \in Worker : WF_vars(AttemptStep(w))
  /\ \A p \in Proc : WF_vars(ProcStep(p))
  /\ WF_vars(ReplayStep)
  /\ WF_vars(Restart) /\ WF_vars(OrphanExits)
  /\ \A q \in Queue :
       /\ WF_vars(recover_expired_import_leases(q))
       /\ WF_vars(queue[q].owner \in Worker /\ ~Running(queue[q].owner)
                    /\ ExpireImportLease(q))
       /\ WF_vars(guard # pub[q].op /\ ExpireOperationLease(q))

FairSpec == Spec /\ Fairness

\* Every claimed row is eventually released, failed, imported or deleted,
\* and every journal reaches a terminal state or is aborted, through any
\* finite number of crashes and errors, unless its allocation is retained.
ImportSettles ==
  \A q \in Queue :
    /\ queue[q].status = "importing" ~>
         queue[q].status # "importing" \/ RetainedAllocation(q)
    /\ ActivePublication(q) ~> ~ActivePublication(q) \/ RetainedAllocation(q)
=============================================================================
