---------------------------- MODULE AtomicImport ----------------------------
(***************************************************************************)
(* What the import pipeline promises to everybody who looks at a queue row *)
(* and at the library: an import is a transaction on its row.  It begins   *)
(* on a row that is being imported, nobody writes the row while it is      *)
(* open, it has one outcome, and what it committed stands until it is      *)
(* finalized.  Leases, stages, locks, replays and crashes do not appear.   *)
(* ImportPipeline implements this specification.                           *)
(***************************************************************************)
CONSTANTS Queue,      \* rows of import_queue
          Attempt,    \* import attempts, each of which begins one transaction at most
          None

VARIABLES status,     \* per row
          txn,        \* per row, the transaction on it: [by, st, result]
          outcome     \* per attempt
avars == <<status, txn, outcome>>

NoTxn == [by |-> None, st |-> "none", result |-> "none"]

AInit ==
  /\ status = [q \in Queue |-> "absent"]
  /\ txn = [q \in Queue |-> NoTxn]
  /\ outcome = [w \in Attempt |-> "open"]

\* Discovery, operators, sweeps and attempts write a row without a transaction.  A
\* row appears as pending, and its id is not used again when it is deleted.
Write(q, s) ==
  /\ txn[q] = NoTxn
  /\ IF status[q] = "absent" THEN s = "pending" ELSE s # "absent"
  /\ status[q] # "deleted"
  /\ status' = [status EXCEPT ![q] = s]
  /\ UNCHANGED <<txn, outcome>>

Begin(q, w) ==
  /\ txn[q] = NoTxn /\ status[q] = "importing"
  /\ outcome[w] = "open" /\ \A r \in Queue : txn[r].by # w
  /\ txn' = [txn EXCEPT ![q] = [by |-> w, st |-> "open", result |-> "none"]]
  /\ UNCHANGED <<status, outcome>>

\* The transaction on q ends with the outcome o and leaves s in the row.
End(q, s, o) ==
  /\ txn[q].st = "open" /\ outcome[txn[q].by] = "open"
  /\ outcome' = [outcome EXCEPT ![txn[q].by] = o]
  /\ status' = [status EXCEPT ![q] = s]

Abort(q) ==
  /\ \E s \in {"importing", "pending", "partial"} : End(q, s, "aborted")
  /\ txn' = [txn EXCEPT ![q] = NoTxn]

Compensate(q) ==
  /\ End(q, "failed", "compensated")
  /\ txn' = [txn EXCEPT ![q] = NoTxn]

Commit(q, s) ==
  /\ End(q, s, "committed")
  /\ txn' = [txn EXCEPT ![q] = [by |-> @.by, st |-> "committed", result |-> s]]

\* An imported row goes with its transaction, a partly imported one stays as it is.
Finalize(q) ==
  /\ txn[q].st = "committed" /\ status[q] = txn[q].result
  /\ txn' = [txn EXCEPT ![q] = NoTxn]
  /\ status' = [status EXCEPT ![q] = IF @ = "imported" THEN "deleted" ELSE @]
  /\ UNCHANGED outcome

RowStatus == {"pending", "partial", "importing", "failed", "skipped", "deleted"}
ANext ==
  \E q \in Queue :
    \/ \E s \in RowStatus : Write(q, s)
    \/ \E w \in Attempt : Begin(q, w)
    \/ Abort(q) \/ Compensate(q) \/ Finalize(q)
    \/ \E s \in {"partial", "imported"} : Commit(q, s)

ASpec == AInit /\ [][ANext]_avars
=============================================================================
