-------------------------- MODULE ImportRefinement --------------------------
(***************************************************************************)
(* ImportPipeline as an implementation of AtomicImport: the status of the  *)
(* queue row is what everybody sees, the journal is the transaction, the   *)
(* history variable fate its outcome.                                      *)
(***************************************************************************)
EXTENDS ImportPipeline

\* The journal seen as a transaction on its row.
Transaction(q) ==
  CASE pub[q].state \in PreCommit ->
         [by |-> pub[q].id, st |-> "open", result |-> "none"]
    [] pub[q].state \in PostCommit ->
         [by |-> pub[q].id, st |-> "committed", result |-> pub[q].result]
    [] OTHER -> [by |-> NoOwner, st |-> "none", result |-> "none"]

Atomic == INSTANCE AtomicImport WITH
  Attempt <- Worker, None <- NoOwner, status <- [q \in Queue |-> queue[q].status],
  txn <- [q \in Queue |-> Transaction(q)], outcome <- fate

\* The pipeline implements AtomicImport: seen from the queue rows and the library,
\* an import happens as one transaction with one outcome, whatever attempts, the
\* replay loop, operators, expiring leases and crashes do in between
\* (import_publication.complete_publication, import_commit._commit_import).
ImportIsAtomic == Atomic!ASpec
=============================================================================
