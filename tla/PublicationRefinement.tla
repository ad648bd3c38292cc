------------------------ MODULE PublicationRefinement ------------------------
(***************************************************************************)
(* PublicationFiles as an implementation of AtomicBatch: a reader sees the *)
(* public names, and of the journal the decision and the final state.      *)
(***************************************************************************)
EXTENDS PublicationFiles

\* What is under the public name of f, if nobody else has changed it.
Shown(f) ==
  IF f \in outside THEN "theirs"
  ELSE IF At(f, "final") = "new" THEN "after"
  ELSE IF At(f, "final") = (IF f \in setup.overwrite THEN "old" ELSE "none") THEN "before"
  ELSE "missing"

SourceOf(f) ==
  IF f \in outside THEN "theirs" ELSE IF At(f, "src") = "srcdata" THEN "there" ELSE "taken"

Outcome ==
  CASE decision = "pending" -> "open"
    [] decision = "commit" -> "committed"
    [] decision = "compensate" -> "undoing"
    [] OTHER -> "undone"

Batch == INSTANCE AtomicBatch WITH
  move <- setup.move, outcome <- Outcome, closed <- state = "finalized",
  shown <- [f \in File |-> Shown(f)], source <- [f \in File |-> SourceOf(f)]

\* The publication implements AtomicBatch: whatever a unit finds in the journal and
\* wherever it is cut off, a reader sees the files of the batch appear in order and go in
\* the opposite order, never two missing at a time, all of them at the commit and none
\* at the end of a compensation (import_publication._publish_publication_owned,
\* _compensate_publication, _cleanup_move_source).
BatchIsAtomic == Batch!BSpec
=============================================================================
