\* Two deletions of the volume, an import in between, changes by others and
\* interrupted units.  A blocked deletion and exhausted bounds may stop it all.
CONSTANTS
  File = {f1, f2, f3}
  NoFile = NoFile
  MaxJournals = 2
  MaxForeign = 2
  MaxInterrupts = 2
SPECIFICATION FairSpec
INVARIANTS
  ForeignSafe
  RowTruth
  Settled
PROPERTIES
  DeletionEnds
CHECK_DEADLOCK FALSE
