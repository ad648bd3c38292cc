\* Two attempts on one row, the replay loop, one crash and one error.
CONSTANTS
  Queue = {q1}
  Worker = {w1, w2}
  Replay = replay
  Gone = gone
  Orphan = orphan
  NoOwner = null
  NoQueue = noqueue
  ImportSlots = 2
  MaxCrashes = 1
  MaxFaults = 1
SPECIFICATION FairSpec
INVARIANTS
  PublicationFencesQueue
  CommittedResultStands
  PublishedFromWholeStage
  OperationNotTakenOver
PROPERTIES
  ImportIsAtomic
  ImportSettles
