\* One operation of each kind: a rename of a rescan, two jobs of one direct download,
\* a loose chapter, an enrolled deletion, two rows with four import tasks, a series.
\* A unit that keeps its evidence for an operator may stop for good.
SPECIFICATION FairSpec
CONSTANTS
  rf_MaxStops = 2
  rf_MaxForeign = 1
  Item = {"item"}
  Job = {1, 2}
  Grabber = {"monitor"}
  MaxTries = 2
  File = {"f1", "f2", "f3"}
  NoFile = "none"
  MaxRows = 2
  cq_MaxForeign = 1
  MaxEdits = 1
  MaxInterrupts = 1
  fi_MaxForeign = 2
  MaxMounts = 1
  fi_MaxStops = 2
  Queue = {"q1", "q2"}
  Task = {"t1", "t2", "t3", "t4"}
  Producer = {"p1"}
  NoTask = "none"
  MaxLifespans = 2
  MaxChanges = 2
INVARIANTS
  RowsAgree
  VolumeReadable
  GrabbedIsTracked
  QuarantineSafe
  WorkersOwned
PROPERTIES
  LaterChangeStands
  OnlyOwnedDiscarded
  WorkEnds
CHECK_DEADLOCK FALSE
