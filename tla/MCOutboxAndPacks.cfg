\* One delivery, the importing task and the replay loop, every kind of upset twice; and
\* one generated pack, with two stops and two foreign changes.  The outbox is at rest
\* when it is drained, a pack when its evidence is kept.
CONSTANTS
  c1 = c1
  w1 = w1
  w2 = w2
  NoOwner = NoOwner
  Connection = {c1}
  Effect = {}
  Dispatcher = {w1, w2}
  MaxLapses = 2
  MaxErrors = 2
  MaxStops = 2
  pk_MaxStops = 2
  pk_MaxForeign = 2
SPECIFICATION OutboxAndPacks
INVARIANTS
  RepeatedOnlyInDoubt
  NoOrphanPack
  SourcesKept
PROPERTIES
  AnswersStand
  OutboxDrains
  ForeignKept
  FenceEnds
CHECK_DEADLOCK FALSE
