\* Two files; two interruptions and two changes by somebody else.  A unit that
\* retains its evidence may stop for good.
CONSTANTS
  N = 2
  MaxInterrupts = 2
  MaxForeign = 2
SPECIFICATION FairSpec
INVARIANTS
  FilesSafe
  BatchAccounted
PROPERTIES
  SettlesUnlessExposed
  BatchIsAtomic
CHECK_DEADLOCK FALSE
