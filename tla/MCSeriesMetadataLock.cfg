\* Two refreshes that began without a provider id, and a user who locks the id that
\* the first of them found.
CONSTANTS
  MaxEdits = 2
  MaxRuns = 1
  MaxStops = 0
SPECIFICATION Spec
PROPERTIES
  LockedIdStands
CHECK_DEADLOCK FALSE
