\* A chapter of a special that has a number, and a chapter map that is applied.
CONSTANTS
  MaxVolume = 2
  MaxChapter = 2
  MaxEdits = 2
SPECIFICATION Spec
PROPERTIES
  MainlineNotSuppressed
CHECK_DEADLOCK FALSE
