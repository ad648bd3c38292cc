\* One copy, folder, series, indexer, library and refresh each, with these
\* bounds.  Bounded edits may be used up.
SPECIFICATION Spec
CONSTANTS
  cc_MaxStops = 2
  cc_MaxForeign = 3
  sb_Series = {1, 2}
  sb_MaxStops = 1
  sc_MaxVolume = 2
  sc_MaxChapter = 2
  sc_MaxEdits = 4
  rs_Url = {"u1", "u2"}
  rs_MaxEdits = 2
  rs_MaxFetches = 2
  ls_MaxId = 2
  ls_MaxEdits = 5
  sm_MaxEdits = 1
  sm_MaxRuns = 1
  sm_MaxStops = 1
INVARIANTS
  FolderKept
PROPERTIES
  CopiesSafe
  CatalogueKept
  SourcesHonoured
  SettingsHonoured
  MetadataHonoured
CHECK_DEADLOCK FALSE
