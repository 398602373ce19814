SPECIFICATION ArchiveSpec
CONSTANTS
  ShortTexts = {1, 2}
  Events = {"m1"}
  Calls = {c1, c2}
  Drafts <- RetoldDrafts
  Ingests = {i1, i2}
  Dates = {1, 2}
  Headings <- OneLine
  FirstDoc <- OneDream
  Edits = {"type", "retitle", "reword", "move", "erase"}
  MaxDocEdits = 1
  Orderly = FALSE
  Crashes = TRUE
INVARIANTS OneEntryOneRow
PROPERTIES StoredAsFetched ImplementsRegister
SYMMETRY Symmetry
