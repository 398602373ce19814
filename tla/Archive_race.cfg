SPECIFICATION ArchiveSpec
CONSTANTS
  ShortTexts = {1, 2}
  Events = {"m1"}
  Calls = {}
  Drafts <- OneDraft
  Ingests = {i1, i2}
  Dates = {1, 2}
  Headings <- Lines
  FirstDoc <- OneDream
  Edits = {"retitle"}
  MaxDocEdits = 1
  Orderly = FALSE
  Crashes = FALSE
INVARIANT OneRowEver
