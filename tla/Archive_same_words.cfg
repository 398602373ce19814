SPECIFICATION ArchiveSpec
CONSTANTS
  ShortTexts = {1, 2}
  Events = {"m1", "m2"}
  Calls = {c1, c2}
  Drafts <- SameWords
  Ingests = {i1}
  Dates = {1, 2}
  Headings <- Lines
  FirstDoc <- NoDream
  Edits = {}
  MaxDocEdits = 0
  Orderly = FALSE
  Crashes = FALSE
INVARIANT SameWordsOneRow
