SPECIFICATION BotSpec
CONSTANTS
  Parts = {"telling", "notes", "reading", "crossing", "failing"}
  TurnIds = {1, 2, 3}
  MaxKept = 2
  MaxExchanges = 4
  Archive = 3
  First <- Listed
  TextAsks <- Requests
  VoiceAsks <- Words
  Attempts = {1, 2}
  MaxTurns = 1
  MaxRestarts = 1
  MaxOutages = 1
  MaxLapses = 1
  d1 = d1
  d2 = d2
  ShortTexts = {1, 2, 3, 5}
  Entries <- Two
  BodyOf <- TwoBodies
  FirstHeads <- TwoHeads
  Typed <- Two
  Undelivered = {d2}
  Texts = {5, 15, 16, 17}
  LinesIn <- Lengths
  OldNotes <- Old
  Calls = {c1}
  Asked <- LongOnes
  Workers = {w1}
  MaxAttempts = 2
  Similar <- Alike
  NewHeads <- NewHead
  MaxEdits = 1
  LateThreads = FALSE
INVARIANTS FreshHistorySurvives NeverEchoed WrittenOnce ReadAsMeant SelectionWasShown VoiceCommandOnce
PROPERTIES NotesOwed
CHECK_DEADLOCK FALSE
