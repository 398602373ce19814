SPECIFICATION BotSpec
CONSTANTS
  Parts = {"notes"}
  TurnIds = {1, 2, 3}
  MaxKept = 2
  MaxExchanges = 4
  Archive = 3
  First <- Listed
  TextAsks <- ReplyRequests
  VoiceAsks <- ReplyWords
  Attempts = {1}
  MaxTurns = 2
  MaxRestarts = 0
  MaxOutages = 0
  MaxLapses = 0
  d1 = d1
  d2 = d2
  ShortTexts = {1, 2, 3, 5}
  Entries <- Two
  BodyOf <- TwoBodies
  FirstHeads <- TwoHeads
  Typed <- Two
  Undelivered = {d2}
  Texts = {5, 15, 16, 17}
  LinesIn <- Lengths
  OldNotes = {}
  Calls = {c1, c2}
  Asked <- ShortAndLong
  Workers = {w1}
  MaxAttempts = 2
  Similar <- Alike
  NewHeads = {}
  MaxEdits = 0
  LateThreads = FALSE
INVARIANTS NotesAreNoDreams
CHECK_DEADLOCK FALSE
