SPECIFICATION PartsSpec
CONSTANTS
  d1 = d1
  d2 = d2
  Dreams = {d1, d2}
  Motifs = {1, 2}
  Requests = {r1, r2}
  Categories = {c1, c2}
  Seeded = {c1}
  Saliences = {light, heavy}
  Grounds = {"quoted"}
  MaxCommits = 3
  Interpreted = {d1}
  Texts <- Orders
  Names = {k1, k2}
  Words <- Quotes
  MaxReviews = 2
  Labels = {k1}
  Targets <- Repeated
  MaxControls = 2
INVARIANTS AuditComplete RestorableWasReal MotifsWarranted TakenAwayStaysAway AlwaysAnswered
PROPERTIES DecisionsSigned ImplementsShelf
SYMMETRY Symmetry
CHECK_DEADLOCK FALSE
