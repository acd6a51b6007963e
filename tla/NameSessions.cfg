SPECIFICATION MCSpec
CONSTANTS
  Member = {boss, m1}
  Manager = {boss}
  acme = acme
  acme2 = acme2
  bolt = bolt
  Id = {acme, acme2, bolt}
  Spelling = {"A", "B"}
  SpellingOf <- MCSpellingOf
  Call = {c1, c2}
  None = none
  MinFresh = 1
  MaxFresh = 2
  MinRound = 2
  MaxRound = 2
  MaxBatches = 2
  MaxRounds = 1
  MaxFails = 1
  MaxCalls = 5
INVARIANTS TypeOK OneOpen StampsTrue UniqueNames
PROPERTIES ReactionsKept Sealed BatchesGrow LateBallots
SYMMETRY Symmetry
CHECK_DEADLOCK FALSE
