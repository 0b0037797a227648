CONSTANTS
  Workers = {w1, w2}
  Texts = {a}
  SeedTexts = {s1}
  Seeds <- NoSeeds
  OddText = OddText
  NoText = NoText
  NoRow = NoRow
  OtherRow = OtherRow
  Positions = {0, 1}
  MaxProblems = 2
  MaxCases = 2
SPECIFICATION SpecAll
SYMMETRY Alike
INVARIANTS OwnCasesOnly
