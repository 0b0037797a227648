CONSTANTS
  Judges = {j1, j2}
  Server = Server
  Left = Left
  Compiles = {"ok"}
  Programs <- Solving
  MaxCases = 1
  MayFail = {}
  BlankExpected = FALSE
  CpuSoft = 1
  CpuHard = 2
  RealLimit = 2
  CompileLimit = 1
  Prompt = TRUE
SPECIFICATION Spec
INVARIANTS CorrectAccepted
