CONSTANTS
  Judges = {j1}
  Server = Server
  Left = Left
  Compiles = {"hang"}
  Programs <- Solving
  MaxCases = 1
  MayFail = {}
  BlankExpected = FALSE
  CpuSoft = 1
  CpuHard = 2
  RealLimit = 2
  CompileLimit = 1
  Prompt = FALSE
SPECIFICATION FairSpec
PROPERTIES CompileTimeoutEnds
