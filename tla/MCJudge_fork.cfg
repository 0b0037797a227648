CONSTANTS
  Judges = {j1, j2}
  Server = Server
  Left = Left
  Compiles = {"ok"}
  Programs <- FewPrograms
  MaxCases = 1
  MayFail = {"fork"}
  BlankExpected = FALSE
  CpuSoft = 1
  CpuHard = 2
  RealLimit = 1
  CompileLimit = 1
  Prompt = FALSE
SPECIFICATION FairSpec
PROPERTIES Answered OnlyOwnReap
INVARIANTS AcSound CleanExit BlockedOnLive
