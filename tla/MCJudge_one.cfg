CONSTANTS
  Judges = {j1}
  Server = Server
  Left = Left
  Compiles = {"ok", "error", "hang"}
  Programs <- AllPrograms
  MaxCases = 2
  MayFail = {"mkdtemp", "open", "pipe"}
  BlankExpected = FALSE
  CpuSoft = 1
  CpuHard = 2
  RealLimit = 2
  CompileLimit = 1
  Prompt = FALSE
SPECIFICATION Spec
INVARIANTS TypeOK CleanExit BlockedOnLive
PROPERTIES ImplementsGrading TleMeansLate
