SPECIFICATION DisciplinedSpec
PROPERTY ImplementsActivations
CONSTANTS
  main = main
  sub = sub
  F = F
  W = W
  NoSnapshot = NoSnapshot
  Proc <- MCProc
  Main = main
  ModuleOf <- MCModuleOf
  Exported <- MCProc
  LocalInit <- MCLocalInit
  Entry <- MCEntry
  Word <- MCWord
  PC = {1,2}
  EvalCap = 1
  CallCap = 1
  TupleCap = 1
  SnapshotCap = 2
  TokenMod = 5
  FirstToken = 1
  FalseToken = 4
  MaxJumpToken = 3
  MaxArgs = 1
  MaxPops = 1
CHECK_DEADLOCK FALSE
