SPECIFICATION Spec
INVARIANTS TypeOK LiveRecordsIntact
CONSTANTS
  main = main
  sub = sub
  F = F
  W = W
  NoSnapshot = NoSnapshot
  Proc <- MCProc
  Main = main
  ModuleOf <- MCModuleOf
  Exported <- MCProc
  LocalInit <- MCLocalInit
  Entry <- MCEntry
  Word <- MCWord
  PC = {1}
  EvalCap = 1
  CallCap = 2
  TupleCap = 0
  SnapshotCap = 3
  TokenMod = 6
  FirstToken = 1
  FalseToken = 3
  MaxJumpToken = 4
  MaxArgs = 1
  MaxPops = 1
CHECK_DEADLOCK FALSE
