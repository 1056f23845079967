SPECIFICATION Spec
INVARIANTS TypeOK LiveSlotsIntact
VIEW View
PROPERTY ImplementsActivations
CONSTANTS
  main = main
  exit = exit
  F = F
  W = W
  NoSnapshot = NoSnapshot
  Proc <- MCProc
  Main = main
  ModuleOf <- MCModuleOf
  Exported = {main}
  LocalInit <- MCLocalInit
  Entry <- MCEntry
  Word <- MCWord
  PC = {1,2}
  Target = {1}
  ReturnPC = {1,2}
  Landing <- MCLanding
  ExitProc = exit
  ExitPc = {2}
  EvalCap = 2
  CallCap = 1
  TupleCap = 1
  SnapshotCap = 2
  TokenMod = 4
  FirstToken = 3
  FalseToken = 1
  MaxArgs = 1
  MaxPops = 1
CHECK_DEADLOCK FALSE
