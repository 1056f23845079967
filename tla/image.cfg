SPECIFICATION Spec
CONSTANTS
  PageBytes = 16
  UnitBytes = 32
  HeaderWords = 16
  MaxInitializers = 2
  MaxModules = 2
  Programs <- MCPrograms
  Cases <- MCCases
INVARIANTS
  TypeOK
  WholeFilesLoad
  CutFilesLoseOnlyRam
  ImageInsideFiles
  FailuresFreeAll
