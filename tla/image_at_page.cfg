SPECIFICATION Spec
CONSTANTS
  PageBytes = 16
  UnitBytes = 32
  HeaderWords = 16
  MaxInitializers = 2
  MaxModules = 2
  Programs <- MCAtPagePrograms
  Cases <- MCAtPage
INVARIANT
  WholeFilesLoad
