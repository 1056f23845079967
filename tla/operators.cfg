SPECIFICATION OperatorsSpec
CONSTANTS
  MaxInitializers = 2
  SampleWords <- MCSampleWords
  Starts <- MCStarts
  Displacements <- MCDisplacements
  FieldWords <- MCFieldWords
  FieldControls <- MCFieldControls
  Texts <- MCTexts
  Keys <- MCKeys
  Messages <- MCMessages
  Headers <- MCHeaders
  Records <- MCRecords
INVARIANTS
  ArithmeticAgrees
  JumpsLand
  BranchesDecided
  FieldsKeep
  StringsOrdered
  TextUnpacks
  HeadersRead
  ExtractsFields
