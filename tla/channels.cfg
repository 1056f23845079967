SPECIFICATION DisciplinedSpec
VIEW Lasting
INVARIANT TypeOK
PROPERTY ImplementsFiles
CONSTANTS
  obj = obj
  f1 = f1
  z = z
  b = b
  File <- MCFile
  Names <- MCNames
  Obj = obj
  Image <- MCImage
  Byte <- MCByte
  Zero = z
  MaxNode = 2
  MaxChannels = 3
  IdMod = 9
  FalseId = 7
  Error = 8
  Block = 2
  WordRecords = 2
  Negative = 6
  DefaultRecord = 2
  RecordSizes = {1, 3}
  MaxLength = 4
  MaxWords = 1
  MaxOpens = 4
