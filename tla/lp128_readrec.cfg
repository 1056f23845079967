SPECIFICATION Spec
INVARIANT CachedPageTrue
VIEW View
CONSTANTS
  SegmentBytes = 4
  PageBytes = 4
  ScratchBytes = 2
  ShortMod = 8
  LongMod = 64
  RoDataAt = 16
  ReuBytes = 18
  Byte = {0,1}
  Zero = 0
  Code <- MCCode
  RoData <- MCRoData
  File <- MCFile
  DefaultRecord = 2
  WordLimit = 2
  Handle = {0,1,2,3}
  Index = {0,1,2}
  Count = {0,1,3}
  RecordWord = {0,1,3,7}
CHECK_DEADLOCK FALSE
