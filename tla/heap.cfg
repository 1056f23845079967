SPECIFICATION Spec
INVARIANTS TypeOK VectorsApart TuplesApart
PROPERTY ImplementsVectors
CONSTANTS
  z = z
  h = h
  w = w
  Value <- MCValue
  Zero = z
  Header = h
  SegmentBytes = 12
  ReserveBytes = 6
  ImageBytes = 1
  Buckets = 3
  Request = {0,3}
  MaxSaved = 1
  MaxMarked = 1
VIEW View
CHECK_DEADLOCK FALSE
