SPECIFICATION Spec
INVARIANTS TypeOK LoadsLikePosix TablesTrue AreasApart HeapAsSeeded
PROPERTIES ReadsTrue LoadingEnds
VIEW View
CONSTANTS
  HeaderBytes = 3
  EntryBytes = 2
  ModuleBytes = 2
  ExportBytes = 3
  InitializerBytes = 2
  FileAlign = 4
  Disks <- MCDisks
  Board = {"plain","mode","none"}
  Chunk = 2
  SkipChunk = 3
  HeapBytes = 24
  ReuBytes = 72
  ReuAlign = 4
  ProbeAt = 2
  MaxSections = 8
  MaxModules = 2
  MaxExports = 2
  MaxInitializers = 2
  MaxLayout = 8
  Dirty = Dirty
  Junk = Junk
  SegmentBytes = 12
  PageBytes = 2
  ExportEntries = 1
  InitializerEntries = 1
  LocalBytes = 2
  CallCap = 1
  SlotBytes = 2
  SlotCap = 2
  MaxProgramGlobals = 2
  MaxModuleGlobals = 2
  Zero = Zero
  Seed = Seed
  Mark = Mark
CHECK_DEADLOCK FALSE
