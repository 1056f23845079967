SPECIFICATION RecencySpec
INVARIANTS TypeOK FetchedBytesTrue PagesOnce PinsExact
PROPERTY EvictsLeastRecent
CONSTANTS
  m1 = m1
  m2 = m2
  Junk = Junk
  Module <- MCModule
  FirstPage <- MCFirstPage
  LastPage <- MCLastPage
  Slots = 3
  TickMod = 5
  PinMax = 2
  MaxPinned = 2
CHECK_DEADLOCK FALSE
