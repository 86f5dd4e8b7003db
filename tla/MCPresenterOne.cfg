SPECIFICATION PSpec
CONSTANTS
  a1 = a1
  a2 = a2
  i1 = i1
  i2 = i2
  m1 = m1
  c1 = c1
  c2 = c2
  Absent = Absent
  NoSink = NoSink
  Addresses <- TwoAddresses
  Items <- TwoItems
  BadItems = {}
  Menus <- MenuSet
  BadMenus = {}
  Sinks <- OneConn
  MaxItems = 2
  MaxGeneration = 1
  MaxSequence = 3
  PixmapBytes <- UnitPixmaps
  MaxPixmapBytesAggregate = 1
  MaxQueueMessages = 4
  MaxQueueBytes = 6
  MaxRequest = 2
SYMMETRY Symmetry
INVARIANTS QueueAccounting ShellNeverConfused CommandsOnce
PROPERTY ImplementsMirror
CHECK_DEADLOCK FALSE
