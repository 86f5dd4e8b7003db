SPECIFICATION PSpec
CONSTANTS
  a1 = a1
  a2 = a2
  i1 = i1
  i2 = i2
  m1 = m1
  c1 = c1
  c2 = c2
  Absent = Absent
  NoSink = NoSink
  Addresses <- OneAddress
  Items <- OneItem
  BadItems = {}
  Menus = {}
  BadMenus = {}
  Sinks <- TwoConns
  MaxItems = 1
  MaxGeneration = 1
  MaxSequence = 1
  PixmapBytes <- UnitPixmaps
  MaxPixmapBytesAggregate = 1
  MaxQueueMessages = 3
  MaxQueueBytes = 4
  MaxRequest = 0
PROPERTY NewerReplaces
CHECK_DEADLOCK FALSE
