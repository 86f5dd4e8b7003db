SPECIFICATION Spec
CONSTANTS
  a1 = a1
  a2 = a2
  a3 = a3
  i1 = i1
  i2 = i2
  badItem = badItem
  m1 = m1
  badMenu = badMenu
  s1 = s1
  s2 = s2
  Absent = Absent
  NoSink = NoSink
  Addresses <- AddressSet
  Items <- ItemSet
  BadItems <- BadItemSet
  Menus <- MenuSet
  BadMenus <- BadMenuSet
  Sinks <- SinkSet
  MaxItems = 2
  MaxGeneration = 3
  MaxSequence = 6
SYMMETRY Symmetry
INVARIANTS TypeOK OrderExact ItemCap SinkConverges MenuAfterItem
PROPERTY EventsAreChanges
PROPERTY ImplementsFeed
CHECK_DEADLOCK FALSE
