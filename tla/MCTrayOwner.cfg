SPECIFICATION TSpec
CONSTANTS
    a1 = a1
    a2 = a2
    o1 = o1
    i1 = i1
    p1 = p1
    p2 = p2
    Addresses <- TwoAddresses
    Owners <- OneOwner
    OwnerOf <- OwnedByOne
    Calls <- TwoCalls
    Items <- OneItem
    BadItems <- Nothing
    Menus <- Nothing
    BadMenus <- Nothing
    Sinks <- Nothing
    Absent = Absent
    NoSink = NoSink
    MaxItems = 8
    MaxGeneration = 2
    MaxSequence = 12
    MaxRelations = 1
    MaxStarts = 0
    MaxErrors = 1
SYMMETRY Symmetry
CHECK_DEADLOCK FALSE
INVARIANT NoOrphanItem
INVARIANT NoWorkerAfterStop
