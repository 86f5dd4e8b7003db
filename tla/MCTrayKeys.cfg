SPECIFICATION TSpec
CONSTANTS
    a1 = a1
    a2 = a2
    o1 = o1
    i1 = i1
    p1 = p1
    p2 = p2
    Addresses <- OneAddress
    Owners <- OneOwner
    OwnerOf <- OwnedByOne
    Calls <- OneCall
    Items <- OneItem
    BadItems <- Nothing
    Menus <- Nothing
    BadMenus <- Nothing
    Sinks <- Nothing
    Absent = Absent
    NoSink = NoSink
    MaxItems = 8
    MaxGeneration = 1
    MaxSequence = 12
    MaxRelations = 2
    MaxStarts = 1
    MaxErrors = 1
CHECK_DEADLOCK FALSE
INVARIANT KeysNeverReused
