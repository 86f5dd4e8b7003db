SPECIFICATION ItemSpec
CONSTANTS
    MaxVersion = 3
    Keys = {k1, k2}
    GlobalInterval = 2
    PerItemInterval = 4
    MaxTime = 9
    MaxMenuDepth = 2
    MaxMenuNodes = 5
    MaxMenuIconBytes = 2
    MaxLayout = 6
    IconSizes = {2, 3}
    MaxPixmapDimension = 2
    MaxPixmapBytesPerItem = 20
    MaxCandidates = 4
CHECK_DEADLOCK FALSE
INVARIANT PXTypeOK
INVARIANT NoLostWakeup
INVARIANT ClosedIsQuiet
INVARIANT LTypeOK
INVARIANT Spacing
INVARIANT SiblingsServed
INVARIANT TreeFaithful
INVARIANT LimitsExact
INVARIANT PixmapsFit
PROPERTY DropEnds
PROPERTY ProxyConverges
