SPECIFICATION SceneSpec
CONSTANTS
    Paths = {pa, pb}
    NoPath = none
    FirstPath = pa
    MaxMenus = 3
    MaxChanges = 2
    MaxCommands = 1
    MaxLives = 2
    MaxTerminates = 2
CHECK_DEADLOCK FALSE
INVARIANT NoMenuLeak
INVARIANT NoLostLayout
INVARIANT SignalsVerified
INVARIANT OutcomeTrue
INVARIANT CloseOffered
PROPERTY MenuForward
PROPERTY SupersededRefused
PROPERTY WorkerEnds
PROPERTY MenuConverges
