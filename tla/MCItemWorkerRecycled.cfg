SPECIFICATION SceneSpec
CONSTANTS
    Paths = {pa}
    NoPath = none
    FirstPath = pa
    MaxMenus = 1
    MaxChanges = 0
    MaxCommands = 0
    MaxLives = 2
    MaxTerminates = 1
CHECK_DEADLOCK FALSE
INVARIANT RecycledNeverHit
