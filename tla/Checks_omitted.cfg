SPECIFICATION ChecksPageSpec
CONSTANTS
    Shown = {pa,pb}
    LastCheck = 3
    ListLimit = 1
    ListPages = 2
    MayDeleteMidway = TRUE
INVARIANT NothingIsOmittedSilently
CHECK_DEADLOCK FALSE
