SPECIFICATION Spec
CONSTANTS
    live = live
    live2 = live2
    sweep = sweep
    release = release
    owner1 = owner1
    owner2 = owner2
    retry = retry
    main = main
    extra = extra
    i1 = i1
    i2 = i2
    i3 = i3
    Role <- RoleOf
    MainDest = main
    Posts = {1, 2}
    Dests = {main}
    Workers = {live, sweep, release, owner1}
    ItemIds = {}
    Heard = {1}
    Approval = TRUE
    SkipDuplicates = TRUE
    Holds = {"hours", "engagement", "gap"}
    SlowGates = FALSE
    Faults = {"deleted", "unreadable", "fatal"}
    MaxAttempts = 1
    RetryCap = 1
    Lookback = 2
    Quota = 2
    MaxCuts = 1
CHECK_DEADLOCK FALSE
INVARIANT UnitsBacked
PROPERTY DeliversAsPromised
