SPECIFICATION Spec
CONSTANTS
    live = live
    live2 = live2
    sweep = sweep
    release = release
    owner1 = owner1
    owner2 = owner2
    retry = retry
    main = main
    extra = extra
    i1 = i1
    i2 = i2
    i3 = i3
    Role <- RoleOf
    MainDest = main
    Posts = {1}
    Dests = {main, extra}
    Workers = {live, retry}
    ItemIds = {i1, i2}
    Heard = {1}
    Approval = FALSE
    SkipDuplicates = TRUE
    Holds = {}
    SlowGates = FALSE
    Faults = {"flood"}
    MaxAttempts = 2
    RetryCap = 2
    Lookback = 1
    Quota = 2
    MaxCuts = 0
CHECK_DEADLOCK FALSE
INVARIANT NothingForgotten
