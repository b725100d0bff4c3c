SPECIFICATION FairSpec
CONSTANTS
    live = live
    live2 = live2
    sweep = sweep
    release = release
    owner1 = owner1
    owner2 = owner2
    retry = retry
    main = main
    extra = extra
    i1 = i1
    i2 = i2
    i3 = i3
    Role <- RoleOf
    MainDest = main
    Posts = {1, 2}
    Dests = {main}
    Workers = {live, sweep, retry, owner1}
    ItemIds = {i1}
    Heard = {1}
    Approval = TRUE
    SkipDuplicates = TRUE
    Holds = {}
    SlowGates = FALSE
    Faults = {"transient", "permanent"}
    MaxAttempts = 2
    RetryCap = 1
    Lookback = 1
    Quota = 2
    MaxCuts = 0
CHECK_DEADLOCK FALSE
PROPERTIES RetryEnds SweeperFinds ApprovedGoesOut
