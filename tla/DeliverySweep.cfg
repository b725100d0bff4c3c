SPECIFICATION Spec
CONSTANTS
    live = live
    live2 = live2
    sweep = sweep
    release = release
    owner1 = owner1
    owner2 = owner2
    retry = retry
    main = main
    extra = extra
    i1 = i1
    i2 = i2
    i3 = i3
    Role <- RoleOf
    MainDest = main
    Posts = {1, 2}
    Dests = {main, extra}
    Workers = {live, sweep, retry}
    ItemIds = {i1, i2, i3}
    Heard = {1}
    Approval = FALSE
    SkipDuplicates = TRUE
    Holds = {}
    SlowGates = TRUE
    Faults = {"transient", "lostAck", "filtered", "noplan", "permanent", "forbidden", "toggle"}
    MaxAttempts = 2
    RetryCap = 1
    Lookback = 2
    Quota = 2
    MaxCuts = 1
SYMMETRY OwnersAndItems
CHECK_DEADLOCK FALSE
INVARIANTS OneHandler AtMostOncePerCut RetryFillsGaps NothingForgotten QueueNearCap
