SPECIFICATION FairSpec
CONSTANTS
    live = live
    live2 = live2
    sweep = sweep
    release = release
    Posts = {1, 2, 3}
    Workers = {live, release}
    Role <- RoleOf
    Gap = 2
    Hours = FALSE
    HoldOutside = FALSE
    Day = 1
    Night = 1
PROPERTY HeldGoesOut
