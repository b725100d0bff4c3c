SPECIFICATION SourcesSpec
CONSTANTS
    Editors = {e1, e2}
    Readers = {r1}
    Flags = {a, b}
    NoSnapshot = NoSnapshot
    MaxMade = 2
    Owner = e1
    Worker = r1
    Channels = {c1, c2}
    Refused = {3}
    Window = 2
    PerCheck = 1
    MaxItem = 3
    MaxTrouble = 1
    Spenders = {d1, d2}
    Amounts = {1, 2}
    Limit = 2
    Credit = 2
    MaxAsks = 3
    MaxKills = 1
    live = live
    live2 = live2
    sweep = sweep
    release = release
    Posts = {1, 2, 3}
    Workers = {live, sweep, release}
    Role <- RoleOf
    Gap = 2
    Hours = TRUE
    HoldOutside = TRUE
    Day = 3
    Night = 1
    Texts = {x1}
    Parts = {y1, y2}
    Busy = 1
    MaxPlace = 3
    MaxStop = 1
    Wordings = {w1, w2}
    First = w1
    Targets = {t1, t2}
    Syncs = {h1, h2}
    Gone = Gone
    MaxEdits = 3
    MaxFaults = 1
CHECK_DEADLOCK FALSE
INVARIANTS SnapshotFollows SettingsKept FeedOnce Accounted SlotsApart InOrderOnce
PROPERTIES NewItemServed QueueMoves EditsLand
