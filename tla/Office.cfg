SPECIFICATION OfficeSpec
CONSTANTS
    s1 = s1
    s2 = s2
    f1 = f1
    p1 = p1
    p1b = p1b
    p2 = p2
    Handlers = {m1, m2}
    Sources = {s1, s2}
    FeedUrls = {f1}
    Places = {p1, p1b, p2}
    Offered = {s2, p2}
    ChatOf <- MCChatOf
    Null = Null
    TaskLimit = 1
    ExtraLimit = 1
    FirstSource = s1
    FirstPlace = p1
    MaxMessages = 4
    Behind = 2
    Admins = {a1, a2}
    PlanRows = {free, pro}
    CreditRow = credit
    People = {u1}
    Features = {x1, x2}
    MaxChanges = 3
    Coins = {usdt, trx}
    Usdt = usdt
    Rounds = {loop, panel}
    Loop = loop
    Markets = {k1, k2, k3}
    Prices = {10, 11, 13, 90}
    Low = 5
    High = 50
    Margin = 10
    MaxActs = 3
    Senders = {t1, t2}
    PerMinute = 1
    PerHour = 2
    FairUse = 1
    Minute = 1
    Hour = 2
    DayLong = 3
    MaxTime = 4
    MaxPosts = 3
    Texts <- Posted
    Styles <- Styled
    n1 = n1
    n2 = n2
    Sendings = {n1, n2}
    Batches <- Batch
    MaxTries = 2
    MaxTrouble = 2
    r1 = r1
    Customers = {c1, c2}
    Sold = {c1, c2}
    SellerOf <- MCSellerOf
    Round = 1
    SellerRound = 1
    DayHours = 3
    ChurnAfter = 1
    ChurnBefore = 3
    Warning = 5
    Grace = 5
    Keep = 6
    Terms = {5}
    Shifts = {2}
    MaxHour = 11
    MaxSubs = 2
    SaleHours = {0, 4}
    MaxTroubles = 1
SYMMETRY OfficeSymmetry
INVARIANTS TasksFit PlansTrue ByHandKept PaceKept TextTrue SentWhole ToldOnceInTime
CHECK_DEADLOCK FALSE
