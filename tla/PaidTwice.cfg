SPECIFICATION PaySpec
CONSTANTS
    q1 = q1
    q2 = q2
    ann = ann
    bob = bob
    d1 = d1
    d2 = d2
    gate = gate
    h1 = h1
    Requests = {q1}
    Users = {ann, bob}
    Reviewers = {d1, d2}
    Checker = checker
    Gateways = {}
    Hashes = {}
    Small = {}
    Reference = reference
    NoHash = nohash
    NoRequest = none
    Pages = 1
    Coupon = FALSE
    MaxUses = 0
    PerUser = 0
    Resend = FALSE
    MaxBusy = 2
    MaxCrash = 0
INVARIANT GivenOnce
CHECK_DEADLOCK FALSE
