SPECIFICATION PaySpec
CONSTANTS
    q1 = q1
    q2 = q2
    ann = ann
    bob = bob
    d1 = d1
    d2 = d2
    gate = gate
    h1 = h1
    Requests = {q1, q2}
    Users = {ann, bob}
    Reviewers = {d1}
    Checker = checker
    Gateways = {gate}
    Hashes = {h1}
    Small = {}
    Reference = reference
    NoHash = nohash
    NoRequest = none
    Pages = 1
    Coupon = TRUE
    MaxUses = 1
    PerUser = 1
    Resend = TRUE
    MaxBusy = 2
    MaxCrash = 1
INVARIANTS HashPaysOnce RewardedOnce
PROPERTIES ApprovedServed ConfirmedActivated
CHECK_DEADLOCK FALSE
