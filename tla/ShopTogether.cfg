SPECIFICATION Spec
CONSTANTS
    ann = ann
    rep = rep
    c1 = c1
    c2 = c2
    g1 = g1
    s1 = s1
    s2 = s2
    s3 = s3
    Users = {ann, rep}
    Resellers = {rep}
    Keepers = {rep}
    AutoRenew = {ann}
    Plans <- MCPlans
    Trial = "trial"
    Price <- MCPrice
    Cut <- MCCut
    Days <- MCDays
    Gifts = {g1}
    GiftPlan <- MCGiftPlan
    Ids = {s1, s2, s3}
    Chats = {c1, c2}
    Renewer = renewer
    Nothing = nothing
    Subscribers = {ann}
    MaxBusy = 2
    Sums = {6}
    Shifts <- MCShifts
    MaxAsked = 4
    MaxDay = 1
    MaxFailures = 1
SYMMETRY Interchangeable
INVARIANTS LedgerKept GiftOnce PaidFor RenewedOnce
CHECK_DEADLOCK FALSE
