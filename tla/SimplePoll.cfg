SPECIFICATION FairSpec
CONSTANTS
    a1 = a1
    a2 = a2
    s1 = s1
    s2 = s2
    t1 = t1
    t2 = t2
    t3 = t3
    Accounts = {a1, a2}
    Sources = {s1}
    Tasks = {t1}
    SourceOf <- OneSource
    Poller = poller
    Readers = {reader}
    NoOne = noone
    MaxPost = 3
    Lookback = 2
    MaxTrouble = 2
CHECK_DEADLOCK FALSE
INVARIANT EachPostOnce
PROPERTY ServedAgain
