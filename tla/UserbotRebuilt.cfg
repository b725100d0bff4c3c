SPECIFICATION BotSpec
CONSTANTS
    t1 = t1
    t2 = t2
    h1 = h1
    Tasks = {t1, t2}
    Callers = {h1}
    Healer = healer
    Nobody = nobody
    MaxKey = 2
    MaxClient = 4
    MaxTrouble = 1
CHECK_DEADLOCK FALSE
INVARIANTS OneOwnClient HeardOnce
PROPERTY Reconnected
