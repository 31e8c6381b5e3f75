SPECIFICATION FairSpec
CONSTANTS
    Ids = {s1, s2}
    Users = {u1}
    Threads = {t1, t2}
    Nil = Nil
    Limit = 1
    Ttl = 2
    MaxFaults = 1
INVARIANTS  LimitKept
PROPERTIES MountsGo
