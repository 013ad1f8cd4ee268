SPECIFICATION FairSpec
CONSTANTS
    t1 = t1
    t2 = t2
    t3 = t3
    int = int
    list1 = list1
    list2 = list2
    odd = odd
    host1 = host1
    host2 = host2
    repr = repr
    none = none
    Threads = {t1, t2, t3}
    Typed = {t1, t2}
    Models = {int, list1, list2, odd}
    Unhashable = {list1, list2, odd}
    KeyOf <- Key
    NoKey = none
    Undecodable = {list2, odd}
    MaxEntries = 1
    Keys = {host1, host2}
    KeysOf <- Hosts
    MaxConcurrent = 1
    HasTimeout = TRUE
INVARIANTS
    TypeOK
    RightAdapter
    CacheBounded
    OneCircuitPerKey
    PermitsInUse
PROPERTIES
    EveryCallEnds
