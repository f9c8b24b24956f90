SPECIFICATION PartSpec
CONSTANTS
    t1 = t1
    t2 = t2
    i1 = i1
    i2 = i2
    Nil = Nil
    Producers = {t1, t2}
    Items = {i1, i2}
    pcq_nitems = 3
    cpu0 = cpu0
    cpu1 = cpu1
    cpu2 = cpu2
    CPUs = {cpu0, cpu1, cpu2}
    MaxRefs = 4
    MaxLocal = 3
    oa = oa
    ob = ob
    Lwps = {l1, l2, l3}
    Onces = {oa, ob}
    Errors = {0, 5}
    NoLwp = NoLwp
INVARIANTS
    SlotsAccounted
    CountsAddUp
    DrainWaits
    RunsOnce
    SleepersAreOwedABroadcast
PROPERTIES
    ImplementsQueue
    EveryItemIsGot
    DrainReturns
    ResultStable
    CallsReturn
