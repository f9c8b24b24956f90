SPECIFICATION Spec
CONSTANTS
    Lwps = {l1, l2, l3}
    NoLwp = NoLwp
    NCPU = 2
INVARIANTS
    MutualExclusion
    NoLostWakeup
PROPERTIES
    SleepersWake
