SPECIFICATION Spec
CONSTANTS
    Lwps = {l1, l2, l3, l4}
    NoLwp = NoLwp
    Upgraders = {l1}
INVARIANTS
    Exclusion
    SleepersAreRemembered
    HandoverAsserts
PROPERTIES
    SleepersWake
