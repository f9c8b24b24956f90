SPECIFICATION Spec
CONSTANTS
    l1 = l1
    l2 = l2
    l3 = l3
    NoLwp = NoLwp
    Lwps = {l1, l2, l3}
    Timed = {l2, l3}
    Catching = {l3}
    MaxItems = 2
INVARIANTS
    WakeupsCoverItems
    NoStaleTimeout
    SignalNotMissed
PROPERTIES
    WaitersReturn
