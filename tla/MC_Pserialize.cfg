SPECIFICATION Spec
CONSTANTS
    o1 = o1
    o2 = o2
    cpu0 = cpu0
    cpu1 = cpu1
    cpu2 = cpu2
    Objects = {o1, o2}
    CPUs = {cpu0, cpu1, cpu2}
    BootCpu = cpu0
INVARIANTS
    OldVersionUnused
    TwoPasses
PROPERTIES
    PerformReturns
