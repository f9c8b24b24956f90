SPECIFICATION IfSpec
CONSTANTS
    cpu0 = cpu0
    cpu1 = cpu1
    cpu2 = cpu2
    r1 = r1
    r2 = r2
    CPUs = {cpu0, cpu1, cpu2}
    Psrefs = {r1, r2}
INVARIANTS
    DestroyWaits
PROPERTIES
    DestroyReturns
    ImplementsPsref
