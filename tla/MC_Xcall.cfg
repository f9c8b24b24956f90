SPECIFICATION Spec
CONSTANTS
    t1 = t1
    t2 = t2
    cpu0 = cpu0
    cpu1 = cpu1
    cpu2 = cpu2
    None = None
    Callers = {t1, t2}
    CPUs = {cpu0, cpu1, cpu2}
    Running = {cpu0, cpu1}
    MaxHead = 4
INVARIANTS
    BoxAccounted
PROPERTIES
    ImplementsCrossCall
    CallsComplete
CHECK_DEADLOCK FALSE
