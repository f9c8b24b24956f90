SPECIFICATION Spec
CONSTANTS
    m1 = m1
    b1 = b1
    t1 = t1
    t2 = t2
    cpu0 = cpu0
    cpu1 = cpu1
    None = None
    Callouts = {m1, b1}
    Mpsafe = {m1}
    Threads = {t1, t2}
    CPUs = {cpu0, cpu1}
    CPU0 = cpu0
PROPERTY
    HaltBlocks
