SPECIFICATION WqSpec
CONSTANTS
    Works = {w1, w2, w3}
    Wqe = wqe
    Nil = Nil
INVARIANT
    RegistersOnce
