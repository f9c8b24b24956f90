SPECIFICATION WqSpec
CONSTANTS
    Works = {w1, w2, w3}
    Wqe = wqe
    Nil = Nil
INVARIANTS
    RunsWhatItTook
    WaitsUntilFinished
PROPERTIES
    EveryWorkIsCalled
    CallersReturn
