SPECIFICATION Spec
CONSTANTS
    Node = {n1, n2, n3, n4, n5}
    Timers = {n1, n2}
    Peers <- AllOthers
    Command = {"x"}
    Nil = Nil
    LateReads = FALSE
    ApplyCap = 1
    MaxTerm = 1
    MaxLog = 0
SYMMETRY NodeSymmetry
VIEW LiveState
ACTION_CONSTRAINT EagerSend
INVARIANT ElectionSafety
CHECK_DEADLOCK FALSE
